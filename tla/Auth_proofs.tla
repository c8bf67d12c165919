------------------------------ MODULE Auth_proofs ------------------------------
(***************************************************************************)
(* Proofs about the credentials of the server: the tokens of one user, for *)
(* any number of machines and threads, on both databases; and the one-time *)
(* stores, for any number of codes, threads and processes, any capacity    *)
(* and lifetime, and a death at any step.                                  *)
(***************************************************************************)
EXTENDS DeviceTokens, OneTimeCodes, FiniteSetTheorems, TLAPS

(* ---- tokens of devices and browsers ------------------------------------------- *)

DeviceStates == {"none", "active", "revoked"}
Rotations == [step : {"rotate"}, machine : Machines, saw : DeviceStates]
Retirements == [step : {"retire"}, stale : SUBSET (1 .. MaxTokens), met : BOOLEAN]

AuthTypes ==
  /\ AuthTypeOK
  /\ pairs \in [Machines -> SUBSET (Kinds \X (1 .. MaxTokens))]
  /\ auth \in [AuthThreads -> {NoAuth} \cup Rotations \cup Retirements]

\* The live tokens of a machine were minted together.
OnePair == \A m \in Machines : \E n \in 0 .. MaxTokens : pairs[m] \subseteq Kinds \X {n}

\* A machine without an active device has no tokens, or was revoked under a login.
NoneRevoked ==
  \A m \in Machines :
    devices[m] # "active" /\ (RowLocks \/ m \notin crossed) => pairs[m] = {}

\* A login that loaded an active device still finds it so, unless it was crossed.
LoadedActive ==
  \A a \in AuthThreads :
    Doing(a, "rotate") /\ auth[a].saw = "active" /\ devices[auth[a].machine] # "active" =>
      ~RowLocks /\ auth[a].machine \in crossed

\* At most one browser session, unless logins overlapped; and whoever met no other
\* login since it listed them holds every browser session there is.
OneBrowser == ~together => \E n \in Nat : browsers \subseteq {n}
ListedAll ==
  \A a \in AuthThreads : Doing(a, "retire") /\ ~auth[a].met => browsers \subseteq auth[a].stale

AuthInv == AuthTypes /\ OnePair /\ NoneRevoked /\ LoadedActive /\ OneBrowser /\ ListedAll

-----------------------------------------------------------------------------
(* The invariant is inductive: one lemma per action. *)

LEMMA InitAuth == AuthInit => AuthInv
<1> SUFFICES ASSUME AuthInit PROVE AuthInv
  OBVIOUS
<1>1. AuthTypes
  <2>1. together \in BOOLEAN /\ crossed \subseteq Machines
    BY Zenon DEF AuthInit
  <2>2. /\ devices \in [Machines -> {"none", "active", "revoked"}]
        /\ auth \in [AuthThreads -> {NoAuth} \cup Rotations \cup Retirements]
        /\ browsers \subseteq 1 .. MaxTokens /\ minted \in 0 .. MaxTokens
    BY AuthAssumption DEF AuthInit
  <2>3. pairs \in [Machines -> SUBSET (Kinds \X (1 .. MaxTokens))]
    BY DEF AuthInit
  <2> QED
    BY <2>1, <2>2, <2>3 DEF AuthTypes, AuthTypeOK
<1>2. OnePair
  BY AuthAssumption DEF AuthInit, OnePair
<1>3. NoneRevoked /\ LoadedActive /\ ListedAll
  BY DEF AuthInit, NoneRevoked, LoadedActive, ListedAll, Doing
<1>4. OneBrowser
  <2>1. browsers \subseteq {0}
    BY DEF AuthInit
  <2> QED
    BY <2>1 DEF OneBrowser
<1> QED
  BY <1>1, <1>2, <1>3, <1>4 DEF AuthInv

\* The parts of the invariant that only the tokens of machines concern, and those
\* that only browser sessions do.
LEMMA MachinesAlone ==
  ASSUME OneBrowser, ListedAll, UNCHANGED <<browsers, together>>,
         \A a \in AuthThreads : Doing(a, "retire")' => auth'[a] = auth[a]
  PROVE  OneBrowser' /\ ListedAll'
BY DEF OneBrowser, ListedAll, Doing

LEMMA BrowsersAlone ==
  ASSUME OnePair, NoneRevoked, LoadedActive, UNCHANGED <<devices, pairs, crossed>>,
         \A a \in AuthThreads : Doing(a, "rotate")' => auth'[a] = auth[a]
  PROVE  OnePair' /\ NoneRevoked' /\ LoadedActive'
BY DEF OnePair, NoneRevoked, LoadedActive, Doing

LEMMA LoadKeeps ==
  ASSUME AuthInv, NEW a \in AuthThreads, NEW m \in Machines, LoadDevice(a, m)
  PROVE  AuthInv'
<1> DEFINE op == [step |-> "rotate", machine |-> m, saw |-> devices[m]]
<1>1. op \in Rotations
  BY DEF AuthInv, AuthTypes, AuthTypeOK, Rotations, DeviceStates
<1>2. auth' = [auth EXCEPT ![a] = op] /\ UNCHANGED <<devices, pairs, browsers, minted, crossed, together>>
  BY DEF LoadDevice
<1>3. AuthTypes'
  BY <1>1, <1>2 DEF AuthInv, AuthTypes, AuthTypeOK
<1>4. OneBrowser' /\ ListedAll'
  BY <1>1, <1>2, MachinesAlone DEF AuthInv, AuthTypes, Doing, Rotations
<1>5. LoadedActive'
  BY <1>1, <1>2 DEF AuthInv, AuthTypes, LoadedActive, Doing, Rotations
<1> QED
  BY <1>2, <1>3, <1>4, <1>5 DEF AuthInv, OnePair, NoneRevoked

LEMMA RetryKeeps ==
  ASSUME AuthInv, NEW a \in AuthThreads, RetryRotation(a)
  PROVE  AuthInv'
<1> DEFINE m == auth[a].machine
           op == [auth[a] EXCEPT !.saw = devices[m]]
<1>0. auth[a] \in Rotations
  BY DEF AuthInv, AuthTypes, RetryRotation, Doing, Retirements
<1>1. op \in Rotations /\ op.machine = m /\ op.saw = devices[m] /\ op.step = "rotate"
  BY <1>0 DEF AuthInv, AuthTypes, AuthTypeOK, Rotations, DeviceStates
<1>2. auth' = [auth EXCEPT ![a] = op] /\ UNCHANGED <<devices, pairs, browsers, minted, crossed, together>>
  BY DEF RetryRotation
<1> HIDE DEF op
<1>3. AuthTypes'
  BY <1>1, <1>2 DEF AuthInv, AuthTypes, AuthTypeOK
<1>4. OneBrowser' /\ ListedAll'
  BY <1>1, <1>2, MachinesAlone DEF AuthInv, AuthTypes, Doing
<1>5. LoadedActive'
  BY <1>1, <1>2 DEF AuthInv, AuthTypes, LoadedActive, Doing
<1> QED
  BY <1>2, <1>3, <1>4, <1>5 DEF AuthInv, OnePair, NoneRevoked

LEMMA RotateKeeps ==
  ASSUME AuthInv, NEW a \in AuthThreads, RotatePair(a)
  PROVE  AuthInv'
<1> DEFINE m == auth[a].machine
           sawActive == auth[a].saw = "active"
<1>0. auth[a] \in Rotations /\ m \in Machines
  BY DEF AuthInv, AuthTypes, RotatePair, Doing, Retirements, Rotations
<1>1. minted + 1 \in 1 .. MaxTokens
  BY AuthAssumption DEF AuthInv, AuthTypes, AuthTypeOK, RotatePair
<1>2. /\ auth' = [auth EXCEPT ![a] = NoAuth]
      /\ pairs' = [pairs EXCEPT ![m] = Kinds \X {minted + 1}]
      /\ devices' = [devices EXCEPT ![m] = IF sawActive THEN @ ELSE "active"]
      /\ crossed' = IF sawActive THEN crossed ELSE crossed \ {m}
      /\ minted' = minted + 1 /\ UNCHANGED <<browsers, together>>
  BY DEF RotatePair
<1>3. AuthTypes'
  BY <1>0, <1>1, <1>2 DEF AuthInv, AuthTypes, AuthTypeOK, Kinds
<1>4. OneBrowser' /\ ListedAll'
  BY <1>2, MachinesAlone DEF AuthInv, AuthTypes, Doing
<1>5. OnePair'
  BY <1>0, <1>1, <1>2 DEF AuthInv, AuthTypes, OnePair
<1>6. sawActive /\ devices[m] # "active" => ~RowLocks /\ m \in crossed
  BY DEF AuthInv, LoadedActive, RotatePair
<1>7. NoneRevoked'
  BY <1>0, <1>2, <1>6 DEF AuthInv, AuthTypes, AuthTypeOK, NoneRevoked
<1>8. LoadedActive'
  BY <1>0, <1>2 DEF AuthInv, AuthTypes, AuthTypeOK, LoadedActive, Doing
<1> QED
  BY <1>3, <1>4, <1>5, <1>7, <1>8 DEF AuthInv

LEMMA RevokeDeviceKeeps ==
  ASSUME AuthInv, NEW m \in Machines, RevokeDevice(m)
  PROVE  AuthInv'
<1>1. /\ devices' = [devices EXCEPT ![m] = "revoked"]
      /\ pairs' = [pairs EXCEPT ![m] = {}]
      /\ UNCHANGED <<browsers, minted, auth, together>>
      /\ crossed \subseteq crossed' /\ crossed' \subseteq crossed \cup {m}
  BY DEF RevokeDevice
<1>2. \A a \in AuthThreads :
        Doing(a, "rotate") /\ auth[a].machine = m /\ auth[a].saw = "active" =>
          ~RowLocks /\ m \in crossed'
  BY DEF RevokeDevice, Locked
<1>3. AuthTypes'
  BY <1>1 DEF AuthInv, AuthTypes, AuthTypeOK
<1>4. OneBrowser' /\ ListedAll'
  BY <1>1, MachinesAlone DEF AuthInv, Doing
<1>5. OnePair'
  BY <1>1 DEF AuthInv, AuthTypes, OnePair
<1>6. NoneRevoked'
  BY <1>1 DEF AuthInv, AuthTypes, AuthTypeOK, NoneRevoked
<1>7. LoadedActive'
  BY <1>1, <1>2 DEF AuthInv, AuthTypes, AuthTypeOK, LoadedActive, Doing
<1> QED
  BY <1>3, <1>4, <1>5, <1>6, <1>7 DEF AuthInv

LEMMA RevokeTokenKeeps ==
  ASSUME AuthInv, NEW m \in Machines, NEW token \in pairs[m], RevokePairToken(m, token)
  PROVE  AuthInv'
<1>1. /\ pairs' = [pairs EXCEPT ![m] = @ \ {token}]
      /\ UNCHANGED <<devices, browsers, minted, auth, crossed, together>>
  BY DEF RevokePairToken
<1>2. \A k \in Machines : pairs'[k] \subseteq pairs[k]
  BY <1>1 DEF AuthInv, AuthTypes
<1>3. AuthTypes'
  BY <1>1 DEF AuthInv, AuthTypes, AuthTypeOK
<1>4. OneBrowser' /\ ListedAll' /\ LoadedActive'
  BY <1>1, MachinesAlone DEF AuthInv, LoadedActive, Doing
<1>5. OnePair' /\ NoneRevoked'
  <2>1. OnePair'
    BY <1>2 DEF AuthInv, OnePair
  <2>2. NoneRevoked'
    BY <1>1, <1>2 DEF AuthInv, NoneRevoked
  <2> QED
    BY <2>1, <2>2
<1> QED
  BY <1>3, <1>4, <1>5 DEF AuthInv

LEMMA ListKeeps ==
  ASSUME AuthInv, NEW a \in AuthThreads, ListBrowsers(a)
  PROVE  AuthInv'
<1> DEFINE op == [step |-> "retire", stale |-> browsers, met |-> FALSE]
<1>1. op \in Retirements /\ op.step = "retire" /\ op.stale = browsers
  BY DEF AuthInv, AuthTypes, AuthTypeOK, Retirements
<1>2. auth' = [auth EXCEPT ![a] = op] /\ UNCHANGED <<devices, pairs, browsers, minted, crossed, together>>
  BY DEF ListBrowsers
<1> HIDE DEF op
<1>3. AuthTypes'
  BY <1>1, <1>2 DEF AuthInv, AuthTypes, AuthTypeOK
<1>4. OnePair' /\ NoneRevoked' /\ LoadedActive'
  BY <1>1, <1>2, BrowsersAlone DEF AuthInv, AuthTypes, Doing
<1>5. OneBrowser' /\ ListedAll'
  BY <1>1, <1>2 DEF AuthInv, AuthTypes, OneBrowser, ListedAll, Doing
<1> QED
  BY <1>3, <1>4, <1>5 DEF AuthInv

LEMMA RetireKeeps ==
  ASSUME AuthInv, NEW a \in AuthThreads, NEW token \in 1 .. MaxTokens, RetireBrowser(a, token)
  PROVE  AuthInv'
<1> DEFINE op == [auth[a] EXCEPT !.stale = auth[a].stale \ {token}]
<1>0. auth[a] \in Retirements
  BY DEF AuthInv, AuthTypes, RetireBrowser, Doing, Rotations
<1>1. op \in Retirements /\ op.step = "retire" /\ op.met = auth[a].met
      /\ op.stale = auth[a].stale \ {token}
  BY <1>0 DEF Retirements
<1>2. /\ auth' = [auth EXCEPT ![a] = op] /\ browsers' = browsers \ {token}
      /\ UNCHANGED <<devices, pairs, minted, crossed, together>>
  BY DEF RetireBrowser
<1> HIDE DEF op
<1>3. AuthTypes'
  BY <1>1, <1>2 DEF AuthInv, AuthTypes, AuthTypeOK
<1>4. OnePair' /\ NoneRevoked' /\ LoadedActive'
  BY <1>1, <1>2, BrowsersAlone DEF AuthInv, AuthTypes, Doing
<1>5. OneBrowser'
  BY <1>2 DEF AuthInv, OneBrowser
<1>6. ListedAll'
  BY <1>1, <1>2 DEF AuthInv, AuthTypes, ListedAll, Doing, RetireBrowser
<1> QED
  BY <1>3, <1>4, <1>5, <1>6 DEF AuthInv

LEMMA MintKeeps ==
  ASSUME AuthInv, NEW a \in AuthThreads, MintBrowser(a)
  PROVE  AuthInv'
<1>0. auth[a] \in Retirements /\ auth[a].stale = {}
  BY DEF AuthInv, AuthTypes, MintBrowser, Doing, Rotations
<1>1. minted + 1 \in 1 .. MaxTokens
  BY AuthAssumption DEF AuthInv, AuthTypes, AuthTypeOK, MintBrowser
<1>2. /\ minted' = minted + 1 /\ browsers' = browsers \cup {minted + 1}
      /\ together' = auth[a].met /\ UNCHANGED <<devices, pairs, crossed>>
  BY DEF MintBrowser
<1>3. ASSUME NEW b \in AuthThreads
      PROVE  \/ auth'[b] = NoAuth
             \/ auth'[b] = auth[b] /\ ~Doing(b, "retire")
             \/ /\ auth'[b] \in Retirements /\ auth'[b].met
  <2>1. auth'[b] = IF b = a THEN NoAuth
                   ELSE IF b \in LocalLogins THEN [auth[b] EXCEPT !.met = TRUE] ELSE auth[b]
    BY DEF MintBrowser
  <2>2. b \in LocalLogins => auth[b] \in Retirements
    BY DEF AuthInv, AuthTypes, LocalLogins, Doing, Rotations
  <2>3. b \in LocalLogins => /\ [auth[b] EXCEPT !.met = TRUE] \in Retirements
                             /\ [auth[b] EXCEPT !.met = TRUE].met
    BY <2>2 DEF Retirements
  <2> QED
    BY <2>1, <2>3 DEF LocalLogins
<1>4. AuthTypes'
  <2>1. auth' \in [AuthThreads -> {NoAuth} \cup Rotations \cup Retirements]
    <3>1. \A b \in AuthThreads : auth'[b] \in {NoAuth} \cup Rotations \cup Retirements
      BY <1>3 DEF AuthInv, AuthTypes
    <3> QED
      BY <3>1 DEF MintBrowser
  <2>2. AuthTypeOK'
    BY <1>0, <1>1, <1>2 DEF AuthInv, AuthTypes, AuthTypeOK, Retirements
  <2> QED
    BY <1>2, <2>1, <2>2 DEF AuthInv, AuthTypes
<1>5. OnePair' /\ NoneRevoked' /\ LoadedActive'
  <2>1. \A b \in AuthThreads : Doing(b, "rotate")' => auth'[b] = auth[b]
    BY <1>3 DEF Doing, Retirements
  <2> QED
    BY <1>2, <2>1, BrowsersAlone DEF AuthInv
<1>6. OneBrowser'
  <2>1. ~auth[a].met => browsers = {}
    BY <1>0 DEF AuthInv, ListedAll, MintBrowser
  <2> QED
    BY <1>1, <1>2, <2>1 DEF OneBrowser
<1>7. ListedAll'
  BY <1>3 DEF ListedAll, Doing
<1> QED
  BY <1>4, <1>5, <1>6, <1>7 DEF AuthInv

LEMMA FailKeeps ==
  ASSUME AuthInv, NEW a \in AuthThreads, FailLogin(a)
  PROVE  AuthInv'
<1>1. auth' = [auth EXCEPT ![a] = NoAuth] /\ UNCHANGED <<devices, pairs, browsers, minted, crossed, together>>
  BY DEF FailLogin
<1>2. AuthTypes'
  BY <1>1 DEF AuthInv, AuthTypes, AuthTypeOK
<1>3. OneBrowser' /\ ListedAll'
  BY <1>1, MachinesAlone DEF AuthInv, AuthTypes, Doing
<1>4. OnePair' /\ NoneRevoked' /\ LoadedActive'
  BY <1>1, BrowsersAlone DEF AuthInv, AuthTypes, Doing
<1> QED
  BY <1>2, <1>3, <1>4 DEF AuthInv

LEMMA LogoutKeeps ==
  ASSUME AuthInv, NEW token \in browsers, Logout(token)
  PROVE  AuthInv'
<1>1. browsers' = browsers \ {token} /\ UNCHANGED <<devices, pairs, minted, auth, crossed, together>>
  BY DEF Logout
<1>2. AuthTypes'
  BY <1>1 DEF AuthInv, AuthTypes, AuthTypeOK
<1>3. OneBrowser' /\ ListedAll'
  BY <1>1 DEF AuthInv, OneBrowser, ListedAll, Doing
<1>4. OnePair' /\ NoneRevoked' /\ LoadedActive'
  BY <1>1, BrowsersAlone DEF AuthInv, Doing
<1> QED
  BY <1>2, <1>3, <1>4 DEF AuthInv

LEMMA StepAuth == AuthInv /\ [AuthNext]_authVars => AuthInv'
<1> SUFFICES ASSUME AuthInv, [AuthNext]_authVars PROVE AuthInv'
  OBVIOUS
<1>1. CASE UNCHANGED authVars
  BY <1>1 DEF authVars, AuthInv, AuthTypes, AuthTypeOK, OnePair, NoneRevoked, LoadedActive,
              OneBrowser, ListedAll, Doing
<1>2. CASE AuthNext
  BY <1>2, LoadKeeps, RetryKeeps, RotateKeeps, RevokeDeviceKeeps, RevokeTokenKeeps,
     ListKeeps, RetireKeeps, MintKeeps, FailKeeps, LogoutKeeps DEF AuthNext
<1> QED
  BY <1>1, <1>2

-----------------------------------------------------------------------------
LEMMA AtMostOne ==
  ASSUME NEW S, NEW x, S \subseteq {x}
  PROVE  Cardinality(S) <= 1
<1>1. IsFiniteSet({x}) /\ Cardinality({x}) = 1
  BY FS_Singleton
<1> QED
  BY <1>1, FS_Subset

\* A machine has one live token of each kind at most, and none without an active
\* device (DeviceCredentials), however the logins and revocations of
\* mint_device_tokens and revoke_device interleave.
THEOREM CredentialsHold == AuthSpec => []DeviceCredentials
<1>1. AuthInv => DeviceCredentials
  <2> SUFFICES ASSUME AuthInv, NEW m \in Machines, NEW kind \in Kinds
               PROVE  Cardinality({t \in pairs[m] : t[1] = kind}) <= 1
    BY DEF AuthInv, NoneRevoked, DeviceCredentials
  <2>1. PICK n \in 0 .. MaxTokens : pairs[m] \subseteq Kinds \X {n}
    BY DEF AuthInv, OnePair
  <2>2. {t \in pairs[m] : t[1] = kind} \subseteq {<<kind, n>>}
    BY <2>1
  <2> QED
    BY <2>2, AtMostOne
<1> QED
  BY <1>1, InitAuth, StepAuth, PTL DEF AuthSpec

\* A user has one browser session unless the last login overlapped another one
\* (OneLiveBrowser): whatever is retired, minted, logged out or fails.
THEOREM OneBrowserStays == AuthSpec => []OneLiveBrowser
<1>1. AuthInv => OneLiveBrowser
  BY AtMostOne DEF AuthInv, OneBrowser, OneLiveBrowser
<1> QED
  BY <1>1, InitAuth, StepAuth, PTL DEF AuthSpec

-----------------------------------------------------------------------------
(* ---- one-time codes ------------------------------------------------------------ *)

Operating(p) == codeOps[p] # AtRest
Entered(p) == Operating(p) /\ codeOps[p].step # "open"
Small(S) == IsFiniteSet(S) /\ Cardinality(S) <= MaxPending

CodeTypes ==
  /\ codeClock \in Nat
  /\ codeFile \in CodeEntries /\ Small(Pending)
  /\ codeLock \in CodeUsers \cup {AtRest}
  /\ codeOps \in [CodeUsers -> {AtRest} \cup CodeOpSet]
  /\ issued \subseteq Codes /\ redeemed \in [Codes -> Nat]

\* Whoever is past the lock holds it.
OneHolder == \A p \in CodeUsers : Entered(p) => codeLock = p

\* What an operation holds, and how the file looks to it, at each of its steps.
OpShape(op) ==
  /\ op.step \in {"open", "load"} => DOMAIN op.entries = {} /\ ~op.found
  /\ op.step = "truncate" =>
       /\ DOMAIN op.entries \subseteq Pending \cup {op.code}
       /\ op.found => op.code \in Pending
  /\ op.step = "write" => Pending = {}
  /\ op.step = "unlock" =>
       /\ DOMAIN op.entries \subseteq Pending
       /\ op.kind = "store" => op.code \in Pending
  /\ op.step \in {"truncate", "write"} =>
       (op.kind = "store" <=> op.code \in DOMAIN op.entries)
  /\ op.found =>
       op.kind = "pop" /\ redeemed[op.code] = 0 /\ (op.step = "unlock" => op.code \notin Pending)
  /\ Small(DOMAIN op.entries)
  /\ \A c \in DOMAIN op.entries : redeemed[c] = 0

Shaped == \A p \in CodeUsers : Operating(p) => OpShape(codeOps[p])

\* A code is stored by one thread and before it is issued, and redeemed after.
StoredOnce ==
  /\ \A p \in CodeUsers : Operating(p) => (codeOps[p].kind = "pop" <=> codeOps[p].code \in issued)
  /\ \A p, q \in CodeUsers :
       p # q /\ Operating(p) /\ Operating(q) /\ codeOps[p].kind = "store" =>
         codeOps[q].code # codeOps[p].code

Unredeemed ==
  /\ \A c \in Codes : redeemed[c] <= 1 /\ (redeemed[c] # 0 => c \in issued)
  /\ \A c \in Pending : redeemed[c] = 0

\* Where a code that was issued is.
InHand(c) == \E p \in CodeUsers : Operating(p) /\ (codeOps[p].code = c \/ c \in DOMAIN codeOps[p].entries)
Accounted == \A c \in issued : c \in dropped \cup Pending \/ redeemed[c] = 1 \/ InHand(c)

CodeInv == CodeTypes /\ OneHolder /\ Shaped /\ StoredOnce /\ Unredeemed /\ Accounted

-----------------------------------------------------------------------------
(* Entries and the sets of their codes. *)

LEMMA NoEntries == <<>> \in CodeEntries /\ DOMAIN <<>> = {} /\ Small({})
<1>1. <<>> \in [{} -> Nat] /\ DOMAIN <<>> = {}
  OBVIOUS
<1>2. {} \in SUBSET Codes
  OBVIOUS
<1> QED
  BY <1>1, <1>2, FS_EmptySet, CodesAssumption DEF CodeEntries, Small

LEMMA EntriesOn ==
  ASSUME NEW codes \in SUBSET Codes, NEW f, f \in [codes -> Nat]
  PROVE  f \in CodeEntries /\ DOMAIN f = codes
BY DEF CodeEntries

LEMMA EntriesDomain ==
  ASSUME NEW f \in CodeEntries
  PROVE  DOMAIN f \subseteq Codes /\ \A c \in DOMAIN f : f[c] \in Nat
BY DEF CodeEntries

LEMMA SmallSubset ==
  ASSUME NEW S, NEW U, Small(S), U \subseteq S
  PROVE  Small(U)
<1>1. IsFiniteSet(U) /\ Cardinality(U) <= Cardinality(S)
  BY FS_Subset DEF Small
<1>2. Cardinality(U) \in Nat /\ Cardinality(S) \in Nat
  BY <1>1, FS_CardinalityType DEF Small
<1> QED
  BY <1>1, <1>2, CodesAssumption DEF Small

\* With room made, one more entry fits.
LEMMA RoomForOne ==
  ASSUME NEW f, Small(DOMAIN f), NEW kept \in Roomy(f), NEW c
  PROVE  kept \subseteq DOMAIN f /\ Small(kept \cup {c})
<1>1. kept \subseteq DOMAIN f
  BY DEF Roomy
<1>2. IsFiniteSet(kept) /\ Cardinality(kept) \in Nat
  BY <1>1, SmallSubset, FS_CardinalityType DEF Small
<1>3. Cardinality(DOMAIN f) \in Nat
  BY FS_CardinalityType DEF Small
<1>4. Cardinality(kept) <= MaxPending - 1
  BY <1>2, <1>3, CodesAssumption DEF Roomy
<1>5. /\ IsFiniteSet(kept \cup {c})
      /\ Cardinality(kept \cup {c}) =
           IF c \in kept THEN Cardinality(kept) ELSE Cardinality(kept) + 1
  BY <1>2, FS_AddElement
<1> QED
  BY <1>1, <1>2, <1>4, <1>5, CodesAssumption DEF Small

-----------------------------------------------------------------------------
(* The invariant is inductive. *)

LEMMA InitCodes == CodesInit => CodeInv
<1> SUFFICES ASSUME CodesInit PROVE CodeInv
  OBVIOUS
<1>1. CodeTypes
  BY NoEntries, CodesAssumption DEF CodesInit, CodeTypes, Pending
<1>2. Pending = {} /\ \A p \in CodeUsers : ~Operating(p)
  BY NoEntries DEF CodesInit, Operating, Pending
<1>3. OneHolder /\ Shaped /\ StoredOnce /\ Unredeemed /\ Accounted
  BY <1>2 DEF CodesInit, OneHolder, Entered, Shaped, StoredOnce, Unredeemed, Accounted
<1> QED
  BY <1>1, <1>3 DEF CodeInv

\* Next to a thread past the lock every other one is still before it.
LEMMA OthersWait ==
  ASSUME CodeInv, NEW p \in CodeUsers, Entered(p), NEW q \in CodeUsers, q # p, Operating(q)
  PROVE  codeOps[q].step = "open" /\ DOMAIN codeOps[q].entries = {} /\ ~codeOps[q].found
BY DEF CodeInv, OneHolder, Entered, Shaped, OpShape

\* An operation before the lock depends on nothing.
LEMMA WaitingShape ==
  ASSUME NEW op, op.step = "open", DOMAIN op.entries = {}, op.found = FALSE
  PROVE  OpShape(op) /\ OpShape(op)'
BY NoEntries DEF OpShape

LEMMA BeginKeeps ==
  ASSUME CodeInv, NEW p \in CodeUsers, NEW c \in Codes, BeginStore(p, c) \/ BeginPop(p, c)
  PROVE  CodeInv'
<1>1. PICK kind \in {"store", "pop"} :
        /\ codeOps' = [codeOps EXCEPT ![p] = CodeOp(kind, c)]
        /\ kind = "pop" <=> c \in issued
        /\ kind = "store" => \A q \in CodeUsers : Operating(q) => codeOps[q].code # c
  BY DEF BeginStore, BeginPop, Operating
<1>2. codeOps[p] = AtRest /\ UNCHANGED <<codeClock, codeFile, codeLock, issued, redeemed, dropped>>
  BY DEF BeginStore, BeginPop
<1> DEFINE op == CodeOp(kind, c)
<1>3. /\ op \in CodeOpSet /\ op.kind = kind /\ op.code = c /\ op.step = "open"
      /\ DOMAIN op.entries = {} /\ op.found = FALSE
  BY NoEntries DEF CodeOp, CodeOpSet, CodeSteps
<1> HIDE DEF op
<1>4. /\ codeOps \in [CodeUsers -> {AtRest} \cup CodeOpSet]
      /\ \A q \in CodeUsers : codeOps'[q] = IF q = p THEN op ELSE codeOps[q]
  BY <1>1 DEF CodeInv, CodeTypes, op
<1>5. CodeTypes'
  BY <1>1, <1>2, <1>3 DEF CodeInv, CodeTypes, Pending, op
<1>6. OneHolder'
  BY <1>2, <1>3, <1>4 DEF CodeInv, OneHolder, Entered, Operating
<1>7. Shaped'
  <2> SUFFICES ASSUME NEW q \in CodeUsers, Operating(q)' PROVE OpShape(codeOps[q])'
    BY DEF Shaped
  <2>1. CASE q = p
    BY <1>3, <1>4, <2>1, WaitingShape
  <2>2. CASE q # p
    BY <1>2, <1>4, <2>2 DEF CodeInv, Shaped, Operating, OpShape, Pending
  <2> QED
    BY <2>1, <2>2
<1>8. StoredOnce'
  <2>1. \A q \in CodeUsers : q # p /\ Operating(q) /\ codeOps[q].kind = "store" => codeOps[q].code # c
    BY <1>1 DEF CodeInv, StoredOnce
  <2> QED
    BY <1>1, <1>2, <1>3, <1>4, <2>1 DEF CodeInv, StoredOnce, Operating
<1>9. Unredeemed' /\ Accounted'
  BY <1>2, <1>4 DEF CodeInv, Unredeemed, Accounted, InHand, Operating, Pending
<1> QED
  BY <1>5, <1>6, <1>7, <1>8, <1>9 DEF CodeInv

LEMMA LockKeeps ==
  ASSUME CodeInv, NEW p \in CodeUsers, LockFile(p)
  PROVE  CodeInv'
<1> DEFINE op == [codeOps[p] EXCEPT !.step = "load"]
<1>1. codeOps[p] \in CodeOpSet /\ Operating(p) /\ codeOps[p].step = "open"
  BY DEF CodeInv, CodeTypes, LockFile, Operating
<1>2. /\ op \in CodeOpSet /\ op.kind = codeOps[p].kind /\ op.code = codeOps[p].code
      /\ op.step = "load" /\ op.entries = codeOps[p].entries /\ op.found = codeOps[p].found
  BY <1>1 DEF CodeOpSet, CodeSteps
<1>3. /\ codeOps' = [codeOps EXCEPT ![p] = op] /\ codeLock = AtRest /\ codeLock' = p
      /\ UNCHANGED <<codeClock, codeFile, issued, redeemed, dropped>>
  BY DEF LockFile
<1> HIDE DEF op
<1>4. /\ \A q \in CodeUsers : codeOps'[q] = IF q = p THEN op ELSE codeOps[q]
      /\ \A q \in CodeUsers : Operating(q)' <=> Operating(q)
  BY <1>1, <1>2, <1>3, CodesAssumption DEF CodeInv, CodeTypes, Operating
<1>5. CodeTypes'
  BY <1>2, <1>3 DEF CodeInv, CodeTypes, Pending
<1>6. OneHolder'
  BY <1>3, <1>4, CodesAssumption DEF CodeInv, OneHolder, Entered
<1>7. Shaped'
  BY <1>1, <1>2, <1>3, <1>4 DEF CodeInv, Shaped, OpShape, Pending
<1>8. StoredOnce'
  BY <1>1, <1>2, <1>3, <1>4 DEF CodeInv, StoredOnce
<1>9. Unredeemed' /\ Accounted'
  BY <1>1, <1>2, <1>3, <1>4 DEF CodeInv, Unredeemed, Accounted, InHand, Pending
<1> QED
  BY <1>5, <1>6, <1>7, <1>8, <1>9 DEF CodeInv

\* A step of the thread that holds the lock, to another step of its operation,
\* that redeems nothing.
LEMMA HolderKeeps ==
  ASSUME CodeInv, NEW p \in CodeUsers, Entered(p), NEW op \in CodeOpSet,
         codeOps' = [codeOps EXCEPT ![p] = op],
         op.kind = codeOps[p].kind, op.code = codeOps[p].code, op.step # "open",
         UNCHANGED <<codeClock, codeLock, issued, redeemed>>,
         codeFile' \in CodeEntries, Small(Pending'),
         \A c \in Pending' : redeemed[c] = 0,
         OpShape(op)',
         \A c \in issued : c \in dropped \cup Pending \cup DOMAIN codeOps[p].entries =>
           c \in dropped' \cup Pending' \cup DOMAIN op.entries \cup {op.code}
  PROVE  CodeInv'
<1>1. /\ \A q \in CodeUsers : codeOps'[q] = IF q = p THEN op ELSE codeOps[q]
      /\ \A q \in CodeUsers : Operating(q)' <=> Operating(q)
  BY CodesAssumption DEF CodeInv, CodeTypes, Operating, Entered
<1>2. CodeTypes'
  BY DEF CodeInv, CodeTypes
<1>3. OneHolder'
  BY <1>1 DEF CodeInv, OneHolder, Entered
<1>4. Shaped'
  <2> SUFFICES ASSUME NEW q \in CodeUsers, Operating(q), q # p PROVE OpShape(codeOps[q])'
    BY <1>1 DEF Shaped
  <2>1. codeOps[q].step = "open" /\ DOMAIN codeOps[q].entries = {} /\ ~codeOps[q].found
    BY OthersWait
  <2>2. codeOps[q].found = FALSE /\ codeOps'[q] = codeOps[q]
    BY <1>1, <2>1 DEF CodeInv, CodeTypes, CodeOpSet, Operating
  <2> QED
    BY <2>1, <2>2, WaitingShape
<1>5. StoredOnce'
  BY <1>1 DEF CodeInv, StoredOnce, Entered
<1>6. Unredeemed'
  BY DEF CodeInv, Unredeemed
<1>7. Accounted'
  BY <1>1 DEF CodeInv, Accounted, InHand, Entered
<1> QED
  BY <1>2, <1>3, <1>4, <1>5, <1>6, <1>7 DEF CodeInv

LEMMA StoreKeeps ==
  ASSUME CodeInv, NEW p \in CodeUsers, LoadForStore(p)
  PROVE  CodeInv'
<1> DEFINE fresh == Keep(codeFile, Fresh(codeFile))
           code == codeOps[p].code
<1>1. /\ codeOps[p] \in CodeOpSet /\ Entered(p) /\ codeOps[p].kind = "store"
      /\ codeOps[p].step = "load"
  BY DEF CodeInv, CodeTypes, LoadForStore, AtStep, Operating, Entered
<1>2. PICK kept \in Roomy(fresh) :
        codeOps' = [codeOps EXCEPT ![p] = [@ EXCEPT !.step = "truncate",
          !.entries = [c \in kept \cup {code} |->
             IF c = code THEN codeClock + CodeTTL ELSE codeFile[c]]]]
  BY DEF LoadForStore
<1> DEFINE added == [c \in kept \cup {code} |-> IF c = code THEN codeClock + CodeTTL ELSE codeFile[c]]
           stored == [codeOps[p] EXCEPT !.step = "truncate", !.entries = added]
<1>3. DOMAIN fresh \subseteq Pending
  BY DEF Keep, Fresh, Pending
<1>4. kept \subseteq Pending /\ Small(kept \cup {code})
  BY <1>3, SmallSubset, RoomForOne DEF CodeInv, CodeTypes
<1>5. Pending \subseteq Codes /\ code \in Codes /\ \A c \in Pending : codeFile[c] \in Nat
  BY <1>1, EntriesDomain DEF CodeInv, CodeTypes, CodeOpSet, Pending
<1>6. added \in CodeEntries /\ DOMAIN added = kept \cup {code}
  <2>1. added \in [kept \cup {code} -> Nat]
    BY <1>4, <1>5, CodesAssumption DEF CodeInv, CodeTypes
  <2> HIDE DEF added
  <2> QED
    BY <1>4, <1>5, <2>1, EntriesOn
<1> HIDE DEF added
<1>7. PICK op : op = stored
  OBVIOUS
<1>7a. /\ op \in CodeOpSet
       /\ op.kind = "store" /\ op.code = code /\ op.step = "truncate"
       /\ DOMAIN op.entries = kept \cup {code} /\ op.found = codeOps[p].found
  BY <1>1, <1>6, <1>7 DEF CodeOpSet, CodeSteps
<1>8. codeOps' = [codeOps EXCEPT ![p] = op] /\ UNCHANGED <<codeClock, codeFile, codeLock, issued, redeemed, dropped>>
  BY <1>2, <1>7 DEF LoadForStore, added
<1>9. redeemed[code] = 0 /\ ~codeOps[p].found /\ DOMAIN codeOps[p].entries = {}
  BY <1>1, <1>5 DEF CodeInv, StoredOnce, Unredeemed, Shaped, OpShape, Entered
<1>10. OpShape(op)'
  BY <1>4, <1>7a, <1>8, <1>9 DEF CodeInv, Unredeemed, OpShape, Pending
<1> QED
  BY <1>1, <1>7a, <1>8, <1>9, <1>10, HolderKeeps DEF CodeInv, CodeTypes, Unredeemed, Pending

LEMMA PopKeeps ==
  ASSUME CodeInv, NEW p \in CodeUsers, LoadForPop(p)
  PROVE  CodeInv'
<1> DEFINE code == codeOps[p].code
<1>1. /\ codeOps[p] \in CodeOpSet /\ Entered(p) /\ codeOps[p].kind = "pop"
      /\ codeOps[p].step = "load"
  BY DEF CodeInv, CodeTypes, LoadForPop, AtStep, Operating, Entered
<1>2. UNCHANGED <<codeClock, codeFile, codeLock, issued, redeemed, dropped>>
  BY DEF LoadForPop
<1>3. ~codeOps[p].found /\ DOMAIN codeOps[p].entries = {}
  BY <1>1 DEF CodeInv, Shaped, OpShape, Entered
<1>4. CASE Pending = {}
  <2>0. PICK op : op = [codeOps[p] EXCEPT !.step = "unlock"]
    OBVIOUS
  <2>1. /\ op \in CodeOpSet
        /\ op.kind = "pop" /\ op.code = code /\ op.step = "unlock"
        /\ op.entries = codeOps[p].entries /\ op.found = codeOps[p].found
    BY <1>1, <2>0 DEF CodeOpSet, CodeSteps
  <2>2. codeOps' = [codeOps EXCEPT ![p] = op]
    BY <1>4, <2>0 DEF LoadForPop
  <2>3. OpShape(op)'
    BY <1>2, <1>3, <2>1, NoEntries DEF OpShape
  <2> QED
    BY <1>1, <1>2, <1>3, <2>1, <2>2, <2>3, HolderKeeps DEF CodeInv, CodeTypes, Unredeemed, Pending
<1>5. CASE Pending # {}
  <2> DEFINE kept == Keep(codeFile, Fresh(codeFile) \ {code})
             popped == [codeOps[p] EXCEPT !.step = "truncate",
                          !.found = code \in Fresh(codeFile), !.entries = kept]
  <2>1. Pending \subseteq Codes /\ \A c \in Pending : codeFile[c] \in Nat
    BY EntriesDomain DEF CodeInv, CodeTypes, Pending
  <2>2. Fresh(codeFile) \subseteq Pending
    BY DEF Fresh, Pending
  <2>3. kept \in CodeEntries /\ DOMAIN kept = Fresh(codeFile) \ {code}
    <3>1. kept \in [Fresh(codeFile) \ {code} -> Nat]
      BY <2>1, <2>2 DEF Keep
    <3> HIDE DEF kept
    <3> QED
      BY <2>1, <2>2, <3>1, EntriesOn
  <2>4. codeOps' = [codeOps EXCEPT ![p] = popped]
    BY <1>5 DEF LoadForPop
  <2> HIDE DEF kept
  <2>5. (code \in Fresh(codeFile)) \in BOOLEAN
    OBVIOUS
  <2>6. PICK op : op = popped
    OBVIOUS
  <2>6a. /\ op \in CodeOpSet
         /\ op.kind = "pop" /\ op.code = code /\ op.step = "truncate"
         /\ DOMAIN op.entries = Fresh(codeFile) \ {code}
         /\ op.found = (code \in Fresh(codeFile))
    BY <1>1, <2>3, <2>5, <2>6 DEF CodeOpSet, CodeSteps
  <2>7. Small(DOMAIN op.entries)
    BY <2>2, <2>6a, SmallSubset DEF CodeInv, CodeTypes
  <2>8. OpShape(op)'
    BY <1>2, <2>2, <2>6a, <2>7 DEF CodeInv, Unredeemed, OpShape, Pending
  <2> QED
    BY <1>1, <1>2, <1>3, <2>4, <2>6, <2>6a, <2>8, HolderKeeps DEF CodeInv, CodeTypes, Unredeemed, Pending
<1> QED
  BY <1>4, <1>5

LEMMA TruncateKeeps ==
  ASSUME CodeInv, NEW p \in CodeUsers, TruncateFile(p)
  PROVE  CodeInv'
<1>1. codeOps[p] \in CodeOpSet /\ Entered(p) /\ codeOps[p].step = "truncate"
  BY DEF CodeInv, CodeTypes, TruncateFile, Operating, Entered
<1>0. PICK op : op = [codeOps[p] EXCEPT !.step = "write"]
  OBVIOUS
<1>2. /\ op \in CodeOpSet
      /\ op.kind = codeOps[p].kind /\ op.code = codeOps[p].code /\ op.step = "write"
      /\ op.entries = codeOps[p].entries /\ op.found = codeOps[p].found
  BY <1>0, <1>1 DEF CodeOpSet, CodeSteps
<1>3. /\ codeOps' = [codeOps EXCEPT ![p] = op] /\ codeFile' = <<>>
      /\ dropped' = dropped \cup (Pending \ (DOMAIN codeOps[p].entries \cup {codeOps[p].code}))
      /\ UNCHANGED <<codeClock, codeLock, issued, redeemed>>
  BY <1>0 DEF TruncateFile
<1>4. Pending' = {} /\ codeFile' \in CodeEntries /\ Small(Pending')
  BY <1>3, NoEntries DEF Pending
<1>5. OpShape(codeOps[p])
  BY <1>1 DEF CodeInv, Shaped, Entered
<1>6. OpShape(op)'
  BY <1>1, <1>2, <1>3, <1>4, <1>5 DEF OpShape
<1> QED
  BY <1>1, <1>2, <1>3, <1>4, <1>6, HolderKeeps

LEMMA WriteKeeps ==
  ASSUME CodeInv, NEW p \in CodeUsers, WriteFile(p)
  PROVE  CodeInv'
<1>1. codeOps[p] \in CodeOpSet /\ Entered(p) /\ codeOps[p].step = "write"
  BY DEF CodeInv, CodeTypes, WriteFile, Operating, Entered
<1>0. PICK op : op = [codeOps[p] EXCEPT !.step = "unlock"]
  OBVIOUS
<1>2. /\ op \in CodeOpSet
      /\ op.kind = codeOps[p].kind /\ op.code = codeOps[p].code /\ op.step = "unlock"
      /\ op.entries = codeOps[p].entries /\ op.found = codeOps[p].found
  BY <1>0, <1>1 DEF CodeOpSet, CodeSteps
<1>3. /\ codeOps' = [codeOps EXCEPT ![p] = op] /\ codeFile' = op.entries
      /\ UNCHANGED <<codeClock, codeLock, issued, redeemed, dropped>>
  BY <1>0, <1>2 DEF WriteFile
<1>4. OpShape(codeOps[p])
  BY <1>1 DEF CodeInv, Shaped, Entered
<1>5. Pending' = DOMAIN op.entries /\ op.entries \in CodeEntries /\ Pending = {}
  BY <1>1, <1>2, <1>3, <1>4 DEF Pending, CodeOpSet, OpShape
<1>6. codeFile' \in CodeEntries /\ Small(Pending') /\ \A c \in Pending' : redeemed[c] = 0
  BY <1>2, <1>3, <1>4, <1>5 DEF OpShape
<1>7. codeOps[p].kind \in {"store", "pop"}
  BY <1>1 DEF CodeOpSet
<1>8. OpShape(op)'
  BY <1>1, <1>2, <1>3, <1>4, <1>5, <1>7 DEF OpShape
<1> QED
  BY <1>1, <1>2, <1>3, <1>5, <1>6, <1>8, HolderKeeps

\* The end of an operation: the others are before the lock, or have none.
LEMMA UnlockKeeps ==
  ASSUME CodeInv, NEW p \in CodeUsers, UnlockFile(p)
  PROVE  CodeInv'
<1> DEFINE op == codeOps[p]
<1>1. op \in CodeOpSet /\ Entered(p) /\ Operating(p) /\ op.step = "unlock" /\ OpShape(op)
  BY DEF CodeInv, CodeTypes, UnlockFile, Operating, Entered, Shaped
<1>2. /\ codeOps' = [codeOps EXCEPT ![p] = AtRest] /\ codeLock' = AtRest
      /\ issued' = IF op.kind = "store" THEN issued \cup {op.code} ELSE issued
      /\ redeemed' = IF op.found THEN [redeemed EXCEPT ![op.code] = @ + 1] ELSE redeemed
      /\ dropped' = IF op.kind = "pop" /\ ~op.found THEN dropped \cup {op.code} ELSE dropped
      /\ UNCHANGED <<codeClock, codeFile>>
  BY DEF UnlockFile
<1>3. op.kind \in {"store", "pop"} /\ op.code \in Codes /\ Pending' = Pending
  BY <1>1, <1>2 DEF CodeOpSet, Pending
<1>4. \A q \in CodeUsers : codeOps'[q] = IF q = p THEN AtRest ELSE codeOps[q]
  BY <1>2 DEF CodeInv, CodeTypes
<1>5. ASSUME NEW q \in CodeUsers, Operating(q)'
      PROVE  /\ q # p /\ Operating(q) /\ codeOps'[q] = codeOps[q]
             /\ codeOps[q].step = "open" /\ DOMAIN codeOps[q].entries = {}
             /\ codeOps[q].found = FALSE
  <2>1. q # p /\ Operating(q) /\ codeOps'[q] = codeOps[q]
    BY <1>4, <1>5 DEF Operating
  <2>2. codeOps[q].found \in BOOLEAN
    BY <2>1 DEF CodeInv, CodeTypes, CodeOpSet, Operating
  <2> QED
    BY <1>1, <2>1, <2>2, OthersWait
<1>6. CodeTypes'
  BY <1>2, <1>3 DEF CodeInv, CodeTypes
<1>7. OneHolder'
  BY <1>5 DEF OneHolder, Entered
<1>8. Shaped'
  BY <1>5, WaitingShape DEF Shaped
<1>9. StoredOnce'
  <2>1. \A q \in CodeUsers : Operating(q)' => (codeOps[q].code \in issued' <=> codeOps[q].code \in issued)
    BY <1>1, <1>2, <1>5 DEF CodeInv, StoredOnce
  <2>2. ASSUME NEW q \in CodeUsers, Operating(q)'
        PROVE  codeOps'[q].kind = "pop" <=> codeOps'[q].code \in issued'
    <3>1. Operating(q) /\ codeOps'[q] = codeOps[q]
      BY <1>5, <2>2
    <3>2. codeOps[q].kind = "pop" <=> codeOps[q].code \in issued
      BY <3>1 DEF CodeInv, StoredOnce
    <3>3. codeOps[q].code \in issued' <=> codeOps[q].code \in issued
      BY <2>1, <2>2
    <3> QED
      BY <3>1, <3>2, <3>3
  <2>3. ASSUME NEW q \in CodeUsers, NEW r \in CodeUsers, q # r, Operating(q)',
               Operating(r)', codeOps'[q].kind = "store"
        PROVE  codeOps'[r].code # codeOps'[q].code
    <3>1. /\ Operating(q) /\ codeOps'[q] = codeOps[q]
          /\ Operating(r) /\ codeOps'[r] = codeOps[r]
      BY <1>5, <2>3
    <3> QED
      BY <2>3, <3>1 DEF CodeInv, StoredOnce
  <2> QED
    BY <2>2, <2>3 DEF StoredOnce
<1>10. redeemed'[op.code] = IF op.found THEN 1 ELSE redeemed[op.code]
  BY <1>1, <1>2, <1>3 DEF OpShape, CodeInv, CodeTypes
<1>11. \A c \in Codes \ {op.code} : redeemed'[c] = redeemed[c]
  BY <1>2 DEF CodeInv, CodeTypes
<1>12. op.found => op.code \notin Pending /\ op.code \in issued
  BY <1>1 DEF CodeInv, StoredOnce, OpShape
<1>13. Pending \subseteq Codes
  BY EntriesDomain DEF CodeInv, CodeTypes, Pending
<1>14. Unredeemed'
  <2>1. \A c \in Codes : redeemed'[c] <= 1 /\ (redeemed'[c] # 0 => c \in issued')
    BY <1>2, <1>10, <1>11, <1>12 DEF CodeInv, Unredeemed
  <2>2. \A c \in Pending : redeemed'[c] = 0
    BY <1>10, <1>11, <1>12, <1>13 DEF CodeInv, Unredeemed
  <2> QED
    BY <1>3, <2>1, <2>2 DEF Unredeemed
<1>15. Accounted'
  <2> SUFFICES ASSUME NEW c \in issued' PROVE c \in dropped' \cup Pending \/ redeemed'[c] = 1 \/ InHand(c)'
    BY <1>3 DEF Accounted
  <2>1. CASE c = op.code
    BY <1>1, <1>2, <1>3, <1>10, <2>1 DEF OpShape
  <2>2. CASE c # op.code
    <3>1. c \in issued /\ c \in Codes /\ redeemed'[c] = redeemed[c] /\ dropped \subseteq dropped'
      BY <1>2, <1>11, <2>2 DEF CodeInv, CodeTypes
    <3>2. ASSUME InHand(c) PROVE InHand(c)' \/ c \in Pending
      <4>1. PICK q \in CodeUsers : Operating(q) /\ (codeOps[q].code = c \/ c \in DOMAIN codeOps[q].entries)
        BY <3>2 DEF InHand
      <4>2. CASE q = p
        BY <1>1, <2>2, <4>1, <4>2 DEF OpShape
      <4>3. CASE q # p
        BY <1>4, <4>1, <4>3 DEF InHand, Operating
      <4> QED
        BY <4>2, <4>3
    <3> QED
      BY <3>1, <3>2 DEF CodeInv, Accounted
  <2> QED
    BY <2>1, <2>2
<1> QED
  BY <1>6, <1>7, <1>8, <1>9, <1>14, <1>15 DEF CodeInv

\* A death is an operation that ends where it is.
LEMMA DieKeeps ==
  ASSUME CodeInv, NEW p \in CodeUsers, DieInStore(p)
  PROVE  CodeInv'
<1> DEFINE op == codeOps[p]
<1>1. op \in CodeOpSet /\ Operating(p) /\ OpShape(op)
  BY DEF CodeInv, CodeTypes, DieInStore, Operating, Shaped
<1>2. /\ codeOps' = [codeOps EXCEPT ![p] = AtRest]
      /\ codeLock' = IF codeLock = p THEN AtRest ELSE codeLock
      /\ dropped' = dropped \cup {op.code} \cup (IF op.step = "write" THEN DOMAIN op.entries ELSE {})
      /\ UNCHANGED <<codeClock, codeFile, issued, redeemed>>
  BY DEF DieInStore
<1>3. \A q \in CodeUsers : codeOps'[q] = IF q = p THEN AtRest ELSE codeOps[q]
  BY <1>2 DEF CodeInv, CodeTypes
<1>4. \A q \in CodeUsers : Operating(q)' => q # p /\ Operating(q) /\ codeOps'[q] = codeOps[q]
  BY <1>3 DEF Operating
<1>5. CodeTypes'
  BY <1>2 DEF CodeInv, CodeTypes, Pending
<1>6. OneHolder'
  BY <1>2, <1>4 DEF CodeInv, OneHolder, Entered
<1>7. Shaped'
  BY <1>2, <1>4 DEF CodeInv, Shaped, OpShape, Pending
<1>8. StoredOnce' /\ Unredeemed'
  BY <1>2, <1>4 DEF CodeInv, StoredOnce, Unredeemed, Pending
<1>9. op.step \in CodeSteps
  BY <1>1 DEF CodeOpSet
<1>10. DOMAIN op.entries \subseteq dropped' \cup Pending
  BY <1>1, <1>2, <1>9 DEF OpShape, CodeSteps
<1>11. Accounted'
  <2> SUFFICES ASSUME NEW c \in issued, InHand(c)
               PROVE  c \in dropped' \cup Pending \/ InHand(c)'
    BY <1>2 DEF CodeInv, Accounted, Pending
  <2>1. PICK q \in CodeUsers : Operating(q) /\ (codeOps[q].code = c \/ c \in DOMAIN codeOps[q].entries)
    BY DEF InHand
  <2>2. CASE q = p
    BY <1>2, <1>10, <2>1, <2>2
  <2>3. CASE q # p
    BY <1>3, <2>1, <2>3 DEF InHand, Operating
  <2> QED
    BY <2>2, <2>3
<1> QED
  BY <1>5, <1>6, <1>7, <1>8, <1>11 DEF CodeInv

LEMMA StepCodes == CodeInv /\ [CodesNext]_codeVars => CodeInv'
<1> SUFFICES ASSUME CodeInv, [CodesNext]_codeVars PROVE CodeInv'
  OBVIOUS
<1>1. ASSUME UNCHANGED <<codeFile, codeLock, codeOps, issued, redeemed, dropped>>,
             codeClock' \in Nat
      PROVE  CodeInv'
  BY <1>1 DEF CodeInv, CodeTypes, Pending, OneHolder, Entered, Operating, Shaped, OpShape,
              StoredOnce, Unredeemed, Accounted, InHand
<1>2. CASE CodesElapse
  BY <1>1, <1>2 DEF CodesElapse, CodeInv, CodeTypes
<1>3. CASE UNCHANGED codeVars
  BY <1>1, <1>3 DEF codeVars, CodeInv, CodeTypes
<1> QED
  BY <1>2, <1>3, BeginKeeps, LockKeeps, StoreKeeps, PopKeeps, TruncateKeeps, WriteKeeps,
     UnlockKeeps, DieKeeps DEF CodesNext

-----------------------------------------------------------------------------
\* The file never holds more than MaxPending codes, and everything has its type
\* (CodesTypeOK), whoever writes it and whatever was cut short by a death.
THEOREM CodesTypeCorrect == CodesSpec => []CodesTypeOK
<1>1. CodeInv => CodesTypeOK
  BY EntriesDomain DEF CodeInv, CodeTypes, Small, CodesTypeOK, Pending
<1> QED
  BY <1>1, InitCodes, StepCodes, PTL DEF CodesSpec

\* A code is accepted once at most, and one that was handed out is not lost but by
\* expiry, eviction or a death (CodeRedeemedOnce): what the exclusive lock around
\* _store_entry and _pop_entry is for.
THEOREM CodesRedeemedOnce == CodesSpec => []CodeRedeemedOnce
<1>1. CodeInv => CodeRedeemedOnce
  BY DEF CodeInv, Unredeemed, Accounted, InHand, Operating, CodeRedeemedOnce
<1> QED
  BY <1>1, InitCodes, StepCodes, PTL DEF CodesSpec

================================================================================

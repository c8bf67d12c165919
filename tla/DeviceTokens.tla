----------------------------- MODULE DeviceTokens -----------------------------
(* The credentials of one user (auth/tokens.py, auth/routes.py): the token     *)
(* pair of each installed machine, rotated by every approved CLI login, and    *)
(* the browser session, of which a new login retires the old one.              *)
(*                                                                             *)
(* Endpoints run in threads and commit one transaction after the other. A      *)
(* transaction on SQLite begins with its first write, so what it selected      *)
(* before may be stale when it commits; PostgreSQL locks the device's row.     *)
EXTENDS Naturals, FiniteSets

CONSTANTS
  Machines,       \* installation keys
  AuthThreads,    \* threads of the API server
  NoAuth,         \* a thread without a request
  RowLocks,       \* TRUE: FOR UPDATE locks the row (PostgreSQL)
  MaxTokens       \* bound on the tokens minted, for model checking

ASSUME AuthAssumption == RowLocks \in BOOLEAN /\ MaxTokens \in Nat

VARIABLES
  devices,        \* devices by installation: none, active or revoked
  pairs,          \* live cli and ingest tokens of each machine
  browsers,       \* live web tokens
  minted,         \* how many tokens were minted
  auth,           \* what each thread is doing
  crossed,        \* ghost: machines revoked while a login had loaded them active
  together        \* ghost: the last browser login overlapped another one

authVars == <<devices, pairs, browsers, minted, auth, crossed, together>>

Kinds == {"cli", "ingest"}

AuthTypeOK ==
  /\ devices \in [Machines -> {"none", "active", "revoked"}]
  /\ \A m \in Machines : pairs[m] \subseteq Kinds \X (1 .. MaxTokens)
  /\ browsers \subseteq 1 .. MaxTokens
  /\ minted \in 0 .. MaxTokens
  /\ crossed \subseteq Machines /\ together \in BOOLEAN

AuthInit ==
  /\ devices = [m \in Machines |-> "none"]
  /\ pairs = [m \in Machines |-> {}]
  /\ browsers = {} /\ minted = 0
  /\ auth = [a \in AuthThreads |-> NoAuth]
  /\ crossed = {} /\ together = FALSE

Doing(a, step) == auth[a] # NoAuth /\ auth[a].step = step
Locked(m) ==
  RowLocks /\ \E a \in AuthThreads :
    Doing(a, "rotate") /\ auth[a].machine = m /\ auth[a].saw # "none"

(* ---- machines --------------------------------------------------------------- *)

\* A redeemed code: mint_device_tokens selects the device.
LoadDevice(a, m) ==
  /\ auth[a] = NoAuth /\ ~Locked(m)
  /\ auth' = [auth EXCEPT ![a] = [step |-> "rotate", machine |-> m, saw |-> devices[m]]]
  /\ UNCHANGED <<devices, pairs, browsers, minted, crossed, together>>

\* Two first logins race at the unique index: the loser starts over.
RetryRotation(a) ==
  /\ Doing(a, "rotate") /\ auth[a].saw = "none"
  /\ devices[auth[a].machine] # "none" /\ ~Locked(auth[a].machine)
  /\ auth' = [auth EXCEPT ![a].saw = devices[auth[a].machine]]
  /\ UNCHANGED <<devices, pairs, browsers, minted, crossed, together>>

\* Mutant: only the tokens the device was loaded with are revoked.
RotatePairOnce(a) ==
  LET m == auth[a].machine
  IN  /\ Doing(a, "rotate") /\ minted < MaxTokens
      /\ auth[a].saw = "none" => devices[m] = "none"
      /\ minted' = minted + 1
      /\ pairs' = [pairs EXCEPT ![m] =
           (IF auth[a].saw = "active" THEN {} ELSE @) \cup Kinds \X {minted + 1}]
      /\ devices' = [devices EXCEPT ![m] = IF auth[a].saw = "active" THEN @ ELSE "active"]
      /\ crossed' = IF auth[a].saw = "active" THEN crossed ELSE crossed \ {m}
      /\ auth' = [auth EXCEPT ![a] = NoAuth]
      /\ UNCHANGED <<browsers, together>>

\* One transaction: the device is inserted or, where it was loaded revoked,
\* restored (an attribute that keeps its loaded value is not written); its live
\* tokens are revoked as they are now, and a new pair is added.
RotatePair(a) ==
  LET m == auth[a].machine
  IN  /\ Doing(a, "rotate") /\ minted < MaxTokens
      /\ auth[a].saw = "none" => devices[m] = "none"
      /\ minted' = minted + 1
      /\ pairs' = [pairs EXCEPT ![m] = Kinds \X {minted + 1}]
      /\ devices' = [devices EXCEPT ![m] = IF auth[a].saw = "active" THEN @ ELSE "active"]
      /\ crossed' = IF auth[a].saw = "active" THEN crossed ELSE crossed \ {m}
      /\ auth' = [auth EXCEPT ![a] = NoAuth]
      /\ UNCHANGED <<browsers, together>>

\* revoke_device: the machine and its tokens in one transaction.
RevokeDevice(m) ==
  /\ devices[m] = "active" /\ ~Locked(m)
  /\ devices' = [devices EXCEPT ![m] = "revoked"]
  /\ pairs' = [pairs EXCEPT ![m] = {}]
  /\ crossed' = IF \E a \in AuthThreads : Doing(a, "rotate") /\ auth[a].machine = m
                     /\ auth[a].saw = "active"
                  THEN crossed \cup {m} ELSE crossed
  /\ UNCHANGED <<browsers, minted, auth, together>>

\* `tokenage logout`: revoke_token of the token that authenticated the request.
RevokePairToken(m, token) ==
  /\ token \in pairs[m]
  /\ pairs' = [pairs EXCEPT ![m] = @ \ {token}]
  /\ UNCHANGED <<devices, browsers, minted, auth, crossed, together>>

(* ---- browser sessions --------------------------------------------------------- *)

LocalLogins == {a \in AuthThreads : Doing(a, "retire")}

\* auth_local_login after its code: list_user_tokens.
ListBrowsers(a) ==
  /\ auth[a] = NoAuth
  /\ auth' = [auth EXCEPT ![a] = [step |-> "retire", stale |-> browsers, met |-> FALSE]]
  /\ UNCHANGED <<devices, pairs, browsers, minted, crossed, together>>

RetireBrowser(a, token) ==
  /\ Doing(a, "retire") /\ token \in auth[a].stale
  /\ browsers' = browsers \ {token}
  /\ auth' = [auth EXCEPT ![a].stale = @ \ {token}]
  /\ UNCHANGED <<devices, pairs, minted, crossed, together>>

\* Mutant: the new session is minted before the old ones are retired.
MintBrowserFirst(a) ==
  /\ Doing(a, "retire") /\ minted < MaxTokens
  /\ minted' = minted + 1
  /\ browsers' = browsers \cup {minted + 1}
  /\ together' = auth[a].met
  /\ auth' = [b \in AuthThreads |->
       IF b = a THEN NoAuth
       ELSE IF b \in LocalLogins THEN [auth[b] EXCEPT !.met = TRUE] ELSE auth[b]]
  /\ UNCHANGED <<devices, pairs, crossed>>

MintBrowser(a) ==
  /\ Doing(a, "retire") /\ auth[a].stale = {} /\ minted < MaxTokens
  /\ minted' = minted + 1
  /\ browsers' = browsers \cup {minted + 1}
  /\ together' = auth[a].met
  /\ auth' = [b \in AuthThreads |->
       IF b = a THEN NoAuth
       ELSE IF b \in LocalLogins THEN [auth[b] EXCEPT !.met = TRUE] ELSE auth[b]]
  /\ UNCHANGED <<devices, pairs, crossed>>

\* A failure between the retirements leaves the user without the new session.
FailLogin(a) ==
  /\ auth[a] # NoAuth
  /\ auth' = [auth EXCEPT ![a] = NoAuth]
  /\ UNCHANGED <<devices, pairs, browsers, minted, crossed, together>>

Logout(token) ==
  /\ token \in browsers
  /\ browsers' = browsers \ {token}
  /\ UNCHANGED <<devices, pairs, minted, auth, crossed, together>>

AuthNext ==
  \/ \E a \in AuthThreads :
       \/ \E m \in Machines : LoadDevice(a, m)
       \/ RetryRotation(a) \/ RotatePair(a)
       \/ ListBrowsers(a) \/ MintBrowser(a) \/ FailLogin(a)
       \/ \E token \in 1 .. MaxTokens : RetireBrowser(a, token)
  \/ \E m \in Machines :
       \/ RevokeDevice(m)
       \/ \E token \in pairs[m] : RevokePairToken(m, token)
  \/ \E token \in browsers : Logout(token)

AuthSpec == AuthInit /\ [][AuthNext]_authVars

(* ---- properties ------------------------------------------------------------------ *)

\* A machine has at most one live token of each kind however its logins overlap,
\* none before it has a device, and none once it is revoked, unless the revocation
\* came between the lookup and the commit of a login on a database that does not
\* lock the row (mint_device_tokens, revoke_device).
DeviceCredentials ==
  \A m \in Machines :
    /\ \A kind \in Kinds : Cardinality({t \in pairs[m] : t[1] = kind}) <= 1
    /\ devices[m] # "active" /\ (RowLocks \/ m \notin crossed) => pairs[m] = {}

\* A user has one browser session, unless the last login overlapped another one
\* between its listing and its own mint; the next login alone restores it
\* (_retire_web_sessions, mint_token).
OneLiveBrowser == ~together => Cardinality(browsers) <= 1

===============================================================================

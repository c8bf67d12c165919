----------------------------- MODULE OneTimeCodes -----------------------------
(* The one-time stores of auth/google.py: OAuth states, CLI login codes and    *)
(* browser login codes. Each is a JSON file that several processes (the API    *)
(* server and `tokenage server login-link`) rewrite under flock. A process may *)
(* die at any step: the lock goes with it, what it had truncated does not come *)
(* back.                                                                       *)
EXTENDS Naturals, FiniteSets

CONSTANTS
  Codes,          \* states and codes, each drawn once
  CodeUsers,      \* threads and processes that use the store
  AtRest,         \* a thread outside the store
  MaxPending,     \* MAX_PENDING_STATES
  CodeTTL,        \* STATE_TTL_SECONDS and CLI_CODE_TTL_SECONDS
  MaxCodeTime     \* bound on the clock, for model checking

CodeSteps == {"open", "load", "truncate", "write", "unlock"}
CodeEntries == UNION {[codes -> Nat] : codes \in SUBSET Codes}
CodeOpSet == [kind : {"store", "pop"}, code : Codes, step : CodeSteps,
              entries : CodeEntries, found : BOOLEAN]

ASSUME CodesAssumption ==
  /\ MaxPending \in Nat \ {0} /\ CodeTTL \in Nat
  /\ AtRest \notin CodeUsers \cup CodeOpSet

VARIABLES
  codeClock,      \* time.time()
  codeFile,       \* the entries in the file: code -> expiry
  codeLock,       \* who holds the flock
  codeOps,        \* what each thread is doing
  issued,         \* ghost: codes handed out
  redeemed,       \* ghost: how often each code was accepted
  dropped         \* ghost: codes expired, evicted or lost with a process

codeVars == <<codeClock, codeFile, codeLock, codeOps, issued, redeemed, dropped>>

Pending == DOMAIN codeFile
CodeOp(kind, code) ==
  [kind |-> kind, code |-> code, step |-> "open", entries |-> <<>>, found |-> FALSE]

CodesInit ==
  /\ codeClock = 0 /\ codeFile = <<>> /\ codeLock = AtRest
  /\ codeOps = [p \in CodeUsers |-> AtRest]
  /\ issued = {} /\ redeemed = [c \in Codes |-> 0] /\ dropped = {}

Keep(entries, codes) == [c \in codes |-> entries[c]]
Fresh(entries) == {c \in DOMAIN entries : entries[c] > codeClock}

\* Mutant: room is made only once there are too many.
RoomyLate(entries) ==
  IF Cardinality(DOMAIN entries) <= MaxPending THEN {DOMAIN entries}
  ELSE {kept \in SUBSET DOMAIN entries :
          /\ Cardinality(kept) = MaxPending - 1
          /\ \A c \in kept : \A d \in DOMAIN entries \ kept : entries[d] <= entries[c]}

\* Room for one more: with too many entries the ones that expire first go.
Roomy(entries) ==
  IF Cardinality(DOMAIN entries) < MaxPending THEN {DOMAIN entries}
  ELSE {kept \in SUBSET DOMAIN entries :
          /\ Cardinality(kept) = MaxPending - 1
          /\ \A c \in kept : \A d \in DOMAIN entries \ kept : entries[d] <= entries[c]}

AtStep(p, kind, step) ==
  codeOps[p] # AtRest /\ codeOps[p].kind = kind /\ codeOps[p].step = step

BeginStore(p, code) ==
  /\ codeOps[p] = AtRest /\ code \notin issued
  /\ \A q \in CodeUsers : codeOps[q] # AtRest => codeOps[q].code # code
  /\ codeOps' = [codeOps EXCEPT ![p] = CodeOp("store", code)]
  /\ UNCHANGED <<codeClock, codeFile, codeLock, issued, redeemed, dropped>>

\* A code is offered for redemption as often as its owner likes.
BeginPop(p, code) ==
  /\ codeOps[p] = AtRest /\ code \in issued
  /\ codeOps' = [codeOps EXCEPT ![p] = CodeOp("pop", code)]
  /\ UNCHANGED <<codeClock, codeFile, codeLock, issued, redeemed, dropped>>

\* Mutant: the lock is not exclusive.
LockFileShared(p) ==
  /\ codeOps[p] # AtRest /\ codeOps[p].step = "open"
  /\ codeLock' = p
  /\ codeOps' = [codeOps EXCEPT ![p] = [@ EXCEPT !.step = "load"]]
  /\ UNCHANGED <<codeClock, codeFile, issued, redeemed, dropped>>

LockFile(p) ==
  /\ codeOps[p] # AtRest /\ codeOps[p].step = "open" /\ codeLock = AtRest
  /\ codeLock' = p
  /\ codeOps' = [codeOps EXCEPT ![p] = [@ EXCEPT !.step = "load"]]
  /\ UNCHANGED <<codeClock, codeFile, issued, redeemed, dropped>>

\* _store_entry: prune, make room, add.
LoadForStore(p) ==
  /\ AtStep(p, "store", "load")
  /\ \E kept \in Roomy(Keep(codeFile, Fresh(codeFile))) :
       codeOps' = [codeOps EXCEPT ![p] = [@ EXCEPT !.step = "truncate",
         !.entries = [c \in kept \cup {codeOps[p].code} |->
            IF c = codeOps[p].code THEN codeClock + CodeTTL ELSE codeFile[c]]]]
  /\ UNCHANGED <<codeClock, codeFile, codeLock, issued, redeemed, dropped>>

\* _pop_entry: take the entry out, whatever its expiry, and prune the others. An
\* empty file is left as it is.
LoadForPop(p) ==
  /\ AtStep(p, "pop", "load")
  /\ IF Pending = {}
       THEN codeOps' = [codeOps EXCEPT ![p] = [@ EXCEPT !.step = "unlock"]]
       ELSE LET code == codeOps[p].code
            IN  codeOps' = [codeOps EXCEPT ![p] = [@ EXCEPT !.step = "truncate",
                  !.found = code \in Fresh(codeFile),
                  !.entries = Keep(codeFile, Fresh(codeFile) \ {code})]]
  /\ UNCHANGED <<codeClock, codeFile, codeLock, issued, redeemed, dropped>>

TruncateFile(p) ==
  /\ codeOps[p] # AtRest /\ codeOps[p].step = "truncate"
  /\ codeFile' = <<>>
  /\ codeOps' = [codeOps EXCEPT ![p] = [@ EXCEPT !.step = "write"]]
  /\ dropped' = dropped \cup (Pending \ (DOMAIN codeOps[p].entries \cup {codeOps[p].code}))
  /\ UNCHANGED <<codeClock, codeLock, issued, redeemed>>

\* The new entries reach the file before the lock is given up.
WriteFile(p) ==
  /\ codeOps[p] # AtRest /\ codeOps[p].step = "write"
  /\ codeFile' = codeOps[p].entries
  /\ codeOps' = [codeOps EXCEPT ![p] = [@ EXCEPT !.step = "unlock"]]
  /\ UNCHANGED <<codeClock, codeLock, issued, redeemed, dropped>>

\* The code goes out to its owner, or the pop is answered; the expiry is looked
\* at once more.
UnlockFile(p) ==
  /\ codeOps[p] # AtRest /\ codeOps[p].step = "unlock"
  /\ codeLock' = AtRest
  /\ codeOps' = [codeOps EXCEPT ![p] = AtRest]
  /\ LET op == codeOps[p]
     IN  /\ issued' = IF op.kind = "store" THEN issued \cup {op.code} ELSE issued
         /\ redeemed' = IF op.found THEN [redeemed EXCEPT ![op.code] = @ + 1] ELSE redeemed
         /\ dropped' = IF op.kind = "pop" /\ ~op.found THEN dropped \cup {op.code}
                                                       ELSE dropped
  /\ UNCHANGED <<codeClock, codeFile>>

\* A process dies; entries it had truncated and not written are lost.
DieInStore(p) ==
  /\ codeOps[p] # AtRest
  /\ codeOps' = [codeOps EXCEPT ![p] = AtRest]
  /\ codeLock' = IF codeLock = p THEN AtRest ELSE codeLock
  /\ dropped' = dropped \cup {codeOps[p].code} \cup
       (IF codeOps[p].step = "write" THEN DOMAIN codeOps[p].entries ELSE {})
  /\ UNCHANGED <<codeClock, codeFile, issued, redeemed>>

CodesElapse ==
  /\ codeClock < MaxCodeTime
  /\ codeClock' = codeClock + 1
  /\ UNCHANGED <<codeFile, codeLock, codeOps, issued, redeemed, dropped>>

CodesNext ==
  \/ \E p \in CodeUsers :
       \/ \E code \in Codes : BeginStore(p, code) \/ BeginPop(p, code)
       \/ LockFile(p) \/ LoadForStore(p) \/ LoadForPop(p) \/ TruncateFile(p)
       \/ WriteFile(p) \/ UnlockFile(p) \/ DieInStore(p)
  \/ CodesElapse

CodesSpec == CodesInit /\ [][CodesNext]_codeVars

(* ---- properties --------------------------------------------------------------- *)

CodesTypeOK ==
  /\ Pending \subseteq Codes
  /\ codeLock \in CodeUsers \cup {AtRest}
  /\ issued \subseteq Codes /\ redeemed \in [Codes -> Nat]
  /\ Cardinality(Pending) <= MaxPending

\* A code is accepted at most once, whichever threads and processes offer it and
\* wherever they die; a code that was handed out and neither accepted nor
\* dropped is in the file, or on its way there (_store_entry, _pop_entry).
CodeRedeemedOnce ==
  /\ \A c \in Codes : redeemed[c] <= 1
  /\ \A c \in issued : c \in dropped \cup Pending \/ redeemed[c] = 1
       \/ \E p \in CodeUsers : codeOps[p] # AtRest
            /\ (codeOps[p].code = c \/ c \in DOMAIN codeOps[p].entries)

===============================================================================

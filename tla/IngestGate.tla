------------------------------ MODULE IngestGate ------------------------------
(* The gate of the collector (otlp.py): who may deliver records.             *)
(*                                                                           *)
(* A call is authenticated by a thread of a small executor, under a deadline *)
(* after which the caller is answered 503 while the thread goes on. A thread *)
(* looks in the cache of tokens found invalid, then in the database, and     *)
(* charges a refusal to the client's address; the handler charges a call     *)
(* that got through to its token. Time is counted in units of which Window   *)
(* stand for the minute of the rate window.                                  *)
EXTENDS Buffers, SequencesExt

CONSTANTS
  Calls,          \* request handlers
  Tokens,         \* tokens clients may send
  NoToken,        \* no token header
  Idle,           \* a handler without a request
  Window,         \* the rate window, and the least time between two clean-ups
  MaxPerWindow,   \* otlp.rate_limit_per_minute
  CacheTTL,       \* INVALID_TOKEN_CACHE_TTL_SECONDS
  CacheSize,      \* INVALID_TOKEN_CACHE_SIZE
  LookupSlots,    \* threads of the authentication executor
  MaxTime         \* bound on the clock, for model checking

\* A call on its way: where it is, the answer of the database, and whether its
\* caller still waits.
CallStates ==
  [phase : {"queued", "lookup", "found"}, token : Tokens \cup {NoToken},
   found : BOOLEAN, waited : BOOLEAN]

ASSUME GateAssumption ==
  /\ {Window, MaxPerWindow, CacheTTL, CacheSize, LookupSlots,
      MaxTime} \subseteq Nat \ {0}
  /\ NoToken \notin Tokens /\ Idle \notin CallStates

VARIABLES
  gateClock,    \* time.time()
  validTokens,  \* ingest tokens the database holds, not revoked
  invalidCache, \* _invalid_token_cache, oldest use first
  rateState,    \* _rate_limit_state: key -> times of the calls it let pass
  cleanedAt,    \* _last_rate_limit_cleanup
  calls,        \* what each handler and its thread are doing
  passed,       \* ghost: the times at which each key passed last, one more than
                \*   may pass in a window
  failedAt      \* ghost: when a lookup last found the token invalid

gateVars == <<gateClock, validTokens, invalidCache, rateState, cleanedAt, calls,
              passed, failedAt>>

RateKeys == Tokens \cup {"invalid", "missing"}
Call(phase, token, found) ==
  [phase |-> phase, token |-> token, found |-> found, waited |-> TRUE]

GateTypeOK ==
  /\ gateClock \in 0 .. MaxTime
  /\ validTokens \subseteq Tokens
  /\ invalidCache \in Seq([token : Tokens, until : Nat])
  /\ DOMAIN rateState \subseteq RateKeys
  /\ \A key \in DOMAIN rateState : rateState[key] \in Seq(Nat)
  /\ cleanedAt \in 0 .. MaxTime
  /\ calls \in [Calls -> {Idle} \cup CallStates]
  /\ passed \in [RateKeys -> Seq(Nat)]
  /\ failedAt \in [Tokens -> Nat]

GateInit ==
  /\ gateClock = 0 /\ validTokens = {} /\ invalidCache = <<>>
  /\ rateState = <<>> /\ cleanedAt = 0
  /\ calls = [c \in Calls |-> Idle]
  /\ passed = [key \in RateKeys |-> <<>>]
  /\ failedAt = [t \in Tokens |-> 0]

(* ---- the rate window ---------------------------------------------------- *)

\* Mutant: a pass as old as the window no longer counts.
InOpenWindow(at) == at + Window > gateClock

InWindow(at) == at + Window >= gateClock

\* The keys that survive the clean-up a call may trigger.
KeptKeys ==
  IF gateClock - cleanedAt >= Window
    THEN {key \in DOMAIN rateState :
            rateState[key] # <<>> /\ InWindow(Last(rateState[key]))}
    ELSE DOMAIN rateState

\* The deque is popped from its oldest end.
Popped(times) ==
  LET n == CHOOSE n \in 0 .. Len(times) :
             /\ \A i \in 1 .. n : ~InWindow(times[i])
             /\ n < Len(times) => InWindow(times[n + 1])
  IN  SubSeq(times, n + 1, Len(times))

Recorded(key) == IF key \in KeptKeys THEN Popped(rateState[key]) ELSE <<>>

\* The ghost remembers a pass.
Latest(times) == IF Len(times) > MaxPerWindow THEN Tail(times) ELSE times

CheckRateLimit(key) ==
  LET times == Recorded(key)
      passes == Len(times) < MaxPerWindow
  IN  /\ cleanedAt' = IF gateClock - cleanedAt >= Window THEN gateClock ELSE cleanedAt
      /\ rateState' = [k \in KeptKeys \cup {key} |->
           IF k = key THEN IF passes THEN Append(times, gateClock) ELSE times
                      ELSE rateState[k]]
      /\ passed' = IF passes THEN [passed EXCEPT ![key] = Append(Latest(@), gateClock)]
                             ELSE passed

(* ---- the cache of invalid tokens ---------------------------------------- *)

Unexpired(entry) == entry.until > gateClock
Live == Kept(invalidCache, {i \in DOMAIN invalidCache : Unexpired(invalidCache[i])})
Others(cache, token) == Kept(cache, {i \in DOMAIN cache : cache[i].token # token})

\* _remember_invalid_token: the newest entry last, the oldest evicted.
Remembered(token) ==
  LET cache == Append(Others(invalidCache, token),
                      [token |-> token, until |-> gateClock + CacheTTL])
  IN  IF Len(cache) > CacheSize THEN Tail(cache) ELSE cache

\* Mutant: a hit renews the expiry.
TouchedAgain(token) ==
  Append(Others(Live, token), [token |-> token, until |-> gateClock + CacheTTL])

\* A hit moves the entry to the end and keeps its expiry.
Touched(token) ==
  Others(Live, token) \o Kept(Live, {i \in DOMAIN Live : Live[i].token = token})

(* ---- a call -------------------------------------------------------------- *)

\* A request waits for a thread of the executor.
Arrive(c, token) ==
  /\ calls[c] = Idle
  /\ calls' = [calls EXCEPT ![c] = Call("queued", token, FALSE)]
  /\ UNCHANGED <<gateClock, validTokens, invalidCache, rateState, cleanedAt,
                 passed, failedAt>>

Busy == {c \in Calls : calls[c] # Idle /\ calls[c].phase # "queued"}

\* A call whose caller gave up is dropped from the queue when a thread is free.
StartLookup(c) ==
  /\ calls[c] # Idle /\ calls[c].phase = "queued" /\ Cardinality(Busy) < LookupSlots
  /\ calls' = [calls EXCEPT ![c] = IF @.waited THEN [@ EXCEPT !.phase = "lookup"]
                                               ELSE Idle]
  /\ UNCHANGED <<gateClock, validTokens, invalidCache, rateState, cleanedAt,
                 passed, failedAt>>

\* Without a token the caller is the local owner, unlimited, or is refused.
OwnerOrRefuse(c, isOwner) ==
  /\ calls[c] # Idle /\ calls[c].phase = "lookup" /\ calls[c].token = NoToken
  /\ calls' = [calls EXCEPT ![c] = Idle]
  /\ IF isOwner THEN UNCHANGED <<rateState, cleanedAt, passed>>
                ELSE CheckRateLimit("missing")
  /\ UNCHANGED <<gateClock, validTokens, invalidCache, failedAt>>

\* A token remembered as invalid is refused without a lookup.
RefuseCached(c) ==
  /\ calls[c] # Idle /\ calls[c].phase = "lookup"
  /\ \E i \in DOMAIN Live : Live[i].token = calls[c].token
  /\ invalidCache' = Touched(calls[c].token)
  /\ calls' = [calls EXCEPT ![c] = Idle]
  /\ CheckRateLimit("invalid")
  /\ UNCHANGED <<gateClock, validTokens, failedAt>>

\* resolve_token reads the database; the answer is acted upon in a later step.
ReadToken(c) ==
  /\ calls[c] # Idle /\ calls[c].phase = "lookup" /\ calls[c].token # NoToken
  /\ \A i \in DOMAIN Live : Live[i].token # calls[c].token
  /\ invalidCache' = Live
  /\ calls' = [calls EXCEPT ![c] = [@ EXCEPT !.phase = "found",
                                       !.found = calls[c].token \in validTokens]]
  /\ UNCHANGED <<gateClock, validTokens, rateState, cleanedAt, passed, failedAt>>

RefuseInvalid(c) ==
  /\ calls[c] # Idle /\ calls[c].phase = "found" /\ ~calls[c].found
  /\ invalidCache' = Remembered(calls[c].token)
  /\ failedAt' = [failedAt EXCEPT ![calls[c].token] = gateClock]
  /\ calls' = [calls EXCEPT ![c] = Idle]
  /\ CheckRateLimit("invalid")
  /\ UNCHANGED <<gateClock, validTokens>>

\* The handler counts the call, if it still waits for the answer.
AdmitOrLimit(c) ==
  /\ calls[c] # Idle /\ calls[c].phase = "found" /\ calls[c].found
  /\ calls' = [calls EXCEPT ![c] = Idle]
  /\ IF calls[c].waited THEN CheckRateLimit(calls[c].token)
                        ELSE UNCHANGED <<rateState, cleanedAt, passed>>
  /\ UNCHANGED <<gateClock, validTokens, invalidCache, failedAt>>

\* After AUTH_LOOKUP_TIMEOUT_SECONDS, of which the model allows any number, the
\* caller is answered 503; a running thread keeps its slot.
TimeOut(c) ==
  /\ calls[c] # Idle /\ calls[c].waited
  /\ calls' = [calls EXCEPT ![c].waited = FALSE]
  /\ UNCHANGED <<gateClock, validTokens, invalidCache, rateState, cleanedAt,
                 passed, failedAt>>

(* ---- the environment ------------------------------------------------------ *)

Mint(token) ==
  /\ validTokens' = validTokens \cup {token}
  /\ UNCHANGED <<gateClock, invalidCache, rateState, cleanedAt, calls, passed, failedAt>>

Revoke(token) ==
  /\ validTokens' = validTokens \ {token}
  /\ UNCHANGED <<gateClock, invalidCache, rateState, cleanedAt, calls, passed, failedAt>>

Elapse ==
  /\ gateClock < MaxTime
  /\ gateClock' = gateClock + 1
  /\ UNCHANGED <<validTokens, invalidCache, rateState, cleanedAt, calls, passed, failedAt>>

GateCallNext(c) ==
  \/ \E token \in Tokens \cup {NoToken} : Arrive(c, token)
  \/ StartLookup(c)
  \/ \E isOwner \in BOOLEAN : OwnerOrRefuse(c, isOwner)
  \/ RefuseCached(c)
  \/ ReadToken(c)
  \/ RefuseInvalid(c)
  \/ AdmitOrLimit(c)
  \/ TimeOut(c)

GateNext ==
  \/ \E c \in Calls : GateCallNext(c)
  \/ \E token \in Tokens : Mint(token) \/ Revoke(token)
  \/ Elapse

GateSpec == GateInit /\ [][GateNext]_gateVars

(* ---- properties ------------------------------------------------------------ *)

\* No token, and no address that is refused, passes more often than the limit
\* in any closed window, whatever the clean-up of the table removed meanwhile
\* (_check_rate_limit).
RateLimitHolds ==
  \A key \in RateKeys :
    Len(passed[key]) > MaxPerWindow => Last(passed[key]) > Head(passed[key]) + Window

\* A token is refused from the cache only for CacheTTL after a lookup found it
\* invalid: asking again does not prolong it, so a token that becomes valid is
\* let in again (_invalid_token_is_cached). A thread that read the token before
\* it became valid may remember it after; that lookup is the last one meant.
NoStuckRefusal ==
  \A i \in DOMAIN invalidCache :
    invalidCache[i].until <= failedAt[invalidCache[i].token] + CacheTTL

===============================================================================

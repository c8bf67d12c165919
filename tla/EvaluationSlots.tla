--------------------------- MODULE EvaluationSlots ---------------------------
(***************************************************************************)
(* What the evaluation queue promises about one session, whatever the      *)
(* number of jobs, requests, workers and evaluator threads: a session owns *)
(* one evaluation slot.  The slot is idle, or holds one request that waits *)
(* or one that is being evaluated; a request in the slot is taken up at    *)
(* most once and a slot that was released starts again from idle.          *)
(* EvaluationJobs implements this specification: the slot of a session is  *)
(* the status of its active row in evaluation_jobs.                        *)
(***************************************************************************)

CONSTANT SessionIds     \* sessions that may be evaluated

VARIABLE slot           \* slot[s]: "idle", "queued" or "running"

SlotStates == {"idle", "queued", "running"}

SlotsInit == slot = [s \in SessionIds |-> "idle"]

\* A request for the session enters the queue.
Enqueue(s) ==
  /\ slot[s] = "idle"
  /\ slot' = [slot EXCEPT ![s] = "queued"]

\* A worker takes the waiting request up.
TakeUp(s) ==
  /\ slot[s] = "queued"
  /\ slot' = [slot EXCEPT ![s] = "running"]

\* The requests of some sessions end, finished or expired.
Release(S) ==
  /\ \A s \in S : slot[s] # "idle"
  /\ slot' = [s \in SessionIds |-> IF s \in S THEN "idle" ELSE slot[s]]

SlotsNext ==
  \/ \E s \in SessionIds : Enqueue(s)
  \/ \E s \in SessionIds : TakeUp(s)
  \/ \E S \in SUBSET SessionIds : Release(S)

SlotsSpec == SlotsInit /\ [][SlotsNext]_slot

==============================================================================

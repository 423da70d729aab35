------------------------------- MODULE JobQueue -------------------------------
(***************************************************************************)
(* One BullMQ queue as the rewards module declares and uses it: a job is   *)
(* known by its jobId, adding an id the queue still holds does nothing, a  *)
(* thrown error is retried with back-off up to MaxAttempts times, and a    *)
(* job whose process died is taken back at most MaxStalls times.  BullMQ   *)
(* itself is a library: only the job options come from the repository.     *)
(* "absent" covers both a job never added and one the queue has dropped    *)
(* again (removeOnComplete / removeOnFail).                                *)
(***************************************************************************)
EXTENDS Naturals

CONSTANTS
    Events,        \* the job ids: one per event that is ever enqueued
    MaxAttempts,   \* JOB_OPTIONS.attempts
    MaxStalls      \* BullMQ's maxStalledCount (library default 1)

ASSUME JobQueueAssumption ==
    /\ MaxAttempts \in Nat \ {0}
    /\ MaxStalls \in Nat

VARIABLES
    jobState,      \* where each job is
    attempts,      \* failed attempts of a job still in flight
    stalls         \* times a job in flight was found without a live worker

queueVars == <<jobState, attempts, stalls>>

InFlight == {"waiting", "active", "delayed"}
Settled  == {"completed", "failed"}

QueueTypeOK ==
    /\ jobState \in [Events -> InFlight \cup Settled \cup {"absent"}]
    /\ attempts \in [Events -> 0 .. MaxAttempts]
    /\ stalls   \in [Events -> 0 .. MaxStalls]

QueueInit ==
    /\ jobState = [j \in Events |-> "absent"]
    /\ attempts = [j \in Events |-> 0]
    /\ stalls   = [j \in Events |-> 0]

-------------------------------------------------------------------------------
(* Queue.add: with an id the queue still holds it is a no-op (a stutter).  *)
Add(j) ==
    /\ jobState[j] = "absent"
    /\ jobState' = [jobState EXCEPT ![j] = "waiting"]
    /\ UNCHANGED <<attempts, stalls>>

(* A worker takes a waiting job. *)
Activate(j) ==
    /\ jobState[j] = "waiting"
    /\ jobState' = [jobState EXCEPT ![j] = "active"]
    /\ UNCHANGED <<attempts, stalls>>

(* The job leaves the flight; its counters no longer matter. *)
Settle(j, outcome) ==
    /\ jobState' = [jobState EXCEPT ![j] = outcome]
    /\ attempts' = [attempts EXCEPT ![j] = 0]
    /\ stalls'   = [stalls EXCEPT ![j] = 0]

(* process() returned. *)
Complete(j) ==
    /\ jobState[j] = "active"
    /\ Settle(j, "completed")

(* Mutants: the attempts are counted but never compared, or not counted.   *)
FailWithoutLimit(j) ==
    /\ jobState[j] = "active"
    /\ jobState' = [jobState EXCEPT ![j] = "delayed"]
    /\ attempts' = [attempts EXCEPT ![j] = @ + 1]
    /\ UNCHANGED stalls

FailWithoutCount(j) ==
    /\ jobState[j] = "active"
    /\ jobState' = [jobState EXCEPT ![j] = "delayed"]
    /\ UNCHANGED <<attempts, stalls>>

(* process() threw: retry after the back-off, or give up for good. *)
FailAttempt(j) ==
    /\ jobState[j] = "active"
    /\ \/ /\ attempts[j] + 1 < MaxAttempts
          /\ jobState' = [jobState EXCEPT ![j] = "delayed"]
          /\ attempts' = [attempts EXCEPT ![j] = @ + 1]
          /\ UNCHANGED stalls
       \/ /\ attempts[j] + 1 >= MaxAttempts
          /\ Settle(j, "failed")

(* The back-off delay is over. *)
Promote(j) ==
    /\ jobState[j] = "delayed"
    /\ jobState' = [jobState EXCEPT ![j] = "waiting"]
    /\ UNCHANGED <<attempts, stalls>>

(* The stalled-job check finds an active job whose lock has lapsed. *)
Stall(j) ==
    /\ jobState[j] = "active"
    /\ \/ /\ stalls[j] < MaxStalls
          /\ jobState' = [jobState EXCEPT ![j] = "waiting"]
          /\ stalls' = [stalls EXCEPT ![j] = @ + 1]
          /\ UNCHANGED attempts
       \/ /\ stalls[j] >= MaxStalls
          /\ Settle(j, "failed")

(* Retention is over (age or count): the id can be added again. *)
Evict(j) ==
    /\ jobState[j] \in Settled
    /\ jobState' = [jobState EXCEPT ![j] = "absent"]
    /\ UNCHANGED <<attempts, stalls>>

===============================================================================

----------------------------- MODULE PointRewards -----------------------------
(***************************************************************************)
(* The point queue together with PointsService: the worker pays points     *)
(* through PointsService.earn while administrators call POST points/earn   *)
(* and members open GET points/wallet in the same process.                 *)
(*                                                                         *)
(* earn() is a READ COMMITTED transaction without row locks: what it reads *)
(* (the policy's amount, the wallet) and what it commits are two steps.    *)
(* balance and totalEarned are always written with the same increment and  *)
(* no code spends points, so wallet[m] stands for both.                    *)
(***************************************************************************)
EXTENDS RewardProcessor

CONSTANTS
    EarnRequests   \* the POST points/earn calls; each is made at most once

ASSUME PointAssumption == None \notin Nat

VARIABLES
    wallet,   \* DB point_wallets: None while the member has no row
    snap,     \* what the worker's earn() has read, None outside earn()
    call,     \* what each open POST points/earn has been asked and has read
    used      \* the POST points/earn calls made so far

pointVars == <<wallet, snap, call, used>>
vars      == <<processorVars, pointVars>>

Snapshots == [amount : Amounts, read : Nat \cup {None}]
Calls     == [member : Members, policy : Policies, ref : Refs, snap : Snapshots]

-------------------------------------------------------------------------------
(* PointsService.earn. *)
ReadForEarn(m, p) == [amount |-> policies[p].amount, read |-> wallet[m]]

(* member_id is unique: a wallet can be inserted only while there is none. *)
CanCommit(m, s) == s.read = None => wallet[m] = None

Credited(s) == (IF s.read = None THEN 0 ELSE s.read) + s.amount

Init ==
    /\ ProcessorInit
    /\ wallet = [m \in Members |-> None]
    /\ snap = None
    /\ call = [r \in EarnRequests |-> None]
    /\ used = {}

-------------------------------------------------------------------------------
WorkerReads ==
    /\ BeginEarn
    /\ snap' = ReadForEarn(EventMember[job], cur.policy)
    /\ UNCHANGED <<wallet, call, used>>

WorkerCommits ==
    /\ pc = "commit" /\ CanCommit(EventMember[job], snap)
    /\ CommitEarn(snap.amount)
    /\ wallet' = [wallet EXCEPT ![EventMember[job]] = Credited(snap)]
    /\ snap' = None
    /\ UNCHANGED <<call, used>>

(* The insert of the wallet meets the unique index: rollback, retry. *)
WorkerConflicts ==
    /\ pc = "commit" /\ ~CanCommit(EventMember[job], snap)
    /\ Throw
    /\ snap' = None
    /\ UNCHANGED <<wallet, call, used>>

(* Mutants: the catch block goes on to the next policy; earn() without     *)
(* its transaction fails after the row and before the wallet.              *)
WorkerSkipsPolicy ==
    /\ pc \in {"earn", "commit"}
    /\ pc' = "check" /\ cur' = None /\ snap' = None
    /\ UNCHANGED <<job, todo, queueVars, dbVars, ledger, redis, wallet, call, used>>

WorkerThrowsHalfway ==
    /\ pc = "commit"
    /\ FailAttempt(job) /\ WorkerIdles
    /\ ledger' = Append(ledger, Row(EventMember[job], cur.policy, job, snap.amount, "queue", cur.once))
    /\ snap' = None
    /\ UNCHANGED <<dbVars, redis, wallet, call, used>>

WorkerThrows ==
    /\ Throw
    /\ snap' = None
    /\ UNCHANGED <<wallet, call, used>>

(* The other steps of process() do not touch the wallets. *)
WorkerSteps ==
    /\ \/ Load \/ Finish \/ MarkDone("check")
       \/ \E t \in todo : Skip(t) \/ Select(t)
    /\ UNCHANGED pointVars

TakeJob(e) == Take(e) /\ UNCHANGED pointVars

(* One process: a crash also ends every open request. *)
ProcessCrash ==
    /\ pc # "idle" \/ \E r \in EarnRequests : call[r] # None
    /\ Crash
    /\ snap' = None
    /\ call' = [r \in EarnRequests |-> None]
    /\ UNCHANGED <<wallet, used>>

-------------------------------------------------------------------------------
RequestReads(r, m, p, ref) ==
    /\ r \notin used
    /\ used' = used \cup {r}
    /\ call' = [call EXCEPT ![r] =
                   [member |-> m, policy |-> p, ref |-> ref, snap |-> ReadForEarn(m, p)]]
    /\ UNCHANGED <<processorVars, wallet, snap>>

RequestCommits(r) ==
    /\ call[r] # None
    /\ CanCommit(call[r].member, call[r].snap)
    /\ ManualEarn(call[r].member, call[r].policy, call[r].ref, call[r].snap.amount)
    /\ wallet' = [wallet EXCEPT ![call[r].member] = Credited(call[r].snap)]
    /\ call' = [call EXCEPT ![r] = None]
    /\ UNCHANGED <<snap, used>>

(* Mutant: earn() writes the wallet first and loses the row. *)
RequestFailsHalfway(r) ==
    /\ call[r] # None
    /\ wallet' = [wallet EXCEPT ![call[r].member] = Credited(call[r].snap)]
    /\ call' = [call EXCEPT ![r] = None]
    /\ UNCHANGED <<processorVars, snap, used>>

(* Unique violation or any other error: 5xx, nothing written. *)
RequestFails(r) ==
    /\ call[r] # None
    /\ call' = [call EXCEPT ![r] = None]
    /\ UNCHANGED <<processorVars, wallet, snap, used>>

(* getWallet: the insert decides, the lookup before it only avoids it. *)
OpenWallet(m) ==
    /\ wallet[m] = None
    /\ wallet' = [wallet EXCEPT ![m] = 0]
    /\ UNCHANGED <<processorVars, snap, call, used>>

Surroundings ==
    /\ \/ \E e \in Events : Enqueue(e) \/ Drop(e)
       \/ \E k \in redis : Expire(k)
       \/ \E p \in Policies : \E row \in PolicyRows \ {policies[p]} : UpdatePolicy(p, row)
       \/ \E a \in ActionTypes : UpdateActionType(a, ~catalog[a])
    /\ UNCHANGED pointVars

RequeueJob(e) == Requeue(e) /\ UNCHANGED pointVars

Next ==
    \/ WorkerReads \/ WorkerCommits \/ WorkerConflicts \/ WorkerThrows
    \/ WorkerSteps \/ ProcessCrash \/ Surroundings
    \/ \E e \in Events : TakeJob(e) \/ RequeueJob(e)
    \/ \E r \in EarnRequests :
          \/ RequestCommits(r) \/ RequestFails(r)
          \/ \E m \in Members, p \in Policies, ref \in Refs : RequestReads(r, m, p, ref)
    \/ \E m \in Members : OpenWallet(m)

Spec == Init /\ [][Next]_vars

(* The event loop keeps running process(); a delayed or stalled job is     *)
(* put back; the queue is first-in first-out, so no waiting job is passed  *)
(* over for ever.  Errors, crashes, requests and edits are never owed.     *)
Fairness ==
    /\ WF_vars(WorkerSteps) /\ WF_vars(WorkerReads)
    /\ WF_vars(WorkerCommits) /\ WF_vars(WorkerConflicts)
    /\ \A e \in Events : SF_vars(TakeJob(e)) /\ WF_vars(RequeueJob(e))

FairSpec == Spec /\ Fairness

-------------------------------------------------------------------------------
TypeOK ==
    /\ ProcessorTypeOK
    /\ wallet \in [Members -> Nat \cup {None}]
    /\ snap \in Snapshots \cup {None}
    /\ call \in [EarnRequests -> Calls \cup {None}]
    /\ used \subseteq EarnRequests

Balance(m) == IF wallet[m] = None THEN 0 ELSE wallet[m]

(* balance and total_earned are the sum of the member's transactions       *)
(* (docs/db-spec.md:631): each earn() adds its row and raises the wallet.  *)
(* True of the queue alone, whatever fails and whoever opens a wallet.     *)
WalletMatchesLedger == \A m \in Members : Balance(m) = Earned(m)

(* Concurrent earn() calls may lose an increment, never invent one.        *)
NeverOverCredited == \A m \in Members : Balance(m) <= Earned(m)

===============================================================================

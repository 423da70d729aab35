-------------------------- MODULE PointRewardsProofs --------------------------
(***************************************************************************)
(* The point queue, with its wallets and the requests around it, is a      *)
(* reward queue; what is proved of those holds of it.                      *)
(***************************************************************************)
EXTENDS PointRewards, RewardProcessorProofs

USE PointAssumption

(* Inside earn()'s transaction the worker has read something.              *)
PointInv == TypeOK /\ TypeInv /\ (pc = "commit" => snap \in Snapshots)

LEMMA PointInit == Init => PointInv
BY TypeInit DEF Init, PointInv, TypeInv, TypeOK, ProcessorInit

(* Every step of the worker, of a request, of an administrator or of the   *)
(* clock is a step of the reward queue or leaves it alone.                 *)
LEMMA StepProcessor == PointInv /\ [Next]_vars => [ProcessorNext]_processorVars
<1> SUFFICES ASSUME PointInv, [Next]_vars PROVE [ProcessorNext]_processorVars
  OBVIOUS
<1>1. CASE WorkerReads \/ WorkerConflicts \/ WorkerThrows \/ ProcessCrash
  BY <1>1 DEF WorkerReads, WorkerConflicts, WorkerThrows, ProcessCrash, ProcessorNext
<1>2. CASE WorkerCommits
  BY <1>2 DEF WorkerCommits, ProcessorNext, PointInv, Snapshots
<1>3. CASE WorkerSteps
  BY <1>3 DEF WorkerSteps, ProcessorNext
<1>4. ASSUME NEW e \in Events, TakeJob(e) \/ RequeueJob(e) PROVE ProcessorNext
  BY <1>4 DEF TakeJob, RequeueJob, ProcessorNext
<1>5. CASE Surroundings
  BY <1>5 DEF Surroundings, ProcessorNext, PointInv, TypeOK, ProcessorTypeOK
<1>6. ASSUME NEW r \in EarnRequests, RequestCommits(r) PROVE ProcessorNext
  <2>1. call[r] \in Calls
    BY <1>6 DEF RequestCommits, PointInv, TypeOK
  <2> QED
    BY <1>6, <2>1 DEF RequestCommits, ProcessorNext, Calls, Snapshots
<1> QED
  BY <1>1, <1>2, <1>3, <1>4, <1>5, <1>6 DEF Next, vars, RequestReads, RequestFails, OpenWallet

(* What earn() reads is a snapshot, what it credits a balance.             *)
LEMMA EarnTypes ==
    ASSUME TypeOK
    PROVE  /\ \A m \in Members, p \in Policies : ReadForEarn(m, p) \in Snapshots
           /\ \A s \in Snapshots : Credited(s) \in Nat
<1>1. ASSUME NEW m \in Members, NEW p \in Policies PROVE ReadForEarn(m, p) \in Snapshots
  <2>1. policies[p].amount \in Amounts /\ wallet[m] \in Nat \cup {None}
    BY DEF TypeOK, ProcessorTypeOK, PolicyRows
  <2> QED
    BY <2>1 DEF ReadForEarn, Snapshots
<1>2. ASSUME NEW s \in Snapshots PROVE Credited(s) \in Nat
  <2>1. s.amount \in Nat /\ (s.read = None \/ s.read \in Nat)
    BY ProcessorAssumption DEF Snapshots
  <2> QED
    BY <2>1 DEF Credited
<1> QED
  BY <1>1, <1>2

LEMMA PointStep == PointInv /\ [Next]_vars => PointInv'
<1> SUFFICES ASSUME PointInv, [Next]_vars PROVE PointInv'
  OBVIOUS
<1>1. TypeInv'
  BY StepProcessor, TypeStep DEF PointInv
<1> USE <1>1, EarnTypes DEF PointInv, TypeInv, TypeOK, WorkerTypeOK, pointVars
<1>2. CASE WorkerReads
  <2>1. ReadForEarn(EventMember[job], cur.policy) \in Snapshots
    BY <1>2, ProcessorAssumption DEF WorkerReads, BeginEarn, Tickets
  <2> QED
    BY <1>2, <2>1 DEF WorkerReads, BeginEarn
<1>3. CASE WorkerCommits
  BY <1>3 DEF WorkerCommits, CommitEarn
<1>4. CASE WorkerConflicts \/ WorkerThrows
  BY <1>4 DEF WorkerConflicts, WorkerThrows, Throw, WorkerIdles
<1>5. CASE WorkerSteps
  BY <1>5 DEF WorkerSteps, Load, Finish, WorkerIdles, MarkDone, Skip, Select
<1>6. CASE ProcessCrash
  BY <1>6 DEF ProcessCrash, Crash, WorkerIdles
<1>7. CASE Surroundings
  BY <1>7 DEF Surroundings, Enqueue, Drop, Expire, UpdatePolicy, UpdateActionType, workerVars
<1>8. ASSUME NEW e \in Events, TakeJob(e) \/ RequeueJob(e) PROVE PointInv'
  BY <1>8 DEF TakeJob, RequeueJob, Take, Requeue, workerVars
<1>9. ASSUME NEW r \in EarnRequests, RequestCommits(r) PROVE PointInv'
  <2>1. call[r] \in Calls
    BY <1>9 DEF RequestCommits
  <2> QED
    BY <1>9, <2>1 DEF RequestCommits, ManualEarn, workerVars, Calls
<1>10. ASSUME NEW r \in EarnRequests, RequestFails(r) PROVE PointInv'
  BY <1>10 DEF RequestFails, processorVars, workerVars
<1>11. ASSUME NEW r \in EarnRequests, NEW m \in Members, NEW p \in Policies, NEW ref \in Refs,
              RequestReads(r, m, p, ref)
       PROVE  PointInv'
  BY <1>11 DEF RequestReads, processorVars, workerVars, Calls
<1>12. ASSUME NEW m \in Members, OpenWallet(m) PROVE PointInv'
  BY <1>12 DEF OpenWallet, processorVars, workerVars
<1>13. CASE UNCHANGED vars
  BY <1>13 DEF vars, processorVars, workerVars
<1> QED
  BY <1>2, <1>3, <1>4, <1>5, <1>6, <1>7, <1>8, <1>9, <1>10, <1>11, <1>12, <1>13 DEF Next

(* All variables of the point queue keep their types.                      *)
THEOREM PointTypes == Spec => []TypeOK
<1>1. PointInv => TypeOK
  BY DEF PointInv
<1> QED
  BY <1>1, PointInit, PointStep, PTL DEF Spec

(* The point queue with everything around it implements the reward queue.  *)
THEOREM PointsRefineProcessor == Spec => ProcessorSpec
<1>1. Init => ProcessorInit
  BY DEF Init
<1> QED
  BY <1>1, PointInit, PointStep, StepProcessor, PTL DEF Spec, ProcessorSpec

(* Points are paid at most once per policy and event, and at most once per *)
(* member under a one-time policy, whatever requests, edits, crashes and   *)
(* retries interleave.                                                     *)
THEOREM PointsPaidAtMostOnce == Spec => []NoDoublePay
BY PointsRefineProcessor, PaidAtMostOnce, PTL

(* A completed point job left nothing unpaid, and no dedup key vouches for *)
(* points that were not paid.                                              *)
THEOREM PointsPaidWhenCompleted == Spec => [](RedisOnlyIfPaid /\ CompletedMeansPaid)
BY PointsRefineProcessor, RedisHonest, CompletedJobsPaid, PTL

-------------------------------------------------------------------------------
(* The balance an earn() goes by, and that it is credible: what was read,  *)
(* by the worker or by a request, was never more than the member's         *)
(* transactions, and these only grow.                                      *)
Basis(s) == IF s.read = None THEN 0 ELSE s.read

Credible ==
    /\ NeverOverCredited
    /\ pc = "commit" => Basis(snap) <= Earned(EventMember[job])
    /\ \A r \in EarnRequests : call[r] # None => Basis(call[r].snap) <= Earned(call[r].member)

(* While only the queue pays, what the worker read is still the balance.   *)
Exact ==
    /\ \A r \in EarnRequests : call[r] # None => r \in used
    /\ used = {} =>
          /\ WalletMatchesLedger
          /\ pc = "commit" =>
                \/ snap.read = wallet[EventMember[job]]
                \/ snap.read = None /\ wallet[EventMember[job]] = 0

LEMMA BasisType ==
    ASSUME NEW s \in Snapshots
    PROVE  /\ Basis(s) \in Nat /\ s.amount \in Amounts /\ s.amount \in Nat
           /\ s.read \in Nat \cup {None}
           /\ Credited(s) = Basis(s) + s.amount
<1>1. /\ s.amount \in Amounts /\ s.amount \in Nat
      /\ s.read = None \/ s.read \in Nat
  BY ProcessorAssumption DEF Snapshots
<1> QED
  BY <1>1 DEF Basis, Credited

(* The two commits of earn(), by the worker and by a request.              *)
Commits(m, s) ==
    /\ m \in Members /\ s \in Snapshots /\ CanCommit(m, s)
    /\ wallet' = [wallet EXCEPT ![m] = Credited(s)]
    /\ \A k : Earned(k)' = Earned(k) + (IF k = m THEN s.amount ELSE 0)

LEMMA WorkerCredits ==
    ASSUME PointInv, WorkerCommits
    PROVE  Commits(EventMember[job], snap)
<1>1. /\ pc = "commit" /\ snap \in Snapshots /\ job \in Events /\ cur \in Tickets
      /\ CommitEarn(snap.amount)
  BY DEF WorkerCommits, PointInv, TypeInv, WorkerTypeOK
<1>2. ledger' = Append(ledger, Row(EventMember[job], cur.policy, job, snap.amount, "queue", cur.once))
  BY <1>1 DEF CommitEarn
<1>3. /\ EventMember[job] \in Members /\ cur.policy \in Policies \cup {None} /\ job \in Refs
      /\ snap.amount \in Amounts /\ cur.once \in BOOLEAN
  BY <1>1, BasisType, ProcessorAssumption DEF Tickets, Refs
<1> QED
  BY <1>1, <1>2, <1>3, EarnedPaid DEF Commits, WorkerCommits, PointInv

LEMMA RequestCredits ==
    ASSUME PointInv, NEW r \in EarnRequests, RequestCommits(r)
    PROVE  Commits(call[r].member, call[r].snap)
<1> DEFINE c == call[r]
<1>1. c \in Calls /\ ManualEarn(c.member, c.policy, c.ref, c.snap.amount)
  BY DEF RequestCommits, PointInv, TypeOK
<1>2. ledger' = Append(ledger, Row(c.member, c.policy, c.ref, c.snap.amount, "http", FALSE))
  BY <1>1 DEF ManualEarn
<1>3. /\ c.member \in Members /\ c.policy \in Policies \cup {None} /\ c.ref \in Refs
      /\ c.snap \in Snapshots
  BY <1>1 DEF Calls
<1>4. c.snap.amount \in Amounts
  BY <1>3, BasisType
<1>5. \A k : Earned(k)' = Earned(k) + (IF k = c.member THEN c.snap.amount ELSE 0)
  <2> HIDE DEF c
  <2> QED
    BY <1>2, <1>3, <1>4, EarnedPaid DEF PointInv
<1> QED
  BY <1>3, <1>5 DEF Commits, RequestCommits

(* The steps that write no wallet.                                         *)
LEMMA WalletWrites ==
    ASSUME [Next]_vars
    PROVE  \/ WorkerCommits
           \/ \E r \in EarnRequests : RequestCommits(r)
           \/ \E m \in Members : OpenWallet(m)
           \/ wallet' = wallet
BY DEF Next, vars, pointVars, WorkerReads, WorkerConflicts, WorkerThrows, WorkerSteps, ProcessCrash,
   Surroundings, TakeJob, RequeueJob, RequestFails, RequestReads

(* What a snapshot that is still open afterwards was before: unchanged, or *)
(* just read.                                                              *)
LEMMA WorkerSnapshot ==
    ASSUME PointInv, [Next]_vars, pc' = "commit"
    PROVE  \/ UNCHANGED <<pc, job, snap>>
           \/ UNCHANGED <<job, wallet>> /\ snap'.read = wallet[EventMember[job]]
<1>1. CASE WorkerReads
  BY <1>1 DEF WorkerReads, BeginEarn, ReadForEarn
<1>2. CASE WorkerCommits \/ WorkerConflicts \/ WorkerThrows \/ ProcessCrash
  BY <1>2 DEF WorkerCommits, CommitEarn, WorkerConflicts, WorkerThrows, ProcessCrash, Throw, Crash, WorkerIdles
<1>3. CASE WorkerSteps
  BY <1>3 DEF WorkerSteps, Load, Finish, WorkerIdles, MarkDone, Skip, Select, pointVars
<1>4. CASE Surroundings
  BY <1>4 DEF Surroundings, Enqueue, Drop, Expire, UpdatePolicy, UpdateActionType, workerVars, pointVars
<1>5. ASSUME NEW e \in Events, TakeJob(e) \/ RequeueJob(e)
      PROVE  UNCHANGED <<pc, job, snap>>
  BY <1>5 DEF TakeJob, RequeueJob, Take, Requeue, workerVars, pointVars
<1>6. ASSUME NEW r \in EarnRequests,
             \/ RequestCommits(r) \/ RequestFails(r)
             \/ \E m \in Members, p \in Policies, ref \in Refs : RequestReads(r, m, p, ref)
      PROVE  UNCHANGED <<pc, job, snap>>
  BY <1>6 DEF RequestCommits, RequestFails, RequestReads, ManualEarn, processorVars, workerVars
<1>7. ASSUME NEW m \in Members, OpenWallet(m) PROVE UNCHANGED <<pc, job, snap>>
  BY <1>7 DEF OpenWallet, processorVars, workerVars
<1>8. CASE UNCHANGED vars
  BY <1>8 DEF vars, processorVars, workerVars, pointVars
<1> QED
  BY <1>1, <1>2, <1>3, <1>4, <1>5, <1>6, <1>7, <1>8 DEF Next

LEMMA RequestSnapshot ==
    ASSUME PointInv, [Next]_vars, NEW r \in EarnRequests, call'[r] # None
    PROVE  \/ call'[r] = call[r]
           \/ /\ wallet' = wallet /\ used' = used \cup {r} /\ call'[r].member \in Members
              /\ call'[r].snap.read = wallet[call'[r].member]
<1> USE DEF PointInv, TypeOK
<1>1. ASSUME NEW q \in EarnRequests, NEW m \in Members, NEW p \in Policies, NEW ref \in Refs,
             RequestReads(q, m, p, ref)
      PROVE  \/ call'[r] = call[r]
             \/ /\ wallet' = wallet /\ used' = used \cup {r} /\ call'[r].member \in Members
                /\ call'[r].snap.read = wallet[call'[r].member]
  BY <1>1 DEF RequestReads, ReadForEarn
<1>2. ASSUME NEW q \in EarnRequests, RequestCommits(q) \/ RequestFails(q)
      PROVE  call'[r] = call[r]
  BY <1>2 DEF RequestCommits, RequestFails
<1>3. CASE ProcessCrash
  BY <1>3 DEF ProcessCrash
<1> QED
  BY <1>1, <1>2, <1>3 DEF Next, vars, pointVars, WorkerReads, WorkerCommits, WorkerConflicts, WorkerThrows,
     WorkerSteps, Surroundings, TakeJob, RequeueJob, OpenWallet

LEMMA UsedStays ==
    ASSUME [Next]_vars
    PROVE  used \subseteq used'
BY DEF Next, vars, pointVars, WorkerReads, WorkerCommits, WorkerConflicts, WorkerThrows,
   WorkerSteps, ProcessCrash, Surroundings, TakeJob, RequeueJob, OpenWallet, RequestCommits,
   RequestFails, RequestReads

LEMMA CredibleStep == PointInv /\ Credible /\ [Next]_vars => Credible'
<1> SUFFICES ASSUME PointInv, Credible, [Next]_vars PROVE Credible'
  OBVIOUS
<1>1. \A m : Earned(m) \in Nat /\ Earned(m)' \in Nat /\ Earned(m) <= Earned(m)'
  BY EarnedStep, StepProcessor DEF PointInv
<1>2. \A m \in Members : wallet[m] \in Nat \cup {None} /\ Balance(m) \in Nat
  BY DEF PointInv, TypeOK, Balance
<1>3. NeverOverCredited'
  <2> SUFFICES ASSUME NEW k \in Members PROVE Balance(k)' <= Earned(k)'
    BY DEF NeverOverCredited
  <2>1. ASSUME NEW m, NEW s, Commits(m, s), Basis(s) <= Earned(m) PROVE Balance(k)' <= Earned(k)'
    <3>1. /\ m \in Members /\ s \in Snapshots /\ wallet' = [wallet EXCEPT ![m] = Credited(s)]
          /\ Earned(k)' = Earned(k) + (IF k = m THEN s.amount ELSE 0)
      BY <2>1 DEF Commits
    <3>2. Credited(s) = Basis(s) + s.amount /\ Basis(s) \in Nat /\ s.amount \in Nat
      BY <3>1, BasisType
    <3>3. CASE k = m
      <4>1. Balance(k)' = Credited(s)
        BY <3>1, <3>2, <3>3 DEF Balance, PointInv, TypeOK
      <4> QED
        BY <1>1, <2>1, <3>1, <3>2, <3>3, <4>1
    <3>4. CASE k # m
      <4>1. Balance(k)' = Balance(k) /\ Balance(k) <= Earned(k)
        BY <3>1, <3>4 DEF Balance, PointInv, TypeOK, Credible, NeverOverCredited
      <4> QED
        BY <1>1, <1>2, <4>1
    <3> QED
      BY <3>3, <3>4
  <2>2. CASE WorkerCommits
    BY <2>1, <2>2, WorkerCredits DEF Credible, WorkerCommits
  <2>3. ASSUME NEW r \in EarnRequests, RequestCommits(r) PROVE Balance(k)' <= Earned(k)'
    BY <2>1, <2>3, RequestCredits DEF Credible, RequestCommits
  <2>4. ASSUME NEW m \in Members, OpenWallet(m) PROVE Balance(k)' <= Earned(k)'
    <3>1. Balance(k)' = Balance(k) \/ Balance(k)' = 0
      BY <2>4 DEF OpenWallet, Balance, PointInv, TypeOK
    <3> QED
      BY <1>1, <1>2, <3>1 DEF Credible, NeverOverCredited
  <2>5. CASE wallet' = wallet
    <3>1. Balance(k)' = Balance(k) /\ Balance(k) <= Earned(k)
      BY <2>5 DEF Balance, Credible, NeverOverCredited
    <3> QED
      BY <1>1, <1>2, <3>1
  <2> QED
    BY <2>2, <2>3, <2>4, <2>5, WalletWrites
<1>4. \A m : Earned(m) <= EarnedIn(ledger', m) /\ Earned(m) \in Nat /\ EarnedIn(ledger', m) \in Nat
  BY <1>1 DEF Earned
<1>5. ASSUME NEW m \in Members, NEW s, s.read = wallet[m] PROVE Basis(s) <= EarnedIn(ledger', m)
  <2>1. Basis(s) = Balance(m) /\ Balance(m) <= Earned(m)
    BY <1>5 DEF Basis, Balance, Credible, NeverOverCredited
  <2> QED
    BY <1>2, <1>4, <2>1
<1>6. ASSUME pc' = "commit" PROVE Basis(snap') <= EarnedIn(ledger', EventMember[job'])
  <2>1. PointInv'
    BY PointStep
  <2>2. job' \in Events /\ EventMember[job'] \in Members
    BY <1>6, <2>1, ProcessorAssumption DEF PointInv, TypeInv, WorkerTypeOK
  <2>3. CASE UNCHANGED <<pc, job, snap>>
    <3>1. Basis(snap) \in Nat
      BY <1>6, <2>3, BasisType DEF PointInv
    <3>2. Basis(snap) <= Earned(EventMember[job])
      BY <1>6, <2>3 DEF Credible
    <3> QED
      BY <1>4, <2>3, <3>1, <3>2
  <2>4. CASE UNCHANGED <<job, wallet>> /\ snap'.read = wallet[EventMember[job]]
    BY <1>5, <2>2, <2>4
  <2> QED
    BY <1>6, <2>3, <2>4, WorkerSnapshot
<1>7. ASSUME NEW r \in EarnRequests, call'[r] # None
      PROVE  Basis(call'[r].snap) <= EarnedIn(ledger', call'[r].member)
  <2>1. CASE call'[r] = call[r]
    <3>1. call[r].snap \in Snapshots
      BY <1>7, <2>1 DEF PointInv, TypeOK, Calls
    <3>2. Basis(call[r].snap) \in Nat
      BY <3>1, BasisType
    <3>3. Basis(call[r].snap) <= Earned(call[r].member)
      BY <1>7, <2>1 DEF Credible
    <3> QED
      BY <1>4, <2>1, <3>2, <3>3
  <2>2. CASE call'[r].member \in Members /\ call'[r].snap.read = wallet[call'[r].member]
    BY <1>5, <2>2
  <2> QED
    BY <1>7, <2>1, <2>2, RequestSnapshot
<1> QED
  BY <1>3, <1>6, <1>7 DEF Credible, Earned

LEMMA ExactStep == PointInv /\ Exact /\ [Next]_vars => Exact'
<1> SUFFICES ASSUME PointInv, Exact, [Next]_vars PROVE Exact'
  OBVIOUS
<1>1. \A r \in EarnRequests : call'[r] # None => r \in used'
  BY RequestSnapshot, UsedStays DEF Exact
<1> SUFFICES ASSUME used' = {}
             PROVE  /\ WalletMatchesLedger'
                    /\ pc' = "commit" =>
                          \/ snap'.read = wallet'[EventMember[job']]
                          \/ snap'.read = None /\ wallet'[EventMember[job']] = 0
  BY <1>1 DEF Exact
<1>2. /\ used = {} /\ WalletMatchesLedger /\ \A r \in EarnRequests : call[r] = None
      /\ pc = "commit" => \/ snap.read = wallet[EventMember[job]]
                          \/ snap.read = None /\ wallet[EventMember[job]] = 0
  BY UsedStays DEF Exact
<1>3. \A k \in Members : /\ wallet[k] \in Nat \cup {None} /\ Balance(k) = Earned(k)
                         /\ Balance(k) \in Nat
  BY <1>2 DEF PointInv, TypeOK, Balance, WalletMatchesLedger
<1>4. \/ WorkerCommits \/ \E m \in Members : OpenWallet(m)
      \/ wallet' = wallet
  BY <1>2, WalletWrites DEF RequestCommits
<1>5. CASE WorkerCommits
  <2> DEFINE m == EventMember[job]
  <2>1. /\ m \in Members /\ snap \in Snapshots /\ wallet' = [wallet EXCEPT ![m] = Credited(snap)]
        /\ \A k : Earned(k)' = Earned(k) + (IF k = m THEN snap.amount ELSE 0)
    BY <1>5, WorkerCredits DEF Commits
  <2>2. Credited(snap) = Basis(snap) + snap.amount /\ Basis(snap) \in Nat /\ snap.amount \in Nat
    BY <2>1, BasisType
  <2>3. Basis(snap) = Balance(m)
    BY <1>2, <1>5 DEF WorkerCommits, Basis, Balance
  <2>4. pc' # "commit"
    BY <1>5 DEF WorkerCommits, CommitEarn
  <2> HIDE DEF m
  <2>5. ASSUME NEW k \in Members PROVE Balance(k)' = Earned(k)'
    <3>1. CASE k = m
      <4>1. Balance(k)' = Credited(snap)
        BY <2>1, <2>2, <3>1 DEF Balance, PointInv, TypeOK
      <4> QED
        BY <1>3, <2>1, <2>2, <2>3, <3>1, <4>1
    <3>2. CASE k # m
      <4>1. Balance(k)' = Balance(k)
        BY <2>1, <3>2 DEF Balance, PointInv, TypeOK
      <4> QED
        BY <1>3, <2>1, <3>2, <4>1
    <3> QED
      BY <3>1, <3>2
  <2> QED
    BY <2>4, <2>5 DEF WalletMatchesLedger
<1>6. ASSUME ~WorkerCommits PROVE ledger' = ledger
  BY <1>2, <1>6 DEF Next, vars, processorVars, WorkerReads, BeginEarn, WorkerConflicts, WorkerThrows,
     Throw, WorkerSteps, Load, Finish, MarkDone, Skip, Select, ProcessCrash, Crash, Surroundings,
     Enqueue, Drop, Expire, UpdatePolicy, UpdateActionType, TakeJob, Take, RequeueJob, Requeue,
     OpenWallet, RequestCommits, RequestFails, RequestReads
<1>7. ASSUME NEW m \in Members, OpenWallet(m)
      PROVE  /\ WalletMatchesLedger'
             /\ pc' = "commit" => \/ snap'.read = wallet'[EventMember[job']]
                                  \/ snap'.read = None /\ wallet'[EventMember[job']] = 0
  <2>1. /\ wallet[m] = None /\ wallet' = [wallet EXCEPT ![m] = 0]
        /\ UNCHANGED <<pc, job, snap, ledger>>
    BY <1>7 DEF OpenWallet, processorVars, workerVars
  <2>2. ASSUME NEW k \in Members PROVE Balance(k)' = Balance(k)
    BY <2>1 DEF Balance, PointInv, TypeOK
  <2>3. \A k \in Members : Earned(k)' = Earned(k)
    BY <2>1 DEF Earned
  <2> QED
    BY <1>2, <1>3, <2>1, <2>2, <2>3, ProcessorAssumption
       DEF WalletMatchesLedger, PointInv, TypeOK, TypeInv, WorkerTypeOK
<1>8. ASSUME wallet' = wallet, ~WorkerCommits
      PROVE  /\ WalletMatchesLedger'
             /\ pc' = "commit" => \/ snap'.read = wallet'[EventMember[job']]
                                  \/ snap'.read = None /\ wallet'[EventMember[job']] = 0
  <2>1. \A k \in Members : Earned(k)' = Earned(k) /\ Balance(k)' = Balance(k)
    BY <1>6, <1>8 DEF Earned, Balance
  <2> QED
    BY <1>2, <1>3, <1>8, <2>1, WorkerSnapshot DEF WalletMatchesLedger
<1> QED
  BY <1>4, <1>5, <1>7, <1>8

(* However the worker, requests and administrators interleave, no wallet   *)
(* ever shows more points than the member's transactions: a race between   *)
(* two earn() calls may lose an increment, never invent one.               *)
THEOREM PointsNeverOverCredited == Spec => []NeverOverCredited
<1>1. Init => Credible
  <2>1. ASSUME Init PROVE \A m : Earned(m) = 0
    BY <2>1, EarnedEmpty DEF Init, ProcessorInit, Earned
  <2> QED
    BY <2>1 DEF Init, ProcessorInit, Credible, NeverOverCredited, Balance
<1>2. Credible => NeverOverCredited
  BY DEF Credible
<1> QED
  BY <1>1, <1>2, PointInit, PointStep, CredibleStep, PTL DEF Spec

(* While only the queue pays, whatever fails, is retried or crashes and    *)
(* whoever opens a wallet meanwhile, every balance is exactly the sum of   *)
(* the member's transactions (docs/db-spec.md:631).                        *)
THEOREM WalletsMatchLedger == Spec => [](used = {} => WalletMatchesLedger)
<1>1. Init => Exact
  <2>1. ASSUME Init PROVE \A m : Earned(m) = 0
    BY <2>1, EarnedEmpty DEF Init, ProcessorInit, Earned
  <2> QED
    BY <2>1 DEF Init, ProcessorInit, Exact, WalletMatchesLedger, Balance
<1>2. Exact => (used = {} => WalletMatchesLedger)
  BY DEF Exact
<1> QED
  BY <1>1, <1>2, PointInit, PointStep, ExactStep, PTL DEF Spec

===============================================================================

------------------------- MODULE RewardProcessorProofs -------------------------
(***************************************************************************)
(* Every step of a reward queue keeps its types, its dedup promise and its *)
(* Redis keys honest, for any number of members, events and policies.      *)
(***************************************************************************)
EXTENDS RewardProcessor, WellFoundedInduction, TLAPS

USE JobQueueAssumption, ProcessorAssumption

(* What the two callers of earn() append.                                  *)
LEMMA ManualRow ==
    ASSUME NEW m \in Members, NEW p \in Policies \cup {None}, NEW ref \in Refs,
           NEW n \in Amounts, ManualEarn(m, p, ref, n)
    PROVE  \E row \in Rows : ledger' = Append(ledger, row) /\ row.by = "http"
<1> DEFINE row == [member |-> m, policy |-> p, ref |-> ref, amount |-> n,
                   by |-> "http", once |-> FALSE]
<1>1. row \in Rows /\ row.by = "http"
  BY DEF Rows
<1>2. ledger' = Append(ledger, row)
  BY DEF ManualEarn, Row
<1> QED
  BY <1>1, <1>2

-------------------------------------------------------------------------------
(* Where the worker is says what its variables hold.                       *)
WorkerTypeOK ==
    /\ pc = "idle" => job = None /\ todo = {} /\ cur = None
    /\ pc # "idle" => job \in Events /\ jobState[job] = "active"
    /\ pc \in {"earn", "commit", "mark"} => cur \in Tickets

TypeInv == ProcessorTypeOK /\ WorkerTypeOK

LEMMA TypeInit == ProcessorInit => TypeInv
BY DEF ProcessorInit, TypeInv, ProcessorTypeOK, WorkerTypeOK, QueueInit, QueueTypeOK,
       InFlight, Settled

(* The library's part: whatever a queue step does to a job, it leaves the  *)
(* other jobs alone and the counters in range.                             *)
LEMMA QueueStep ==
    ASSUME QueueTypeOK, NEW e \in Events,
           \/ Add(e) \/ Activate(e) \/ Complete(e) \/ FailAttempt(e)
           \/ Promote(e) \/ Stall(e) \/ Evict(e)
    PROVE  /\ QueueTypeOK'
           /\ \A f \in Events : f # e => jobState'[f] = jobState[f]
<1> USE DEF QueueTypeOK, InFlight, Settled
<1>1. CASE Add(e) \/ Activate(e) \/ Promote(e) \/ Evict(e)
  BY <1>1 DEF Add, Activate, Promote, Evict
<1>2. CASE Complete(e)
  BY <1>2 DEF Complete, Settle
<1>3. CASE FailAttempt(e)
  BY <1>3 DEF FailAttempt, Settle
<1>4. CASE Stall(e)
  BY <1>4 DEF Stall, Settle
<1> QED
  BY <1>1, <1>2, <1>3, <1>4

LEMMA TypeStep == TypeInv /\ [ProcessorNext]_processorVars => TypeInv'
<1> SUFFICES ASSUME TypeInv, [ProcessorNext]_processorVars PROVE TypeInv'
  OBVIOUS
<1> USE DEF TypeInv, ProcessorTypeOK, WorkerTypeOK, dbVars, workerVars
<1>1. ASSUME NEW e \in Events, Enqueue(e) \/ Take(e) \/ Requeue(e) \/ Drop(e)
      PROVE  TypeInv'
  <2>1. QueueTypeOK' /\ \A f \in Events : f # e => jobState'[f] = jobState[f]
    BY <1>1, QueueStep DEF Enqueue, Take, Requeue, Drop
  <2>2. CASE Enqueue(e)
    BY <2>1, <2>2 DEF Enqueue, Add
  <2>3. CASE Take(e)
    BY <2>1, <2>3 DEF Take, Activate, QueueTypeOK
  <2>4. CASE Requeue(e)
    BY <2>1, <2>4 DEF Requeue, Promote
  <2>5. CASE Drop(e)
    BY <2>1, <2>5 DEF Drop, Evict, Settled
  <2> QED
    BY <1>1, <2>2, <2>3, <2>4, <2>5
<1>2. CASE Finish \/ Throw
  <2>1. QueueTypeOK'
    BY <1>2, QueueStep DEF Finish, Throw
  <2> QED
    BY <1>2, <2>1 DEF Finish, Throw, WorkerIdles
<1>3. CASE Crash
  BY <1>3 DEF Crash, WorkerIdles, queueVars, QueueTypeOK
<1>4. CASE Load
  BY <1>4 DEF Load, queueVars, QueueTypeOK, Tickets, PolicyRows, Matching
<1>5. ASSUME NEW t \in todo, Skip(t) \/ Select(t) PROVE TypeInv'
  BY <1>5 DEF Skip, Select, queueVars, QueueTypeOK
<1>6. CASE BeginEarn
  BY <1>6 DEF BeginEarn, queueVars, QueueTypeOK
<1>7. ASSUME NEW n \in Amounts, CommitEarn(n) PROVE TypeInv'
  <2>1. Row(EventMember[job], cur.policy, job, n, "queue", cur.once) \in Rows
    BY <1>7 DEF CommitEarn, Row, Rows, Refs, Tickets
  <2> QED
    BY <1>7, <2>1 DEF CommitEarn, queueVars, QueueTypeOK
<1>8. ASSUME NEW next \in {"check", "notify"}, MarkDone(next) PROVE TypeInv'
  <2>1. RedisKey(cur, job) \in Keys
    BY <1>8 DEF MarkDone, RedisKey, Keys, Tickets
  <2> QED
    BY <1>8, <2>1 DEF MarkDone, queueVars, QueueTypeOK
<1>9. CASE Notify
  BY <1>9 DEF Notify, queueVars, QueueTypeOK
<1>10. ASSUME NEW k \in redis, Expire(k) PROVE TypeInv'
  BY <1>10 DEF Expire, queueVars, QueueTypeOK
<1>11. ASSUME NEW m \in Members, NEW p \in Policies \cup {None}, NEW ref \in Refs,
              NEW n \in Amounts, ManualEarn(m, p, ref, n)
       PROVE  TypeInv'
  <2>1. PICK row \in Rows : ledger' = Append(ledger, row)
    BY <1>11, ManualRow
  <2>2. ledger' \in Seq(Rows)
    BY <2>1
  <2>3. UNCHANGED <<queueVars, dbVars, redis, workerVars>>
    BY <1>11 DEF ManualEarn
  <2> QED
    BY <2>2, <2>3 DEF queueVars, QueueTypeOK
<1>12. ASSUME NEW p \in Policies, NEW row \in PolicyRows, UpdatePolicy(p, row)
       PROVE  TypeInv'
  BY <1>12 DEF UpdatePolicy, queueVars, QueueTypeOK
<1>13. ASSUME NEW a \in ActionTypes, NEW b \in BOOLEAN, UpdateActionType(a, b)
       PROVE  TypeInv'
  BY <1>13 DEF UpdateActionType, queueVars, QueueTypeOK
<1>14. CASE UNCHANGED processorVars
  BY <1>14 DEF processorVars, queueVars, QueueTypeOK
<1> QED
  BY <1>1, <1>2, <1>3, <1>4, <1>5, <1>6, <1>7, <1>8, <1>9, <1>10, <1>11, <1>12,
     <1>13, <1>14 DEF ProcessorNext

(* All variables of a reward queue keep their types.                       *)
THEOREM ProcessorTypes == ProcessorSpec => []ProcessorTypeOK
<1>1. TypeInv => ProcessorTypeOK
  BY DEF TypeInv
<1> QED
  BY <1>1, TypeInit, TypeStep, PTL DEF ProcessorSpec

-------------------------------------------------------------------------------
(* No step rewrites a transaction.                                         *)
LedgerKept ==
    /\ DOMAIN ledger \subseteq DOMAIN ledger'
    /\ \A i \in DOMAIN ledger : ledger'[i] = ledger[i]

LEMMA LedgerAppends ==
    ASSUME TypeInv, [ProcessorNext]_processorVars
    PROVE  UNCHANGED ledger \/ \E row \in Rows : ledger' = Append(ledger, row)
<1> USE DEF TypeInv, ProcessorTypeOK, WorkerTypeOK
<1>1. ASSUME NEW n \in Amounts, CommitEarn(n)
      PROVE  \E row \in Rows : ledger' = Append(ledger, row)
  BY <1>1 DEF CommitEarn, Row, Rows, Refs, Tickets
<1>2. ASSUME NEW m \in Members, NEW p \in Policies \cup {None}, NEW ref \in Refs,
             NEW n \in Amounts, ManualEarn(m, p, ref, n)
      PROVE  \E row \in Rows : ledger' = Append(ledger, row)
  BY <1>2, ManualRow
<1> QED
  BY <1>1, <1>2 DEF ProcessorNext, processorVars, Enqueue, Take, Requeue, Drop, Load,
     BeginEarn, Finish, Throw, Crash, Notify, Skip, Select, MarkDone, Expire,
     UpdatePolicy, UpdateActionType

LEMMA LedgerStep ==
    ASSUME TypeInv, [ProcessorNext]_processorVars
    PROVE  LedgerKept
<1>1. ledger \in Seq(Rows)
  BY DEF TypeInv, ProcessorTypeOK
<1>2. CASE UNCHANGED ledger
  BY <1>2 DEF LedgerKept
<1>3. ASSUME NEW row \in Rows, ledger' = Append(ledger, row) PROVE LedgerKept
  BY <1>1, <1>3 DEF LedgerKept
<1> QED
  BY <1>2, <1>3, LedgerAppends

(* Between the dedup check and the commit nobody else pays for the queue.  *)
CurFresh ==
    pc \in {"earn", "commit"} =>
        \A i \in DOMAIN ledger :
            ledger[i].by = "queue" /\ ledger[i].member = EventMember[job]
                /\ ledger[i].policy = cur.policy
            => ~cur.once /\ ledger[i].ref # job

LEMMA CurFreshStep ==
    TypeInv /\ CurFresh /\ [ProcessorNext]_processorVars => CurFresh'
<1> SUFFICES ASSUME TypeInv, CurFresh, [ProcessorNext]_processorVars,
                    pc' \in {"earn", "commit"}
             PROVE  CurFresh'
  BY DEF CurFresh
<1> USE DEF TypeInv, ProcessorTypeOK, WorkerTypeOK, workerVars, CurFresh
<1>1. ASSUME NEW t \in todo, Select(t) PROVE CurFresh'
  BY <1>1 DEF Select, AlreadyRewarded, InLedger
<1>2. CASE BeginEarn
  BY <1>2 DEF BeginEarn
<1>3. ASSUME NEW m \in Members, NEW p \in Policies \cup {None}, NEW ref \in Refs,
             NEW n \in Amounts, ManualEarn(m, p, ref, n)
      PROVE  CurFresh'
  <2>1. PICK row \in Rows : ledger' = Append(ledger, row) /\ row.by = "http"
    BY <1>3, ManualRow
  <2>2. UNCHANGED <<pc, job, cur>>
    BY <1>3 DEF ManualEarn
  <2>3. \A i \in DOMAIN ledger' : \/ ledger'[i].by = "http"
                                  \/ i \in DOMAIN ledger /\ ledger'[i] = ledger[i]
    BY <2>1
  <2> QED
    BY <2>2, <2>3
<1>4. CASE UNCHANGED <<ledger, pc, job, cur>>
  BY <1>4
<1> QED
  BY <1>1, <1>2, <1>3, <1>4
     DEF ProcessorNext, processorVars, Enqueue, Take, Requeue, Drop, Load, Finish, Throw,
         Crash, WorkerIdles, Skip, CommitEarn, MarkDone, Notify, Expire, UpdatePolicy,
         UpdateActionType

(* Every step of the queue is a step of the abstract ledger, or none.      *)
LEMMA LedgerSimulated ==
    TypeInv /\ CurFresh /\ [ProcessorNext]_processorVars => [Ledger!Next]_ledger
<1> SUFFICES ASSUME TypeInv, CurFresh, [ProcessorNext]_processorVars
             PROVE  [Ledger!Next]_ledger
  OBVIOUS
<1> USE DEF TypeInv, ProcessorTypeOK, WorkerTypeOK
<1>1. ASSUME NEW n \in Amounts, CommitEarn(n) PROVE Ledger!Next
  <2> DEFINE row == Row(EventMember[job], cur.policy, job, n, "queue", cur.once)
  <2>1. row \in Rows /\ row.by = "queue"
    BY <1>1 DEF CommitEarn, Row, Rows, Refs, Tickets
  <2>2. \A i \in DOMAIN ledger : ~Ledger!Duplicates(ledger[i], row)
    BY <1>1 DEF CommitEarn, CurFresh, Ledger!Duplicates, Row
  <2>3. Ledger!Pay(row)
    BY <1>1, <2>1, <2>2 DEF CommitEarn, Ledger!Pay
  <2> QED
    BY <2>1, <2>3 DEF Ledger!Next
<1>2. ASSUME NEW m \in Members, NEW p \in Policies \cup {None}, NEW ref \in Refs,
             NEW n \in Amounts, ManualEarn(m, p, ref, n)
      PROVE  Ledger!Next
  BY <1>2, ManualRow DEF Ledger!Next, Ledger!Book
<1>3. CASE UNCHANGED ledger
  BY <1>3
<1> QED
  BY <1>1, <1>2, <1>3
     DEF ProcessorNext, processorVars, Enqueue, Take, Requeue, Drop, Load, BeginEarn, Finish,
         Throw, Crash, Skip, Select, MarkDone, Notify, Expire, UpdatePolicy, UpdateActionType

(* A reward queue implements the abstract ledger.                          *)
THEOREM ProcessorRefinesLedger == ProcessorSpec => LedgerSpec
<1>1. ProcessorInit => TypeInv /\ CurFresh /\ Ledger!Init
  BY TypeInit DEF ProcessorInit, CurFresh, Ledger!Init
<1> QED
  BY <1>1, TypeStep, CurFreshStep, LedgerSimulated, PTL
     DEF ProcessorSpec, LedgerSpec, Ledger!Spec

(* The guard of Pay is enough: the abstract ledger never pays twice.       *)
THEOREM LedgerSafe == Ledger!Spec => []Ledger!NoDoublePay
<1> DEFINE IInv == ledger \in Seq(Rows) /\ Ledger!NoDoublePay
<1>1. Ledger!Init => IInv
  BY DEF Ledger!Init, Ledger!NoDoublePay
<1>2. IInv /\ [Ledger!Next]_ledger => IInv'
  <2> SUFFICES ASSUME IInv, [Ledger!Next]_ledger PROVE IInv'
    OBVIOUS
  <2>1. CASE UNCHANGED ledger
    BY <2>1 DEF Ledger!NoDoublePay
  <2>2. ASSUME NEW row \in Rows, Ledger!Pay(row) PROVE IInv'
    BY <2>2 DEF Ledger!Pay, Ledger!NoDoublePay, Ledger!Duplicates
  <2>3. ASSUME NEW row \in Rows, Ledger!Book(row) PROVE IInv'
    BY <2>3 DEF Ledger!Book, Ledger!NoDoublePay, Ledger!Duplicates
  <2> QED
    BY <2>1, <2>2, <2>3 DEF Ledger!Next
<1> QED
  BY <1>1, <1>2, PTL DEF Ledger!Spec

(* The queue pays no event twice under one policy, and no member twice     *)
(* under a one-time policy (point.processor.ts:17-18).                     *)
THEOREM PaidAtMostOnce == ProcessorSpec => []NoDoublePay
BY ProcessorRefinesLedger, LedgerSafe, PTL DEF NoDoublePay, LedgerSpec

-------------------------------------------------------------------------------
(* What markDone() relies on: the row it is about to vouch for is there.   *)
CurPaid ==
    pc = "mark" => \E i \in DOMAIN ledger : /\ ledger[i].member = EventMember[job]
                                            /\ ledger[i].policy = cur.policy
                                            /\ ledger[i].ref = job

LEMMA CurPaidStep ==
    TypeInv /\ CurPaid /\ [ProcessorNext]_processorVars => CurPaid'
<1> SUFFICES ASSUME TypeInv, CurPaid, [ProcessorNext]_processorVars, pc' = "mark"
             PROVE  CurPaid'
  BY DEF CurPaid
<1> USE DEF TypeInv, ProcessorTypeOK, WorkerTypeOK
<1>1. ASSUME NEW n \in Amounts, CommitEarn(n) PROVE CurPaid'
  <2>1. /\ ledger'[Len(ledger) + 1].member = EventMember[job]
        /\ ledger'[Len(ledger) + 1].policy = cur.policy
        /\ ledger'[Len(ledger) + 1].ref = job
        /\ Len(ledger) + 1 \in DOMAIN ledger'
    BY <1>1 DEF CommitEarn, Row
  <2> QED
    BY <1>1, <2>1 DEF CommitEarn, CurPaid
<1>2. CASE UNCHANGED <<pc, job, cur>>
  BY <1>2, LedgerStep DEF LedgerKept, CurPaid
<1> QED
  BY <1>1, <1>2
     DEF ProcessorNext, processorVars, workerVars, Enqueue, Take, Requeue, Drop, Load,
         BeginEarn, Finish, Throw, Crash, WorkerIdles, Skip, Select, MarkDone, Notify, Expire,
         ManualEarn, UpdatePolicy, UpdateActionType

LEMMA RedisStep ==
    TypeInv /\ CurPaid /\ RedisOnlyIfPaid /\ [ProcessorNext]_processorVars
        => RedisOnlyIfPaid'
<1> SUFFICES ASSUME TypeInv, CurPaid, RedisOnlyIfPaid, [ProcessorNext]_processorVars
             PROVE  RedisOnlyIfPaid'
  OBVIOUS
<1>1. LedgerKept
  BY LedgerStep
<1>2. ASSUME NEW next \in {"check", "notify"}, MarkDone(next) PROVE RedisOnlyIfPaid'
  <2>1. /\ pc = "mark" /\ ledger' = ledger /\ job \in Events /\ cur \in Tickets
        /\ redis' = redis \cup {RedisKey(cur, job)}
    BY <1>2 DEF MarkDone, TypeInv, WorkerTypeOK
  <2>2. ASSUME NEW p \in Policies, NEW m \in Members, OnceKey(p, m) \in redis'
        PROVE  \E i \in DOMAIN ledger : ledger[i].member = m /\ ledger[i].policy = p
    <3>1. CASE OnceKey(p, m) \in redis
      BY <3>1 DEF RedisOnlyIfPaid
    <3>2. CASE OnceKey(p, m) = RedisKey(cur, job)
      <4>1. cur.policy = p /\ EventMember[job] = m
        BY <3>2 DEF RedisKey, OnceKey, DoneKey
      <4> QED
        BY <2>1, <4>1 DEF CurPaid
    <3> QED
      BY <2>1, <2>2, <3>1, <3>2
  <2>3. ASSUME NEW p \in Policies, NEW e \in Events, DoneKey(p, e) \in redis'
        PROVE  \E i \in DOMAIN ledger : /\ ledger[i].member = EventMember[e]
                                        /\ ledger[i].policy = p /\ ledger[i].ref = e
    <3>1. CASE DoneKey(p, e) \in redis
      BY <3>1 DEF RedisOnlyIfPaid
    <3>2. CASE DoneKey(p, e) = RedisKey(cur, job)
      <4>1. cur.policy = p /\ job = e
        BY <3>2 DEF RedisKey, OnceKey, DoneKey
      <4> QED
        BY <2>1, <4>1 DEF CurPaid
    <3> QED
      BY <2>1, <2>3, <3>1, <3>2
  <2> QED
    BY <2>1, <2>2, <2>3 DEF RedisOnlyIfPaid
<1>3. CASE redis' \subseteq redis
  BY <1>1, <1>3 DEF LedgerKept, RedisOnlyIfPaid
<1> QED
  BY <1>2, <1>3
     DEF ProcessorNext, processorVars, dbVars, workerVars, Enqueue, Take, Requeue, Drop, Load,
         BeginEarn, Finish, Throw, Crash, Skip, Select, CommitEarn, Notify, Expire,
         ManualEarn, UpdatePolicy, UpdateActionType

(* A dedup key vouches only for a row that is there                        *)
(* (point.processor.ts:103).                                               *)
THEOREM RedisHonest == ProcessorSpec => []RedisOnlyIfPaid
<1>1. ProcessorInit => TypeInv /\ CurPaid /\ RedisOnlyIfPaid
  BY TypeInit DEF ProcessorInit, CurPaid, RedisOnlyIfPaid
<1> QED
  BY <1>1, TypeStep, CurPaidStep, RedisStep, PTL DEF ProcessorSpec

-------------------------------------------------------------------------------
(* While nobody edits the policies, the loop loses none of them: a policy  *)
(* the job matches is paid, still to come, or the one at hand.             *)
Covered(p) ==
    \/ InLedger([policy |-> p, once |-> policies[p].oneTime], job)
    \/ \E t \in todo : t.policy = p /\ t.once = policies[p].oneTime
    \/ /\ pc \in {"earn", "commit", "mark"}
       /\ cur.policy = p /\ cur.once = policies[p].oneTime

NonePassedOver ==
    edits = 0 /\ pc \in {"check", "earn", "commit", "mark", "notify"}
        => \A p \in Matching(job) : Covered(p)

(* A policy once paid stays paid.                                          *)
LEMMA PaidStays ==
    ASSUME LedgerKept, UNCHANGED policies, NEW p, NEW e,
           InLedger([policy |-> p, once |-> policies[p].oneTime], e)
    PROVE  InLedger([policy |-> p, once |-> policies[p].oneTime], e)'
BY DEF LedgerKept, InLedger

LEMMA NonePassedOverStep ==
    TypeInv /\ CurPaid /\ RedisOnlyIfPaid /\ NonePassedOver /\ [ProcessorNext]_processorVars
        => NonePassedOver'
<1> SUFFICES ASSUME TypeInv, CurPaid, RedisOnlyIfPaid, NonePassedOver,
                    [ProcessorNext]_processorVars,
                    edits' = 0, pc' \in {"check", "earn", "commit", "mark", "notify"},
                    NEW p \in Matching(job)'
             PROVE  Covered(p)'
  BY DEF NonePassedOver
<1> USE DEF TypeInv, ProcessorTypeOK, WorkerTypeOK
<1>1. LedgerKept
  BY LedgerStep
<1>2. CASE Load
  <2>1. p \in Matching(job)
    BY <1>2 DEF Load, Matching, dbVars
  <2>2. [policy |-> p, once |-> policies[p].oneTime, amount |-> policies[p].amount] \in todo'
    BY <1>2, <2>1 DEF Load
  <2> QED
    BY <1>2, <2>2 DEF Load, dbVars, Covered
<1>3. ASSUME pc \in {"check", "earn", "commit", "mark", "notify"},
             UNCHANGED <<job, catalog, policies, edits>>
      PROVE  Covered(p)'
  <2>1. edits = 0 /\ p \in Matching(job) /\ p \in Policies
    BY <1>3 DEF Matching
  <2>2. Covered(p)
    BY <1>3, <2>1 DEF NonePassedOver
  <2>3. CASE InLedger([policy |-> p, once |-> policies[p].oneTime], job)
    BY <1>1, <1>3, <2>3, PaidStays DEF Covered
  <2>4. ASSUME NEW t \in todo, Skip(t) PROVE Covered(p)'
    <3>1. CASE t.policy = p /\ t.once = policies[p].oneTime
      <4>1. InLedger(t, job)
        <5>1. RedisKey(t, job) \in redis \/ InLedger(t, job)
          BY <2>4 DEF Skip, AlreadyRewarded
        <5>2. CASE RedisKey(t, job) \in redis /\ t.once
          BY <2>1, <3>1, <5>2 DEF RedisKey, RedisOnlyIfPaid, InLedger
        <5>3. CASE RedisKey(t, job) \in redis /\ ~t.once
          BY <2>1, <3>1, <5>3 DEF RedisKey, RedisOnlyIfPaid, InLedger
        <5> QED
          BY <5>1, <5>2, <5>3
      <4>2. InLedger([policy |-> p, once |-> policies[p].oneTime], job)
        BY <3>1, <4>1 DEF InLedger
      <4> QED
        BY <2>3, <4>2
    <3>2. CASE ~(t.policy = p /\ t.once = policies[p].oneTime)
      BY <1>3, <2>2, <2>3, <2>4, <3>2 DEF Skip, Covered
    <3> QED
      BY <3>1, <3>2
  <2>5. ASSUME NEW t \in todo, Select(t) PROVE Covered(p)'
    BY <1>3, <2>2, <2>3, <2>5 DEF Select, Covered
  <2>6. ASSUME NEW next \in {"check", "notify"}, MarkDone(next) PROVE Covered(p)'
    <3>1. CASE cur.policy = p /\ cur.once = policies[p].oneTime
      BY <2>3, <2>6, <3>1 DEF MarkDone, CurPaid, InLedger
    <3>2. CASE \E t \in todo : t.policy = p /\ t.once = policies[p].oneTime
      BY <1>3, <2>6, <3>2 DEF MarkDone, Covered
    <3> QED
      BY <2>2, <2>3, <2>6, <3>1, <3>2 DEF Covered
  <2>7. CASE BeginEarn \/ Notify \/ \E n \in Amounts : CommitEarn(n)
    BY <1>3, <2>2, <2>3, <2>7 DEF BeginEarn, Notify, CommitEarn, Covered
  <2>8. CASE UNCHANGED workerVars
    BY <1>3, <2>2, <2>3, <2>8 DEF workerVars, Covered
  <2> QED
    BY <1>3, <2>4, <2>5, <2>6, <2>7, <2>8
       DEF ProcessorNext, processorVars, Enqueue, Take, Requeue, Drop, Load, Finish, Throw,
           Crash, WorkerIdles, Expire, ManualEarn, UpdatePolicy, UpdateActionType
<1>4. \A n \in 0 .. MaxEdits : n + 1 # 0
  OBVIOUS
<1>5. CASE UNCHANGED dbVars
  BY <1>2, <1>3, <1>5
     DEF dbVars, ProcessorNext, processorVars, workerVars, Enqueue, Take, Requeue, Drop, Finish,
         Throw, Crash, WorkerIdles, Skip, Select, BeginEarn, CommitEarn, MarkDone, Notify,
         Expire, ManualEarn, UpdatePolicy, UpdateActionType
<1> QED
  BY <1>4, <1>5
     DEF ProcessorNext, processorVars, Enqueue, Take, Requeue, Drop, Load, BeginEarn, Finish,
         Throw, Crash, Notify, Skip, Select, CommitEarn, MarkDone, Expire, ManualEarn,
         UpdatePolicy, UpdateActionType

LEMMA CompletedStep ==
    TypeInv /\ NonePassedOver /\ CompletedMeansPaid /\ [ProcessorNext]_processorVars
        => CompletedMeansPaid'
<1> SUFFICES ASSUME TypeInv, NonePassedOver, CompletedMeansPaid,
                    [ProcessorNext]_processorVars,
                    edits' = 0, NEW e \in Events, jobState'[e] = "completed",
                    NEW p \in Matching(e)'
             PROVE  InLedger([policy |-> p, once |-> policies[p].oneTime], e)'
  BY DEF CompletedMeansPaid, Paid
<1> USE DEF TypeInv, ProcessorTypeOK, WorkerTypeOK
<1>1. UNCHANGED dbVars
  <2>1. \A n \in 0 .. MaxEdits : n + 1 # 0
    OBVIOUS
  <2> QED
    BY <2>1
       DEF ProcessorNext, processorVars, Enqueue, Take, Requeue, Drop, Load, BeginEarn,
           Finish, Throw, Crash, Notify, Skip, Select, CommitEarn, MarkDone, Expire,
           ManualEarn, UpdatePolicy, UpdateActionType
<1>2. edits = 0 /\ p \in Matching(e) /\ UNCHANGED policies
  BY <1>1 DEF dbVars, Matching
<1>3. InLedger([policy |-> p, once |-> policies[p].oneTime], e)
  <2>1. CASE jobState[e] = "completed"
    BY <1>2, <2>1 DEF CompletedMeansPaid, Paid
  <2>2. CASE Finish /\ e = job
    BY <1>2, <2>2 DEF Finish, NonePassedOver, Covered
  <2>3. CASE UNCHANGED queueVars
    BY <2>1, <2>3 DEF queueVars
  <2>4. CASE (Finish /\ e # job) \/ Throw
    BY <2>1, <2>4 DEF Finish, Throw, Complete, FailAttempt, Settle, QueueTypeOK
  <2>5. ASSUME NEW f \in Events, Enqueue(f) \/ Take(f) \/ Requeue(f) \/ Drop(f)
        PROVE  jobState[e] = "completed"
    BY <2>5 DEF Enqueue, Take, Requeue, Drop, Add, Activate, Promote, Stall, Evict, Settle,
                QueueTypeOK
  <2> QED
    BY <2>1, <2>2, <2>3, <2>4, <2>5
       DEF ProcessorNext, processorVars, Load, BeginEarn, Crash, Notify, Skip, Select,
           CommitEarn, MarkDone, Expire, ManualEarn, UpdatePolicy, UpdateActionType
<1> QED
  BY <1>2, <1>3, LedgerStep, PaidStays

(* However many attempts, stalls and crashes it took, a completed job left *)
(* no policy it matches unpaid.                                            *)
THEOREM CompletedJobsPaid == ProcessorSpec => []CompletedMeansPaid
<1>1. ProcessorInit => /\ TypeInv /\ CurPaid /\ RedisOnlyIfPaid
                       /\ NonePassedOver /\ CompletedMeansPaid
  BY TypeInit DEF ProcessorInit, QueueInit, CurPaid, RedisOnlyIfPaid, NonePassedOver,
                  CompletedMeansPaid
<1> QED
  BY <1>1, TypeStep, CurPaidStep, RedisStep, NonePassedOverStep, CompletedStep, PTL
     DEF ProcessorSpec

-------------------------------------------------------------------------------
(* Induction over the naturals, said of sets: a set that holds 0 and the   *)
(* successor of each of its numbers holds them all.                        *)
LEMMA Least ==
    ASSUME NEW S \in SUBSET Nat, S # {}
    PROVE  \E n \in S : \A k \in S : n <= k
<1> DEFINE R == OpToRel(<, Nat)
<1>1. IsWellFoundedOn(R, Nat)
  BY NatLessThanWellFounded
<1>2. \A x, y \in Nat : y < x => <<y, x>> \in R
  BY DEF OpToRel
<1> HIDE DEF R
<1>3. PICK n \in S : \A k \in S : <<k, n>> \notin R
  BY <1>1, WFMin
<1>4. \A k \in S : ~(k < n)
  BY <1>2, <1>3
<1> QED
  BY <1>3, <1>4

LEMMA Induction ==
    ASSUME NEW S, 0 \in S, \A n \in Nat : n \in S => n + 1 \in S
    PROVE  Nat \subseteq S
<1> SUFFICES ASSUME Nat \ S # {} PROVE FALSE
  OBVIOUS
<1>1. PICK n \in Nat \ S : \A k \in Nat \ S : n <= k
  BY Least
<1>2. n - 1 \in Nat /\ n - 1 \in S
  BY <1>1
<1> QED
  BY <1>1, <1>2

(* The running sums of a ledger exist, so what EarnedIn chooses is them.   *)
Sums(rows, m, g) ==
    g = [n \in 0 .. Len(rows) |-> IF n = 0 THEN 0 ELSE g[n - 1] + Credit(rows[n], m)]

LEMMA CreditType == \A row \in Rows : \A m : Credit(row, m) \in Nat
BY DEF Credit, Rows

LEMMA SumsExist ==
    ASSUME NEW rows \in Seq(Rows), NEW m
    PROVE  \E g : Sums(rows, m, g)
<1> DEFINE c(n) == Credit(rows[n], m)
           Upto(k, g) == g = [n \in 0 .. k |-> IF n = 0 THEN 0 ELSE g[n - 1] + c(n)]
           S == {k \in Nat : \E g : Upto(k, g)}
<1>1. 0 \in S
  <2>1. Upto(0, [n \in 0 .. 0 |-> 0])
    OBVIOUS
  <2> HIDE DEF Upto
  <2> QED
    BY <2>1
<1>2. ASSUME NEW k \in Nat, k \in S PROVE k + 1 \in S
  <2>1. PICK g : Upto(k, g)
    BY <1>2
  <2> DEFINE h == [n \in 0 .. k + 1 |-> IF n = k + 1 THEN g[k] + c(k + 1) ELSE g[n]]
  <2> HIDE DEF c
  <2>2. ASSUME NEW n \in 0 .. k + 1
        PROVE  h[n] = IF n = 0 THEN 0 ELSE h[n - 1] + c(n)
    <3>1. CASE n = k + 1
      BY <3>1
    <3>2. CASE n # k + 1
      <4>1. n \in 0 .. k /\ h[n] = g[n]
        BY <3>2
      <4>2. g[n] = IF n = 0 THEN 0 ELSE g[n - 1] + c(n)
        BY <2>1, <4>1
      <4>3. n # 0 => n - 1 \in 0 .. k + 1 /\ n - 1 # k + 1 /\ h[n - 1] = g[n - 1]
        BY <4>1
      <4> QED
        BY <4>1, <4>2, <4>3
    <3> QED
      BY <3>1, <3>2
  <2>3. Upto(k + 1, h)
    BY <2>2
  <2> HIDE DEF Upto, h
  <2> QED
    BY <2>3
<1> HIDE DEF S
<1>3. Len(rows) \in S
  BY <1>1, <1>2, Induction
<1> HIDE DEF Upto
<1>4. PICK g : Upto(Len(rows), g)
  BY <1>3 DEF S
<1>5. Sums(rows, m, g)
  BY <1>4, Zenon DEF Sums, Upto
<1> QED
  BY <1>5

LEMMA EarnedIsSum ==
    ASSUME NEW rows \in Seq(Rows), NEW m
    PROVE  \E g : Sums(rows, m, g) /\ EarnedIn(rows, m) = g[Len(rows)]
<1> DEFINE F == CHOOSE g : Sums(rows, m, g)
<1>1. Sums(rows, m, F)
  BY SumsExist, Zenon
<1>2. EarnedIn(rows, m) = F[Len(rows)]
  BY Zenon DEF EarnedIn, Sums
<1> QED
  BY <1>1, <1>2

(* The first sums do not depend on the rows that follow.                   *)
LEMMA SumsAgree ==
    ASSUME NEW rows \in Seq(Rows), NEW row \in Rows, NEW m, NEW g, NEW h,
           Sums(rows, m, g), Sums(Append(rows, row), m, h)
    PROVE  /\ \A n \in 0 .. Len(rows) : g[n] = h[n] /\ g[n] \in Nat
           /\ h[Len(rows) + 1] = g[Len(rows)] + Credit(row, m)
<1> DEFINE S == {n \in Nat : n <= Len(rows) => g[n] = h[n] /\ g[n] \in Nat}
           longer == Append(rows, row)
<1>1. /\ Len(longer) = Len(rows) + 1 /\ longer[Len(rows) + 1] = row
      /\ \A n \in 1 .. Len(rows) : longer[n] = rows[n] /\ rows[n] \in Rows
      /\ Len(rows) \in Nat
  OBVIOUS
<1> HIDE DEF longer
<1>2. ASSUME NEW n \in 0 .. Len(rows)
      PROVE  /\ g[n] = IF n = 0 THEN 0 ELSE g[n - 1] + Credit(rows[n], m)
             /\ h[n] = IF n = 0 THEN 0 ELSE h[n - 1] + Credit(longer[n], m)
  <2>1. n \in 0 .. Len(longer)
    BY <1>1
  <2> QED
    BY <2>1 DEF Sums, longer
<1>3. 0 \in S
  BY <1>1, <1>2
<1>4. ASSUME NEW n \in Nat, n \in S PROVE n + 1 \in S
  <2> SUFFICES ASSUME n + 1 <= Len(rows) PROVE g[n + 1] = h[n + 1] /\ g[n + 1] \in Nat
    OBVIOUS
  <2>1. g[n] = h[n] /\ g[n] \in Nat
    BY <1>4, <1>1
  <2>2. /\ g[n + 1] = g[n] + Credit(rows[n + 1], m)
        /\ h[n + 1] = h[n] + Credit(longer[n + 1], m)
    BY <1>1, <1>2
  <2>3. longer[n + 1] = rows[n + 1] /\ Credit(rows[n + 1], m) \in Nat
    BY <1>1, CreditType
  <2> QED
    BY <2>1, <2>2, <2>3
<1>5. Nat \subseteq S
  <2> HIDE DEF S
  <2> QED
    BY <1>3, <1>4, Induction
<1>6. \A n \in 0 .. Len(rows) : g[n] = h[n] /\ g[n] \in Nat
  BY <1>1, <1>5
<1>7. h[Len(rows) + 1] = h[Len(rows)] + Credit(row, m)
  <2>1. Len(rows) + 1 \in 0 .. Len(longer)
    BY <1>1
  <2>2. h[Len(rows) + 1] = h[Len(rows) + 1 - 1] + Credit(longer[Len(rows) + 1], m)
    BY <1>1, <2>1 DEF Sums, longer
  <2> QED
    BY <1>1, <2>2
<1> QED
  BY <1>1, <1>6, <1>7

(* What a member has earned: nothing at first, a number always, and more   *)
(* by its amount with each of the member's rows.                           *)
LEMMA EarnedEmpty == \A m : EarnedIn(<<>>, m) = 0
<1> TAKE m
<1>1. <<>> \in Seq(Rows) /\ Len(<<>>) = 0
  OBVIOUS
<1>2. PICK g : Sums(<<>>, m, g) /\ EarnedIn(<<>>, m) = g[0]
  BY <1>1, EarnedIsSum
<1> QED
  BY <1>1, <1>2 DEF Sums

LEMMA EarnedAppend ==
    ASSUME NEW rows \in Seq(Rows), NEW row \in Rows, NEW m
    PROVE  EarnedIn(Append(rows, row), m) = EarnedIn(rows, m) + Credit(row, m)
<1>1. Append(rows, row) \in Seq(Rows) /\ Len(Append(rows, row)) = Len(rows) + 1 /\ Len(rows) \in Nat
  OBVIOUS
<1>2. PICK g : Sums(rows, m, g) /\ EarnedIn(rows, m) = g[Len(rows)]
  BY EarnedIsSum
<1>3. PICK h : Sums(Append(rows, row), m, h) /\ EarnedIn(Append(rows, row), m) = h[Len(rows) + 1]
  BY <1>1, EarnedIsSum
<1> QED
  BY <1>2, <1>3, SumsAgree

LEMMA EarnedType ==
    ASSUME NEW rows \in Seq(Rows), NEW m
    PROVE  EarnedIn(rows, m) \in Nat
<1>1. CASE rows = <<>>
  BY <1>1, EarnedEmpty
<1>2. CASE rows # <<>>
  <2>1. rows[1] \in Rows /\ Append(rows, rows[1]) \in Seq(Rows) /\ Len(rows) \in 0 .. Len(rows)
    BY <1>2
  <2>2. PICK g : Sums(rows, m, g) /\ EarnedIn(rows, m) = g[Len(rows)]
    BY EarnedIsSum
  <2>3. PICK h : Sums(Append(rows, rows[1]), m, h)
    BY <2>1, SumsExist
  <2> QED
    BY <2>1, <2>2, <2>3, SumsAgree
<1> QED
  BY <1>1, <1>2

(* No step takes anything from what a member has earned.                   *)
LEMMA EarnedStep ==
    ASSUME TypeInv, [ProcessorNext]_processorVars, NEW m
    PROVE  Earned(m) \in Nat /\ Earned(m)' \in Nat /\ Earned(m) <= Earned(m)'
<1>1. UNCHANGED ledger \/ \E row \in Rows : ledger' = Append(ledger, row)
  BY LedgerAppends
<1>2. ledger \in Seq(Rows) /\ EarnedIn(ledger, m) \in Nat
  BY EarnedType DEF TypeInv, ProcessorTypeOK
<1>3. CASE UNCHANGED ledger
  BY <1>2, <1>3 DEF Earned
<1>4. ASSUME NEW row \in Rows, ledger' = Append(ledger, row)
      PROVE  Earned(m)' \in Nat /\ Earned(m) <= Earned(m)'
  <2>1. EarnedIn(Append(ledger, row), m) = EarnedIn(ledger, m) + Credit(row, m)
    BY <1>2, EarnedAppend
  <2>2. Credit(row, m) \in Nat
    BY CreditType
  <2> QED
    BY <1>2, <1>4, <2>1, <2>2 DEF Earned
<1> QED
  BY <1>1, <1>2, <1>3, <1>4 DEF Earned

(* A payment of either caller of earn() adds its amount for its member.    *)
LEMMA EarnedPaid ==
    ASSUME TypeInv, NEW m \in Members, NEW p \in Policies \cup {None}, NEW ref \in Refs,
           NEW n \in Amounts, NEW by \in {"queue", "http"}, NEW once \in BOOLEAN,
           ledger' = Append(ledger, Row(m, p, ref, n, by, once))
    PROVE  \A k : Earned(k)' = Earned(k) + (IF k = m THEN n ELSE 0)
<1> DEFINE row == Row(m, p, ref, n, by, once)
<1>1. ledger \in Seq(Rows) /\ row \in Rows
  BY DEF TypeInv, ProcessorTypeOK, Row, Rows
<1>2. row.member = m /\ row.amount = n /\ n \in Nat
  BY DEF Row
<1> HIDE DEF row
<1>3. ASSUME NEW k PROVE Earned(k)' = Earned(k) + (IF k = m THEN n ELSE 0)
  <2>1. EarnedIn(Append(ledger, row), k) = EarnedIn(ledger, k) + Credit(row, k)
    BY <1>1, EarnedAppend
  <2> QED
    BY <1>2, <2>1 DEF Earned, Credit, row
<1> QED
  BY <1>3

===============================================================================

---------------------------- MODULE RewardProcessor ----------------------------
(***************************************************************************)
(* What PointProcessor and XpProcessor have in common: the single worker   *)
(* of a reward queue takes a job, reads the catalog and the active         *)
(* policies of the event, and pays each policy after asking Redis and then *)
(* the database whether it was paid before.  PointRewards and XpRewards    *)
(* extend this module with their wallet.                                   *)
(*                                                                         *)
(* A reward event stands for one (refType, refAction, refId, memberId)     *)
(* payload: refId is the primary key of the row whose creation is          *)
(* rewarded, so it fixes the member and the action type.                   *)
(***************************************************************************)
EXTENDS JobQueue, Sequences

CONSTANTS
    Members, ActionTypes, Policies, Amounts,
    EventMember,   \* payload.memberId
    EventAction,   \* the action type catalogued for (refType, refAction)
    Applyable,     \* metadata.pointApplyable # false, fixed when the job is added
    PolicyAction,  \* policy.actionType; never updated
    InitialPolicy, \* the policy rows as seeded
    OtherRef,      \* any reference id that is not a reward event
    None,          \* null
    MaxEdits       \* bound on the administrator's changes

Refs       == Events \cup {OtherRef}
PolicyRows == [amount : Amounts, oneTime : BOOLEAN, active : BOOLEAN]

ASSUME ProcessorAssumption ==
    /\ Amounts \subseteq Nat \ {0}
    /\ EventMember \in [Events -> Members]
    /\ EventAction \in [Events -> ActionTypes]
    /\ Applyable \in [Events -> BOOLEAN]
    /\ PolicyAction \in [Policies -> ActionTypes]
    /\ InitialPolicy \in [Policies -> PolicyRows]
    /\ OtherRef \notin Events
    /\ None \notin Events
    /\ MaxEdits \in Nat

VARIABLES
    catalog,    \* DB action types: isActive
    policies,   \* DB earning policies
    ledger,     \* DB transactions in the order they committed
    redis,      \* the dedup keys Redis holds
    edits,      \* administrator changes so far (bounded by MaxEdits)
    pc, job, todo, cur            \* the worker inside process(job)

dbVars        == <<catalog, policies, edits>>
workerVars    == <<pc, job, todo, cur>>
processorVars == <<queueVars, dbVars, ledger, redis, workerVars>>

(* A policy as process() read it; by = "queue" / "http" is not a column,   *)
(* it only tells apart the two callers of earn(); so is once, the flag the *)
(* payment was made under.                                                 *)
Tickets == [policy : Policies, once : BOOLEAN, amount : Amounts]
Rows    == [member : Members, policy : Policies \cup {None}, ref : Refs,
            amount : Amounts, by : {"queue", "http"}, once : BOOLEAN]

(* redisKey(): a one-time policy is keyed by member, a repeating one by    *)
(* the event alone.                                                        *)
OnceKeyOfPolicy(p, m) == <<"once", p, None>>   \* mutant: the key forgets the member
OnceKey(p, m) == <<"once", p, m>>
DoneKey(p, e) == <<"done", p, e>>
RedisKey(t, e) == IF t.once THEN OnceKey(t.policy, EventMember[e])
                            ELSE DoneKey(t.policy, e)
Keys == {OnceKey(p, m) : p \in Policies, m \in Members}
            \cup {DoneKey(p, e) : p \in Policies, e \in Events}

-------------------------------------------------------------------------------
ProcessorInit ==
    /\ QueueInit
    /\ catalog \in [ActionTypes -> BOOLEAN]
    /\ policies = InitialPolicy
    /\ edits = 0
    /\ ledger = <<>>
    /\ redis = {}
    /\ pc = "idle" /\ job = None /\ todo = {} /\ cur = None

WorkerIdles == pc' = "idle" /\ job' = None /\ todo' = {} /\ cur' = None

(* RewardsService.enqueueReward, seen by one of its two queues. *)
Enqueue(e) ==
    /\ Add(e)
    /\ UNCHANGED <<dbVars, ledger, redis, workerVars>>

(* The worker (concurrency 1) takes a job. *)
Take(e) ==
    /\ pc = "idle"
    /\ Activate(e)
    /\ pc' = "load" /\ job' = e
    /\ UNCHANGED <<todo, cur, dbVars, ledger, redis>>

(* The active policies of the event's active action type. *)
Matching(e) ==
    {p \in Policies : /\ Applyable[e] /\ catalog[EventAction[e]]
                      /\ PolicyAction[p] = EventAction[e] /\ policies[p].active}

(* Lines before the loop: with no match the loop below has nothing to do. *)
Load ==
    /\ pc = "load"
    /\ todo' = {[policy |-> p, once |-> policies[p].oneTime,
                 amount |-> policies[p].amount] : p \in Matching(job)}
    /\ pc' = "check"
    /\ UNCHANGED <<job, cur, queueVars, dbVars, ledger, redis>>

(* Mutant: one-time policies are looked up by event like the others. *)
InLedgerByRef(t, e) ==
    \E i \in DOMAIN ledger : /\ ledger[i].member = EventMember[e]
                             /\ ledger[i].policy = t.policy /\ ledger[i].ref = e

(* The lookup in the transaction table that alreadyRewarded() ends with. *)
InLedger(t, e) ==
    \E i \in DOMAIN ledger : /\ ledger[i].member = EventMember[e]
                             /\ ledger[i].policy = t.policy
                             /\ t.once \/ ledger[i].ref = e

InRedisOnly(t, e) == RedisKey(t, e) \in redis   \* mutant: no lookup in the database

AlreadyRewarded(t, e) == RedisKey(t, e) \in redis \/ InLedger(t, e)

(* continue *)
Skip(t) ==
    /\ pc = "check"
    /\ t \in todo /\ AlreadyRewarded(t, job)
    /\ todo' = todo \ {t}
    /\ UNCHANGED <<pc, job, cur, queueVars, dbVars, ledger, redis>>

(* Mutant: markDone() moved before earn(). *)
SelectAndMark(t) ==
    /\ pc = "check"
    /\ t \in todo /\ ~AlreadyRewarded(t, job)
    /\ todo' = todo \ {t} /\ cur' = t
    /\ pc' = "earn"
    /\ redis' = redis \cup {RedisKey(t, job)}
    /\ UNCHANGED <<job, queueVars, dbVars, ledger>>

Select(t) ==
    /\ pc = "check"
    /\ t \in todo /\ ~AlreadyRewarded(t, job)
    /\ todo' = todo \ {t} /\ cur' = t
    /\ pc' = "earn"
    /\ UNCHANGED <<job, queueVars, dbVars, ledger, redis>>

(* earn() has read what its transaction starts from. *)
BeginEarn ==
    /\ pc = "earn"
    /\ pc' = "commit"
    /\ UNCHANGED <<job, todo, cur, queueVars, dbVars, ledger, redis>>

Row(m, p, ref, amount, by, once) ==
    [member |-> m, policy |-> p, ref |-> ref, amount |-> amount, by |-> by, once |-> once]

(* earn()'s transaction commits with this amount in the inserted row. *)
CommitEarn(amount) ==
    /\ pc = "commit"
    /\ ledger' = Append(ledger, Row(EventMember[job], cur.policy, job, amount, "queue", cur.once))
    /\ pc' = "mark"
    /\ UNCHANGED <<job, todo, cur, queueVars, dbVars, redis>>

(* markDone(); the worker goes on at next. *)
MarkDone(next) ==
    /\ pc = "mark"
    /\ redis' = redis \cup {RedisKey(cur, job)}
    /\ pc' = next /\ cur' = None
    /\ UNCHANGED <<job, todo, queueVars, dbVars, ledger>>

Finish ==
    /\ pc = "check" /\ todo = {}
    /\ Complete(job)
    /\ WorkerIdles
    /\ UNCHANGED <<dbVars, ledger, redis>>

(* Mutant: the catch block returns instead of rethrowing. *)
ReturnOnError ==
    /\ pc # "idle"
    /\ Complete(job)
    /\ WorkerIdles
    /\ UNCHANGED <<dbVars, ledger, redis>>

(* Any awaited call rejects; the error is rethrown and the job fails. *)
Throw ==
    /\ pc # "idle"
    /\ FailAttempt(job)
    /\ WorkerIdles
    /\ UNCHANGED <<dbVars, ledger, redis>>

(* The process dies: the queue still shows the job as active. *)
Crash ==
    /\ WorkerIdles
    /\ UNCHANGED <<queueVars, dbVars, ledger, redis>>

Requeue(e) ==
    /\ \/ Promote(e)
       \/ job # e /\ Stall(e)
    /\ UNCHANGED <<dbVars, ledger, redis, workerVars>>

Drop(e) ==
    /\ Evict(e)
    /\ UNCHANGED <<dbVars, ledger, redis, workerVars>>

Expire(k) ==
    /\ k \in redis
    /\ redis' = redis \ {k}
    /\ UNCHANGED <<queueVars, dbVars, ledger, workerVars>>

(* POST earn by an administrator: no dedup at all. *)
ManualEarn(m, p, ref, amount) ==
    /\ ledger' = Append(ledger, Row(m, p, ref, amount, "http", FALSE))
    /\ UNCHANGED <<queueVars, dbVars, redis, workerVars>>

(* createPolicy, updatePolicy and deletePolicy, which only sets isActive:  *)
(* a policy not created yet is one that was never active.                  *)
UpdatePolicy(p, row) ==
    /\ edits < MaxEdits /\ edits' = edits + 1
    /\ policies' = [policies EXCEPT ![p] = row]
    /\ UNCHANGED <<catalog, queueVars, ledger, redis, workerVars>>

(* createActionType, updateActionType; deleteActionType is refused while a *)
(* policy refers to the type, and otherwise nothing looks at it.           *)
UpdateActionType(a, active) ==
    /\ edits < MaxEdits /\ edits' = edits + 1
    /\ catalog' = [catalog EXCEPT ![a] = active]
    /\ UNCHANGED <<policies, queueVars, ledger, redis, workerVars>>

-------------------------------------------------------------------------------
(* The promise to the wallet modules: whatever they add, their steps are   *)
(* these.  The XP worker has one more place, "notify", where it only waits *)
(* for a notification to be queued.                                        *)
Notify ==
    /\ pc = "notify" /\ pc' = "check"
    /\ UNCHANGED <<job, todo, cur, queueVars, dbVars, ledger, redis>>

ProcessorNext ==
    \/ \E e \in Events : Enqueue(e) \/ Take(e) \/ Requeue(e) \/ Drop(e)
    \/ Load \/ BeginEarn \/ Finish \/ Throw \/ Crash \/ Notify
    \/ \E t \in todo : Skip(t) \/ Select(t)
    \/ \E n \in Amounts : CommitEarn(n)
    \/ \E next \in {"check", "notify"} : MarkDone(next)
    \/ \E k \in redis : Expire(k)
    \/ \E m \in Members, p \in Policies \cup {None}, ref \in Refs, n \in Amounts :
           ManualEarn(m, p, ref, n)
    \/ \E p \in Policies, row \in PolicyRows : UpdatePolicy(p, row)
    \/ \E a \in ActionTypes, b \in BOOLEAN : UpdateActionType(a, b)

ProcessorSpec == ProcessorInit /\ [][ProcessorNext]_processorVars

-------------------------------------------------------------------------------
ProcessorTypeOK ==
    /\ QueueTypeOK
    /\ catalog \in [ActionTypes -> BOOLEAN]
    /\ policies \in [Policies -> PolicyRows]
    /\ edits \in 0 .. MaxEdits
    /\ ledger \in Seq(Rows)
    /\ redis \subseteq Keys
    /\ pc \in {"idle", "load", "check", "earn", "commit", "mark", "notify"}
    /\ job \in Events \cup {None}
    /\ todo \subseteq Tickets
    /\ cur \in Tickets \cup {None}

(* Crashes, retries, expired Redis keys, re-added jobs and policy edits    *)
(* included, the queue pays no event twice under one policy and no member  *)
(* twice under a policy while it is one-time (point.processor.ts:17-18).   *)
Ledger == INSTANCE RewardLedger WITH ledger <- ledger, Rows <- Rows
NoDoublePay == Ledger!NoDoublePay

(* A reward queue implements the abstract ledger.                          *)
LedgerSpec == Ledger!Spec

(* Redis is only the fast path (point.processor.ts:103): a dedup key is    *)
(* there only if the row it stands for is, so that no retry skips a policy *)
(* that was never paid.                                                    *)
RedisOnlyIfPaid ==
    /\ \A p \in Policies, m \in Members : OnceKey(p, m) \in redis =>
           \E i \in DOMAIN ledger : ledger[i].member = m /\ ledger[i].policy = p
    /\ \A p \in Policies, e \in Events : DoneKey(p, e) \in redis =>
           \E i \in DOMAIN ledger : /\ ledger[i].member = EventMember[e]
                                    /\ ledger[i].policy = p /\ ledger[i].ref = e

(* Every policy the event matches has its row.                             *)
Paid(e) ==
    \A p \in Matching(e) :
        InLedger([policy |-> p, once |-> policies[p].oneTime], e)

(* However many attempts it took, a job that completed left no matching    *)
(* policy unpaid (as long as nobody edits the policies meanwhile).         *)
CompletedMeansPaid ==
    edits = 0 => \A e \in Events : jobState[e] = "completed" => Paid(e)

(* A job once added is paid or given up: it is never left between retries  *)
(* nor behind a worker that died.                                          *)
PaidOrGivenUp ==
    \A e \in Events :
        jobState[e] = "waiting" ~> Paid(e) \/ jobState[e] = "failed" \/ edits > 0

(* What the transactions of a member add up to.                            *)
Credit(row, m) == IF row.member = m THEN row.amount ELSE 0
EarnedIn(rows, m) ==
    LET sum[n \in 0 .. Len(rows)] == IF n = 0 THEN 0 ELSE sum[n - 1] + Credit(rows[n], m)
    IN  sum[Len(rows)]
Earned(m) == EarnedIn(ledger, m)

(* Even while policies are edited every job leaves the flight.             *)
JobsSettle ==
    \A e \in Events : jobState[e] = "waiting" ~> jobState[e] \notin InFlight

===============================================================================

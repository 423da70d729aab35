---------------------------- MODULE RewardProducers ----------------------------
(***************************************************************************)
(* The requests that earn rewards: each saves its row and then, in steps   *)
(* of its own, adds a job to the point queue and one to the XP queue.      *)
(*   signup     UsersService.findOrCreate                                  *)
(*   post       BoardsService.create, CommentsService.create               *)
(*   challenge  ChallengesService.create                                   *)
(*   watch      WatchHistoryService.createOrUpdate                         *)
(* A row is named after the request that inserted it; so is its job, as    *)
(* the jobId is made of the row's id.                                      *)
(***************************************************************************)
EXTENDS FiniteSets

CONSTANTS
    Requests,  \* each is made at most once; a retry is a request of its own
    Kind,      \* which of the four it is
    Subject,   \* what its row is unique by: the account; member and content
    Complete,  \* a watch request with watchRate >= 100 of a symbol content
    None       \* null

Kinds  == {"signup", "post", "challenge", "watch"}
Queues == {"point", "xp"}

ASSUME ProducerAssumption ==
    /\ Kind \in [Requests -> Kinds]
    /\ Complete \in [Requests -> BOOLEAN]
    /\ None \notin Requests

VARIABLES
    at,       \* where each request is
    seen,     \* the row its lookup found
    wasFull,  \* prevWatchRate >= 100, as that lookup read it
    pending,  \* the adds of Promise.all not yet answered
    rows,     \* DB: the rows inserted
    full,     \* DB: the watch rows whose watch_rate is now >= 100
    queued    \* per queue, the rows a job was ever added for

dbVars == <<rows, full>>
vars   == <<at, seen, wasFull, pending, dbVars, queued>>

Places == {"new", "insert", "update", "saved", "adding", "answered", "refused", "failed"}
Ended  == {"answered", "refused", "failed"}

SameSubject(r, s) == Kind[r] = Kind[s] /\ Subject[r] = Subject[s]

(* The unique index; posts have none. *)
Twins(r) == {s \in rows : Kind[r] # "post" /\ SameSubject(r, s)}

FoundRow(r) == seen[r]   \* mutant: the refId is taken from the lookup only

(* The row the request is about: the one it found, else its own. *)
Target(r) == IF seen[r] = None THEN r ELSE seen[r]

Go(r, place) == at' = [at EXCEPT ![r] = place]

Init ==
    /\ at = [r \in Requests |-> "new"]
    /\ seen = [r \in Requests |-> None]
    /\ wasFull = [r \in Requests |-> FALSE]
    /\ pending = [r \in Requests |-> {}]
    /\ rows = {} /\ full = {}
    /\ queued = [q \in Queues |-> {}]

-------------------------------------------------------------------------------
(* A post is not looked up, another row is not there yet. *)
FindNothing(r) ==
    /\ at[r] = "new" /\ Twins(r) = {}
    /\ Go(r, "insert")
    /\ UNCHANGED <<seen, wasFull, pending, dbVars, queued>>

(* A known account is returned, a second challenge gets 409, a watch       *)
(* record will be updated.                                                 *)
Find(r, row) ==
    /\ at[r] = "new" /\ row \in Twins(r)
    /\ seen' = [seen EXCEPT ![r] = row]
    /\ wasFull' = [wasFull EXCEPT ![r] = row \in full]
    /\ Go(r, CASE Kind[r] = "signup"    -> "answered"
               [] Kind[r] = "challenge" -> "refused"
               [] OTHER                 -> "update")
    /\ UNCHANGED <<pending, dbVars, queued>>

(* Mutant: no unique index behind the lookup. *)
InsertAnyway(r) ==
    /\ at[r] = "insert"
    /\ rows' = rows \cup {r}
    /\ full' = IF Complete[r] THEN full \cup {r} ELSE full
    /\ Go(r, IF Kind[r] = "watch" /\ ~Complete[r] THEN "answered" ELSE "saved")
    /\ UNCHANGED <<seen, wasFull, pending, queued>>

(* Mutant: a first watch is rewarded at any rate. *)
InsertAnyRate(r) ==
    /\ at[r] = "insert" /\ Twins(r) = {}
    /\ rows' = rows \cup {r}
    /\ full' = IF Complete[r] THEN full \cup {r} ELSE full
    /\ Go(r, "saved")
    /\ UNCHANGED <<seen, wasFull, pending, queued>>

Insert(r) ==
    /\ at[r] = "insert" /\ Twins(r) = {}
    /\ rows' = rows \cup {r}
    /\ full' = IF Complete[r] THEN full \cup {r} ELSE full
    /\ Go(r, IF Kind[r] = "watch" /\ ~Complete[r] THEN "answered" ELSE "saved")
    /\ UNCHANGED <<seen, wasFull, pending, queued>>

(* Mutant: the rate is compared with the row as it is after the update. *)
UpdateThenCompare(r) ==
    /\ at[r] = "update"
    /\ full' = IF Complete[r] THEN full \cup {seen[r]} ELSE full \ {seen[r]}
    /\ Go(r, IF Complete[r] /\ seen[r] \notin full' THEN "saved" ELSE "answered")
    /\ UNCHANGED <<seen, wasFull, pending, rows, queued>>

(* Only a completion that the lookup had not seen goes on to the queues. *)
Update(r) ==
    /\ at[r] = "update"
    /\ full' = IF Complete[r] THEN full \cup {seen[r]} ELSE full \ {seen[r]}
    /\ Go(r, IF Complete[r] /\ ~wasFull[r] THEN "saved" ELSE "answered")
    /\ UNCHANGED <<seen, wasFull, pending, rows, queued>>

(* enqueueReward: both adds are sent. *)
Enqueue(r) ==
    /\ at[r] = "saved"
    /\ Go(r, "adding")
    /\ pending' = [pending EXCEPT ![r] = Queues]
    /\ UNCHANGED <<seen, wasFull, dbVars, queued>>

(* The answer of one add; it also comes when the other has failed.         *)
Add(r, q) ==
    /\ q \in pending[r]
    /\ pending' = [pending EXCEPT ![r] = @ \ {q}]
    /\ queued' = [queued EXCEPT ![q] = @ \cup {Target(r)}]
    /\ UNCHANGED <<at, seen, wasFull, dbVars>>

AddFails(r, q) ==
    /\ q \in pending[r]
    /\ pending' = [pending EXCEPT ![r] = @ \ {q}]
    /\ Go(r, "failed")
    /\ UNCHANGED <<seen, wasFull, dbVars, queued>>

(* Mutant: the adds are not awaited. *)
AnswerEarly(r) ==
    /\ at[r] = "adding"
    /\ Go(r, "answered")
    /\ UNCHANGED <<seen, wasFull, pending, dbVars, queued>>

Answer(r) ==
    /\ at[r] = "adding" /\ pending[r] = {}
    /\ Go(r, "answered")
    /\ UNCHANGED <<seen, wasFull, pending, dbVars, queued>>

(* Any other awaited call rejects: the unique index, a validation, the     *)
(* media rows of a post, the reload of a challenge before the queues or of *)
(* a post after them.                                                      *)
Error(r) ==
    /\ \/ at[r] \in {"new", "insert", "update", "saved"}
       \/ at[r] = "adding" /\ pending[r] = {}
    /\ Go(r, "failed")
    /\ UNCHANGED <<seen, wasFull, pending, dbVars, queued>>

(* The process dies with every request in it. *)
Crash ==
    /\ \E r \in Requests : at[r] \notin Ended \cup {"new"} \/ pending[r] # {}
    /\ at' = [r \in Requests |-> IF at[r] \in Ended \cup {"new"} THEN at[r] ELSE "failed"]
    /\ pending' = [r \in Requests |-> {}]
    /\ UNCHANGED <<seen, wasFull, dbVars, queued>>

(* What a request does by itself once it has arrived. *)
Proceed(r) == Insert(r) \/ Update(r) \/ Enqueue(r) \/ Answer(r)

Conflict(r) == at[r] = "insert" /\ Twins(r) # {} /\ Error(r)

Next ==
    \/ \E r \in Requests :
          \/ FindNothing(r) \/ Proceed(r) \/ Conflict(r) \/ Error(r)
          \/ \E row \in rows : Find(r, row)
          \/ \E q \in Queues : Add(r, q) \/ AddFails(r, q)
    \/ Crash

Spec == Init /\ [][Next]_vars

(* Promises are answered; requests, errors and crashes are never owed. *)
Fairness ==
    \A r \in Requests :
        /\ WF_vars(Proceed(r)) /\ WF_vars(Conflict(r))
        /\ \A q \in Queues : WF_vars(Add(r, q) \/ AddFails(r, q))

FairSpec == Spec /\ Fairness

-------------------------------------------------------------------------------
TypeOK ==
    /\ at \in [Requests -> Places]
    /\ seen \in [Requests -> Requests \cup {None}]
    /\ wasFull \in [Requests -> BOOLEAN]
    /\ pending \in [Requests -> SUBSET Queues]
    /\ rows \subseteq Requests
    /\ full \subseteq Requests
    /\ queued \in [Queues -> SUBSET Requests]

InBothQueues(row) == \A q \in Queues : row \in queued[q]

(* However requests race, an account, or a member's challenge or watch     *)
(* record of a content, has a single row and so a single job per queue:    *)
(* the jobId cannot tell two rows for the same thing apart.                *)
OneRewardPerSubject ==
    \A q \in Queues : \A a, b \in queued[q] :
        Kind[a] # "post" /\ SameSubject(a, b) => a = b

(* A job is only ever added for a committed row, and for a watch record    *)
(* only if some request did complete the tutorial.                         *)
OnlyEarnedRewards ==
    \A q \in Queues : \A row \in queued[q] :
        /\ row \in rows
        /\ Kind[row] = "watch" =>
               \E r \in Requests : Complete[r] /\ SameSubject(r, row) /\ at[r] # "new"

(* A request that answers with success after inserting a rewarded row has  *)
(* both jobs in the queues: enqueueReward is awaited.                      *)
AnsweredMeansQueued ==
    \A r \in Requests :
        at[r] = "answered" /\ r \in rows /\ (Kind[r] = "watch" => Complete[r])
            => InBothQueues(r)

(* Unless a request about it failed, every rewarded row, and every watch   *)
(* record that was ever complete, gets its two jobs: of several requests   *)
(* completing one record, the first one saw it incomplete.                 *)
RewardQueued ==
    \A row \in Requests :
        row \in rows /\ (Kind[row] = "watch" => row \in full)
            ~> \/ InBothQueues(row)
               \/ \E r \in Requests : SameSubject(r, row) /\ at[r] = "failed"

===============================================================================

------------------------------- MODULE Campaigns -------------------------------
(***************************************************************************)
(* NotificationsService: announcements, sent once at their time through a  *)
(* delayed job whose id is theirs, and batches, sent whenever the job      *)
(* scheduler of their id fires.  Administrators' requests change the row   *)
(* and the queue in separate steps while the worker of                     *)
(* NotificationProcessor runs.  save() writes the entity as it was read,   *)
(* its status included, and the whole row if it is gone.                   *)
(***************************************************************************)
EXTENDS JobQueue, FiniteSets

CONSTANTS
    Announcements, Batches,
    Requests,       \* names for the requests open at one time
    MaxRequests,    \* bound on the requests ever made
    MaxCampaigns,   \* bound on the campaigns ever created
    None            \* null, no row, nothing

Campaigns == Announcements \cup Batches

ASSUME CampaignsAssumption ==
    /\ Events = Campaigns /\ Announcements \cap Batches = {}
    /\ MaxRequests \in Nat /\ MaxCampaigns \in Nat
    /\ None \notin Campaigns

VARIABLES
    row,         \* DB notification_campaigns: the status, None without a row
    scheduler,   \* the batches with a job scheduler
    worker,      \* the job being run and where, None when idle
    req,         \* the open requests
    opened,      \* how many were ever made
    created,     \* the campaigns ever created
    sent,        \* how often each announcement was sent: 0, 1, or 2 for more
    muddled,     \* campaigns on which requests overlapped or failed since the
                 \* last pause, resume or deletion that did not
    stopped,     \* paused or deleted by a request that none which schedules
                 \* the campaign overlapped, without a job left in flight if it
                 \* is an announcement; and not resumed since
    disturbed    \* announcements whose run failed after the send, or ended
                 \* within a request that schedules them

adminVars == <<opened, created>>
ghost     == <<muddled, stopped, disturbed>>
vars      == <<queueVars, row, scheduler, worker, req, adminVars, sent, ghost>>

Statuses == {"scheduled", "sent", "active", "paused"}
Ops      == {"create", "update", "pause", "resume", "delete"}
RequestType ==
    [op : Ops, at : {"save", "unschedule", "schedule", "delete", "answer"},
     of : Campaigns, read : Statuses, firm : BOOLEAN, clean : BOOLEAN]
RunType == [of : Campaigns, at : {"find", "send", "save", "done"}, late : BOOLEAN]

ASSUME NullAssumption ==
    None \notin Statuses /\ None \notin RequestType /\ None \notin RunType

At(r, place)   == req[r] # None /\ req[r].at = place
OpenOn(c)      == {r \in Requests : req[r] # None /\ req[r].of = c}
Working(place) == worker # None /\ worker.at = place
Runs(c)        == worker # None /\ worker.of = c

Init ==
    /\ QueueInit
    /\ row = [c \in Campaigns |-> None]
    /\ scheduler = {}
    /\ worker = None
    /\ req = [r \in Requests |-> None] /\ opened = 0 /\ created = {}
    /\ sent = [c \in Announcements |-> 0]
    /\ muddled = {} /\ stopped = {} /\ disturbed = {}

-------------------------------------------------------------------------------
(* The handlers that schedule the campaign, an update only if it found it  *)
(* running.                                                                *)
Schedules(op, read) ==
    op \in {"create", "resume"} \/ (op = "update" /\ read \in {"scheduled", "active"})

(* A request starts; it and the others open on the campaign overlap.  One  *)
(* is firm while none of those schedules the campaign, clean while there   *)
(* is none and no error was swallowed.                                     *)
Open(r, op, at, c, read) ==
    LET others == OpenOn(c)
    IN  /\ req[r] = None /\ opened < MaxRequests
        /\ opened' = opened + 1
        /\ req' = [q \in Requests |->
              CASE q = r        -> [op |-> op, at |-> at, of |-> c, read |-> read,
                                    firm |-> \A p \in others : ~Schedules(req[p].op, req[p].read),
                                    clean |-> others = {}]
                [] q \in others -> [req[q] EXCEPT !.firm = @ /\ ~Schedules(op, read), !.clean = FALSE]
                [] OTHER        -> req[q]]
        /\ muddled' = IF others = {} THEN muddled ELSE muddled \cup {c}
        /\ stopped' = IF op = "resume" THEN stopped \ {c} ELSE stopped
        /\ UNCHANGED disturbed

Create(r, c) ==
    LET status == IF c \in Announcements THEN "scheduled" ELSE "active"
    IN  /\ c \notin created /\ Cardinality(created) < MaxCampaigns
        /\ created' = created \cup {c}
        /\ row' = [row EXCEPT ![c] = status]
        /\ Open(r, "create", "schedule", c, status)
        /\ UNCHANGED <<queueVars, scheduler, worker, sent>>

(* updateCampaign, pauseCampaign, resumeCampaign, deleteCampaign: findOne. *)
Find(r, c, op) ==
    /\ row[c] # None
    /\ op \in {"pause", "resume"} => c \in Batches
    /\ Open(r, op, IF op = "delete" THEN "unschedule" ELSE "save", c, row[c])
    /\ UNCHANGED <<queueVars, row, scheduler, worker, created, sent>>

(* What a handler does next, if an update has to reschedule or not. *)
Following(r, reschedules) ==
    CASE req[r].at = "save" /\ req[r].op = "resume"                   -> "schedule"
      [] req[r].at = "save" /\ (reschedules \/ req[r].op = "pause")   -> "unschedule"
      [] req[r].at = "unschedule" /\ reschedules                      -> "schedule"
      [] req[r].at = "unschedule" /\ req[r].op = "delete"             -> "delete"
      [] OTHER                                                        -> "answer"

(* Mutants: an update reschedules whatever the status, or an announcement  *)
(* is only unscheduled.                                                    *)
AfterAlways(r) == Following(r, req[r].op = "update")
AfterOnce(r) ==
    Following(r, req[r].op = "update" /\ req[r].read \in {"scheduled", "active"}
                 /\ (req[r].at = "unschedule" => req[r].of \in Batches))

After(r) == Following(r, req[r].op = "update" /\ req[r].read \in {"scheduled", "active"})

Go(r) ==
    /\ req' = [req EXCEPT ![r].at = After(r)]
    /\ UNCHANGED <<adminVars, ghost>>

Save(r) ==
    /\ At(r, "save")
    /\ row' = [row EXCEPT ![req[r].of] = CASE req[r].op = "pause"  -> "paused"
                                           [] req[r].op = "resume" -> "active"
                                           [] OTHER                -> req[r].read]
    /\ Go(r)
    /\ UNCHANGED <<queueVars, scheduler, worker, sent>>

(* getJob and remove; a job the worker has locked stays.  removeJobScheduler *)
(* leaves the job that is already due.                                     *)
Unschedule(r) ==
    LET c == req[r].of
    IN  /\ At(r, "unschedule")
        /\ scheduler' = scheduler \ {c}
        /\ IF c \in Announcements /\ jobState[c] # "active"
           THEN Settle(c, "absent") ELSE UNCHANGED queueVars
        /\ Go(r)
        /\ UNCHANGED <<row, worker, sent>>

(* .catch(() => undefined): nothing was removed, the request goes on. *)
UnscheduleError(r) ==
    /\ At(r, "unschedule")
    /\ req' = [req EXCEPT ![r].at = After(r), ![r].clean = FALSE]
    /\ muddled' = muddled \cup {req[r].of}
    /\ UNCHANGED <<queueVars, row, scheduler, worker, adminVars, sent, stopped, disturbed>>

(* add with the campaign's id, which does nothing while a job has it;      *)
(* upsertJobScheduler.                                                     *)
Schedule(r) ==
    LET c == req[r].of
    IN  /\ At(r, "schedule")
        /\ scheduler' = scheduler \cup ({c} \cap Batches)
        /\ IF c \in Announcements /\ jobState[c] = "absent" THEN Add(c) ELSE UNCHANGED queueVars
        /\ Go(r)
        /\ UNCHANGED <<row, worker, sent>>

DeleteRow(r) ==
    /\ At(r, "delete")
    /\ row' = [row EXCEPT ![req[r].of] = None]
    /\ Go(r)
    /\ UNCHANGED <<queueVars, scheduler, worker, sent>>

Answer(r) ==
    LET c == req[r].of
    IN  /\ At(r, "answer")
        /\ req' = [req EXCEPT ![r] = None]
        /\ muddled' = IF req[r].clean /\ req[r].op \in {"pause", "resume", "delete"}
                      THEN muddled \ {c} ELSE muddled
        /\ stopped' = IF req[r].firm /\ req[r].op \in {"pause", "delete"}
                         /\ (c \in Announcements => jobState[c] \notin InFlight)
                      THEN stopped \cup {c} ELSE stopped
        /\ UNCHANGED <<queueVars, row, scheduler, worker, adminVars, sent, disturbed>>

(* An awaited call rejects: what was written stays. *)
Fail(r) ==
    /\ req[r] # None
    /\ req' = [req EXCEPT ![r] = None]
    /\ muddled' = muddled \cup {req[r].of}
    /\ UNCHANGED <<queueVars, row, scheduler, worker, adminVars, sent, stopped, disturbed>>

-------------------------------------------------------------------------------
(* The scheduler of a batch makes its next job when the last one is over.  *)
Tick(c) ==
    /\ c \in scheduler /\ jobState[c] \notin InFlight
    /\ jobState' = [jobState EXCEPT ![c] = "waiting"]
    /\ UNCHANGED <<attempts, stalls, row, scheduler, worker, req, adminVars, sent, ghost>>

Run(c) ==
    /\ worker = None
    /\ Activate(c)
    /\ worker' = [of |-> c, at |-> "find", late |-> FALSE]
    /\ UNCHANGED <<row, scheduler, req, adminVars, sent, ghost>>

(* late remembers that the campaign was stopped when runCampaign read it.  *)
(* Mutant: a paused campaign is sent.                                      *)
FindAnyway ==
    /\ Working("find")
    /\ worker' = [worker EXCEPT !.at = IF row[worker.of] = None THEN "done" ELSE "send",
                                !.late = worker.of \in stopped]
    /\ UNCHANGED <<queueVars, row, scheduler, req, adminVars, sent, ghost>>

FindCampaign ==
    /\ Working("find")
    /\ worker' = [worker EXCEPT !.at = IF row[worker.of] \in {None, "paused"} THEN "done" ELSE "send",
                                !.late = worker.of \in stopped]
    /\ UNCHANGED <<queueVars, row, scheduler, req, adminVars, sent, ghost>>

Send ==
    LET c == worker.of
    IN  /\ Working("send")
        /\ worker' = [worker EXCEPT !.at = IF c \in Announcements THEN "save" ELSE "done"]
        /\ sent' = [a \in Announcements |-> IF a = c /\ sent[a] < 2 THEN sent[a] + 1 ELSE sent[a]]
        /\ UNCHANGED <<queueVars, row, scheduler, req, adminVars, ghost>>

(* A send may be followed by another: the run is not known to have ended,  *)
(* or an open request may write back the old status or add the job again.  *)
Disturb(happened) ==
    disturbed' = IF happened /\ worker.of \in Announcements THEN disturbed \cup {worker.of} ELSE disturbed
Rescheduling == \E r \in OpenOn(worker.of) : req[r].op \in {"create", "update"}

(* Mutant: the announcement stays scheduled. *)
ForgetSent ==
    /\ Working("save")
    /\ worker' = [worker EXCEPT !.at = "done"]
    /\ UNCHANGED <<queueVars, row, scheduler, req, adminVars, sent, ghost>>

SaveSent ==
    /\ Working("save")
    /\ row' = [row EXCEPT ![worker.of] = "sent"]
    /\ worker' = [worker EXCEPT !.at = "done"]
    /\ Disturb(Rescheduling)
    /\ UNCHANGED <<queueVars, scheduler, req, adminVars, sent, muddled, stopped>>

(* removeOnComplete, and the scheduler's jobs have an id each. *)
Finish ==
    LET c == worker.of
    IN  /\ Working("done")
        /\ Settle(c, "absent")
        /\ worker' = None
        /\ Disturb(Rescheduling)
        /\ UNCHANGED <<row, scheduler, req, adminVars, sent, muddled, stopped>>

(* process() rethrows. *)
Throw ==
    /\ worker # None
    /\ FailAttempt(worker.of)
    /\ worker' = None
    /\ Disturb(worker.at \in {"save", "done"})
    /\ UNCHANGED <<row, scheduler, req, adminVars, sent, muddled, stopped>>

(* The process dies and is restarted, with every request. *)
Crash ==
    /\ worker # None \/ \E r \in Requests : req[r] # None
    /\ worker' = None
    /\ req' = [r \in Requests |-> None]
    /\ muddled' = muddled \cup {c \in Campaigns : OpenOn(c) # {}}
    /\ IF worker = None THEN UNCHANGED disturbed ELSE Disturb(worker.at \in {"save", "done"})
    /\ UNCHANGED <<queueVars, row, scheduler, adminVars, sent, stopped>>

(* Back-off is over, or the stalled check finds a job nobody runs. *)
Requeue(c) ==
    /\ Promote(c) \/ (~Runs(c) /\ Stall(c))
    /\ UNCHANGED <<row, scheduler, worker, req, adminVars, sent, ghost>>

WorkerStep == FindCampaign \/ Send \/ SaveSent \/ Finish
RequestStep(r) ==
    Save(r) \/ Unschedule(r) \/ UnscheduleError(r) \/ Schedule(r) \/ DeleteRow(r) \/ Answer(r)

Next ==
    \/ \E r \in Requests :
          \/ RequestStep(r) \/ Fail(r)
          \/ \E c \in Campaigns :
                \/ Create(r, c)
                \/ \E op \in Ops \ {"create"} : Find(r, c, op)
    \/ \E c \in Campaigns : Tick(c) \/ Run(c) \/ Requeue(c)
    \/ WorkerStep \/ Throw \/ Crash

Spec == Init /\ [][Next]_vars

(* The event loop resumes handlers and runs, the queue is first-in         *)
(* first-out, delays and back-offs end.                                    *)
Fairness ==
    /\ WF_vars(WorkerStep)
    /\ \A r \in Requests : WF_vars(RequestStep(r))
    /\ \A c \in Campaigns : SF_vars(Run(c)) /\ WF_vars(Requeue(c))

FairSpec == Spec /\ Fairness

-------------------------------------------------------------------------------
TypeOK ==
    /\ QueueTypeOK
    /\ row \in [Campaigns -> Statuses \cup {None}]
    /\ scheduler \subseteq Batches
    /\ worker \in RunType \cup {None}
    /\ req \in [Requests -> RequestType \cup {None}]
    /\ opened \in 0 .. MaxRequests /\ created \subseteq Campaigns
    /\ sent \in [Announcements -> 0 .. 2]
    /\ muddled \subseteq Campaigns /\ stopped \subseteq Campaigns
    /\ disturbed \subseteq Announcements

(* Unless requests overlapped or failed, a batch has a scheduler exactly   *)
(* while its row says ACTIVE; the next pause, resume or deletion that goes *)
(* through repairs it (docs/api/19-notifications.md:53-57).  The state is  *)
(* well typed.                                                             *)
Agreed ==
    /\ TypeOK
    /\ \A c \in Batches \ muddled :
          OpenOn(c) = {} => (row[c] = "active" <=> c \in scheduler)

(* A campaign that was paused or deleted is not sent, until it is resumed, *)
(* by a run that reads it later, although schedulers and due jobs may      *)
(* survive and edits, pauses and deletions that overlap write back what    *)
(* they read (notifications.service.ts:95, 155).  Two cases are excluded   *)
(* (stopped): a request that schedules the campaign was open at the time,  *)
(* since an update that read it running brings it back; and the job of a   *)
(* deleted announcement was in flight at the answer, since the worker      *)
(* keeps a locked job, whose save of SENT inserts the row again.           *)
StoppedIsQuiet == Working("send") \/ Working("save") => ~worker.late

(* An announcement is sent once (notification-campaign.entity.ts:12),      *)
(* unless its run failed after the send or a request that schedules it was *)
(* open when the run ended.                                                *)
SentOnceUndisturbed == \A c \in Announcements \ disturbed : sent[c] <= 1

(* An announcement that is waiting for its time is sent, or its attempts   *)
(* run out, or it is deleted, unless requests on it overlapped or failed.  *)
ScheduledIsSent ==
    \A c \in Announcements :
        row[c] = "scheduled" ~> \/ sent[c] > 0 \/ jobState[c] = "failed"
                                \/ row[c] = None \/ c \in muddled

===============================================================================

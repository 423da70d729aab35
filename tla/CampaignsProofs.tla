---------------------------- MODULE CampaignsProofs ----------------------------
(***************************************************************************)
(* What holds of Campaigns for any number of campaigns and of overlapping  *)
(* and failing requests.                                                   *)
(***************************************************************************)
EXTENDS Campaigns, TLAPS

USE JobQueueAssumption, CampaignsAssumption, NullAssumption

(* Where a request may be, and what it was made for.                       *)
Stages(op) == CASE op = "create" -> {"schedule", "answer"}
                [] op = "update" -> {"save", "unschedule", "schedule", "answer"}
                [] op = "pause"  -> {"save", "unschedule", "answer"}
                [] op = "resume" -> {"save", "schedule", "answer"}
                [] op = "delete" -> {"unschedule", "delete", "answer"}

StatusesOf(c) == IF c \in Announcements THEN {"scheduled", "sent"} ELSE {"active", "paused"}

InPlace(q) ==
    /\ q.at \in Stages(q.op)
    /\ q.read \in StatusesOf(q.of)
    /\ q.op \in {"pause", "resume"} => q.of \in Batches
    /\ q.op = "create" => q.read # "sent"
    /\ q.op = "update" /\ q.at \in {"unschedule", "schedule"} => q.read \in {"scheduled", "active"}

Placed == {q \in RequestType : InPlace(q)}

(* Rows have the statuses of their kind; rows, jobs, schedulers and open   *)
(* requests belong to campaigns that were created; a run has its job, and  *)
(* only an announcement is saved after it is sent.                         *)
TypeInv ==
    /\ TypeOK
    /\ req \in [Requests -> Placed \cup {None}]
    /\ \A c \in Campaigns : row[c] \in StatusesOf(c) \cup {None}
    /\ \A c \in Campaigns \ created : row[c] = None /\ jobState[c] = "absent"
    /\ scheduler \subseteq created
    /\ \A r \in Requests : req[r] # None => req[r].of \in created
    /\ worker # None => /\ jobState[worker.of] = "active"
                        /\ worker.at = "save" => worker.of \in Announcements

-------------------------------------------------------------------------------
(* A request that is clean is the only open one of its campaign, and on a  *)
(* campaign that is not muddled every open request is clean.               *)
AllAlone ==
    /\ \A r, q \in Requests :
          req[r] # None /\ req[q] # None /\ req[r].of = req[q].of /\ req[r].clean => q = r
    /\ \A r \in Requests : req[r] # None /\ req[r].of \notin muddled => req[r].clean

(* What a request that is clean has written is still in the row: only the  *)
(* run of an announcement writes it too, and it writes SENT.               *)
Written(q) ==
    /\ q.op = "pause" /\ q.at # "save" => row[q.of] = "paused"
    /\ q.op = "resume" /\ q.at # "save" => row[q.of] = "active"
    /\ q.op = "create" /\ q.of \in Batches => row[q.of] = "active"
    /\ q.op = "delete" /\ q.at = "answer" => row[q.of] \in {None, "sent"}

(* What a request that went through so far has done to the scheduler of a  *)
(* batch; an update relies on what it found.                               *)
Matched(c) == row[c] = "active" <=> c \in scheduler

Arranged(q) ==
    /\ q.op = "pause" /\ q.at = "answer" => q.of \notin scheduler
    /\ q.op = "delete" /\ q.at # "unschedule" => q.of \notin scheduler
    /\ q.op \in {"create", "resume"} /\ q.at = "answer" => q.of \in scheduler
    /\ q.op = "update" /\ q.of \notin muddled =>
          row[q.of] = q.read /\ (q.at # "schedule" => Matched(q.of))

InOrder ==
    /\ \A r \in Requests : req[r] # None /\ req[r].clean => Written(req[r])
    /\ \A r \in Requests :
          req[r] # None /\ req[r].clean /\ req[r].of \in Batches => Arranged(req[r])
    /\ \A c \in Batches \ muddled : OpenOn(c) = {} => Matched(c)

-------------------------------------------------------------------------------
(* A stopped campaign has nothing that could send it: a batch has no row   *)
(* or a paused one, an announcement no job, and no request that is open on *)
(* it makes another.                                                       *)
Stopped(c) ==
    /\ \A r \in OpenOn(c) : req[r].op \in {"update", "pause", "delete"}
    /\ \A r \in OpenOn(c) : req[r].op = "update" => req[r].read \in {"paused", "sent"}
    /\ row[c] \in {None, "paused", "sent"}
    /\ c \in Announcements => jobState[c] \notin InFlight
    /\ c \in created

Unsent == {None, "paused", "sent"}

(* No other open request schedules the campaign of one that is firm, and   *)
(* what a firm pause or deletion has taken out of the row stays out of it. *)
Takes(q) ==
    \/ q.op = "pause" /\ q.at # "save"
    \/ q.op = "delete" /\ q.at = "answer"

AllFirm ==
    \A r \in Requests : req[r] # None /\ req[r].firm =>
       /\ \A q \in Requests \ {r} :
             req[q] # None /\ req[q].of = req[r].of => ~Schedules(req[q].op, req[q].read)
       /\ Takes(req[r]) => row[req[r].of] \in Unsent

AllStopped == \A c \in stopped : Stopped(c)

(* An announcement that was sent has its run waiting to save it, or is SENT*)
(* with no job and no request that makes one.                              *)
SentIsOver(a) ==
    /\ sent[a] = 1 /\ a \in created
    /\ \/ Runs(a) /\ worker.at = "save"
       \/ /\ row[a] \in {None, "sent"}
          /\ \A r \in OpenOn(a) : req[r].op \in {"update", "delete"}
          /\ \A r \in OpenOn(a) : req[r].op = "update" => req[r].read = "sent"
          /\ \/ Runs(a) /\ worker.at = "done"
             \/ ~Runs(a) /\ jobState[a] = "absent"

AllOver == \A a \in Announcements \ disturbed : sent[a] = 0 \/ SentIsOver(a)

IInv == TypeInv /\ AllAlone /\ InOrder /\ AllFirm /\ AllStopped /\ StoppedIsQuiet /\ AllOver

-------------------------------------------------------------------------------
LEMMA NoneUnplaced == None \notin Placed
BY DEF Placed

(* An open request is a record of the code's making.                       *)
LEMMA PlacedAt ==
    ASSUME TypeInv, NEW r \in Requests, req[r] # None
    PROVE  req[r] \in Placed
BY DEF TypeInv

(* The places a handler goes through.                                      *)
LEMMA NextPlace ==
    ASSUME TypeInv, NEW r \in Requests, req[r] # None, req[r].at # "answer"
    PROVE  /\ [req[r] EXCEPT !.at = After(r)] \in Placed
           /\ [req[r] EXCEPT !.at = After(r), !.clean = FALSE] \in Placed
           /\ req[r].at = "save" =>
                 After(r) = CASE req[r].op = "resume" -> "schedule"
                              [] req[r].op = "pause"  -> "unschedule"
                              [] req[r].op = "update" /\ req[r].read \in {"scheduled", "active"} -> "unschedule"
                              [] OTHER -> "answer"
           /\ req[r].at = "unschedule" =>
                 After(r) = CASE req[r].op = "update" -> "schedule"
                              [] req[r].op = "delete" -> "delete"
                              [] OTHER -> "answer"
           /\ req[r].at \in {"schedule", "delete"} => After(r) = "answer"
<1> DEFINE q == req[r]
<1>1. q \in Placed
  BY PlacedAt
<1>2. q \in RequestType /\ InPlace(q)
  BY <1>1 DEF Placed
<1>3. q.at \in {"save", "unschedule", "schedule", "delete"}
  BY <1>2 DEF RequestType
<1>4. /\ q.at = "save" =>
            After(r) = CASE q.op = "resume" -> "schedule"
                         [] q.op = "pause"  -> "unschedule"
                         [] q.op = "update" /\ q.read \in {"scheduled", "active"} -> "unschedule"
                         [] OTHER -> "answer"
      /\ q.at = "unschedule" =>
            After(r) = CASE q.op = "update" -> "schedule"
                         [] q.op = "delete" -> "delete"
                         [] OTHER -> "answer"
      /\ q.at \in {"schedule", "delete"} => After(r) = "answer"
  BY <1>2, <1>3 DEF After, Following, InPlace, Stages, Ops, RequestType
<1>5. After(r) \in Stages(q.op)
  BY <1>2, <1>3, <1>4 DEF InPlace, Stages, Ops, RequestType
<1>6. After(r) \in {"save", "unschedule", "schedule", "delete", "answer"}
  BY <1>3, <1>4
<1>7. q.op = "update" /\ After(r) \in {"unschedule", "schedule"} => q.read \in {"scheduled", "active"}
  BY <1>2, <1>3, <1>4 DEF InPlace
<1>8. ASSUME NEW b \in BOOLEAN, b => q.clean
      PROVE  [q EXCEPT !.at = After(r), !.clean = b] \in Placed
  <2> DEFINE n == [q EXCEPT !.at = After(r), !.clean = b]
  <2>1. n \in RequestType
    BY <1>2, <1>6, <1>8 DEF RequestType
  <2>2. InPlace(n)
    BY <1>2, <1>5, <1>7, <1>8 DEF InPlace, RequestType
  <2> QED
    BY <2>1, <2>2 DEF Placed
<1>9. [q EXCEPT !.at = After(r), !.clean = q.clean] = [q EXCEPT !.at = After(r)]
  BY <1>2 DEF RequestType
<1> QED
  BY <1>2, <1>4, <1>8, <1>9 DEF RequestType

(* A handler that starts adds its own request and marks the others.        *)
LEMMA OpenPlaced ==
    ASSUME TypeInv, NEW r \in Requests, NEW op \in Ops, NEW at, NEW c \in Campaigns,
           NEW read \in StatusesOf(c), Open(r, op, at, c, read),
           at \in Stages(op),
           op \in {"pause", "resume"} => c \in Batches,
           op = "create" => read # "sent", op = "update" => at = "save"
    PROVE  /\ req' \in [Requests -> Placed \cup {None}]
           /\ opened' \in 0 .. MaxRequests
           /\ muddled' \subseteq Campaigns /\ stopped' \subseteq stopped
           /\ disturbed' = disturbed
           /\ req[r] = None /\ req'[r] # None /\ req'[r].of = c
           /\ \A q \in Requests : q # r /\ req'[q] # None => req[q] # None /\ req'[q].of = req[q].of
<1> DEFINE b == OpenOn(c) = {}
           f == \A p \in OpenOn(c) : ~Schedules(req[p].op, req[p].read)
           new == [op |-> op, at |-> at, of |-> c, read |-> read, firm |-> f, clean |-> b]
           other(q) == [req[q] EXCEPT !.firm = @ /\ ~Schedules(op, read), !.clean = FALSE]
<1>1. new \in Placed
  <2>1. new \in RequestType
    BY DEF RequestType, Stages, Ops, StatusesOf, Statuses
  <2>2. InPlace(new)
    BY DEF InPlace
  <2> QED
    BY <2>1, <2>2 DEF Placed
<1>2. ASSUME NEW q \in OpenOn(c)
      PROVE  /\ other(q) \in Placed /\ other(q).of = req[q].of
             /\ req[q] # None
  <2>1. req[q] # None /\ req[q] \in RequestType /\ InPlace(req[q])
    BY <1>2, PlacedAt DEF OpenOn, Placed
  <2>2. /\ other(q).at = req[q].at /\ other(q).op = req[q].op /\ other(q).of = req[q].of
        /\ other(q).read = req[q].read
        /\ other(q) \in RequestType
    BY <2>1 DEF RequestType
  <2> QED
    BY <2>1, <2>2 DEF Placed, InPlace
<1> HIDE DEF new, other
<1>3. req' = [q \in Requests |-> CASE q = r -> new
                                  [] q \in OpenOn(c) -> other(q)
                                  [] OTHER -> req[q]]
  BY DEF Open, new, other
<1>4. r \notin OpenOn(c) /\ OpenOn(c) \subseteq Requests
  BY DEF Open, OpenOn
<1>5. ASSUME NEW q \in Requests
      PROVE  /\ req'[q] \in Placed \cup {None}
             /\ q # r /\ req'[q] # None => req[q] # None /\ req'[q].of = req[q].of
  BY <1>1, <1>2, <1>3, <1>4 DEF TypeInv
<1>6. new.of = c /\ new # None
  BY <1>1, NoneUnplaced DEF new
<1>7. req'[r] = new
  BY <1>3, <1>4
<1>8. req' \in [Requests -> Placed \cup {None}]
  BY <1>3, <1>5
<1>9. opened \in 0 .. MaxRequests /\ muddled \subseteq Campaigns /\ MaxRequests \in Nat
  BY DEF TypeInv, TypeOK
<1>10. /\ req[r] = None /\ opened < MaxRequests /\ opened' = opened + 1
       /\ muddled' = IF OpenOn(c) = {} THEN muddled ELSE muddled \cup {c}
       /\ stopped' = IF op = "resume" THEN stopped \ {c} ELSE stopped
       /\ disturbed' = disturbed
  BY DEF Open
<1>11. /\ opened' \in 0 .. MaxRequests
       /\ muddled' \subseteq Campaigns /\ stopped' \subseteq stopped
  BY <1>9, <1>10
<1> QED
  BY <1>5, <1>6, <1>7, <1>8, <1>10, <1>11

(* Every other step of a request keeps what it is about.                   *)
Same(p, q) == p.of = q.of /\ p.op = q.op /\ p.read = q.read

Moved(r) ==
    /\ req[r] # None /\ req' = [req EXCEPT ![r] = req'[r]]
    /\ req'[r] # None => /\ req'[r] \in Placed /\ Same(req'[r], req[r])
                         /\ req'[r].firm = req[r].firm /\ (req'[r].clean => req[r].clean)

LEMMA MovedPlaced ==
    ASSUME TypeInv, NEW r \in Requests, Moved(r)
    PROVE  /\ req' \in [Requests -> Placed \cup {None}]
           /\ \A q \in Requests : req'[q] # None => req[q] # None /\ Same(req'[q], req[q])
           /\ \A q \in Requests : q # r => req'[q] = req[q]
BY DEF TypeInv, Moved, Same

LEMMA StepsMove ==
    ASSUME TypeInv, NEW r \in Requests, RequestStep(r) \/ Fail(r)
    PROVE  Moved(r)
<1>0. req \in [Requests -> Placed \cup {None}]
  BY DEF TypeInv
<1>1. CASE Save(r) \/ Unschedule(r) \/ Schedule(r) \/ DeleteRow(r)
  <2>1. /\ req[r] # None /\ req[r].at # "answer"
        /\ req' = [req EXCEPT ![r] = [req[r] EXCEPT !.at = After(r)]]
    BY <1>1 DEF Save, Unschedule, Schedule, DeleteRow, At, Go
  <2>2. [req[r] EXCEPT !.at = After(r)] \in Placed
    BY <2>1, NextPlace
  <2>3. /\ Same([req[r] EXCEPT !.at = After(r)], req[r])
        /\ [req[r] EXCEPT !.at = After(r)].firm = req[r].firm
        /\ [req[r] EXCEPT !.at = After(r)].clean => req[r].clean
    BY <2>1, PlacedAt DEF Placed, RequestType, Same
  <2> QED
    BY <1>0, <2>1, <2>2, <2>3 DEF Moved
<1>2. CASE UnscheduleError(r)
  <2>1. /\ req[r] # None /\ req[r].at # "answer"
        /\ req' = [req EXCEPT ![r] = [req[r] EXCEPT !.at = After(r), !.clean = FALSE]]
    BY <1>0, <1>2 DEF UnscheduleError, At
  <2>2. [req[r] EXCEPT !.at = After(r), !.clean = FALSE] \in Placed
    BY <2>1, NextPlace
  <2>3. /\ Same([req[r] EXCEPT !.at = After(r), !.clean = FALSE], req[r])
        /\ [req[r] EXCEPT !.at = After(r), !.clean = FALSE].firm = req[r].firm
        /\ [req[r] EXCEPT !.at = After(r), !.clean = FALSE].clean => req[r].clean
    BY <2>1, PlacedAt DEF Placed, RequestType, Same
  <2> QED
    BY <1>0, <2>1, <2>2, <2>3 DEF Moved
<1>3. CASE Answer(r) \/ Fail(r)
  BY <1>0, <1>3 DEF Answer, Fail, At, Moved
<1> QED
  BY <1>1, <1>2, <1>3 DEF RequestStep

(* Whatever happens to a job, the others stay and its counters are in      *)
(* range.                                                                  *)
LEMMA JobStep ==
    ASSUME QueueTypeOK, NEW c \in Campaigns,
           \/ Add(c) \/ Activate(c) \/ FailAttempt(c) \/ Promote(c) \/ Stall(c)
           \/ Settle(c, "absent")
    PROVE  /\ QueueTypeOK'
           /\ \A d \in Campaigns : d # c => jobState'[d] = jobState[d]
<1> USE DEF QueueTypeOK, InFlight, Settled
<1>1. CASE Add(c) \/ Activate(c) \/ Promote(c)
  BY <1>1 DEF Add, Activate, Promote
<1>2. CASE FailAttempt(c)
  BY <1>2 DEF FailAttempt, Settle
<1>3. CASE Stall(c)
  BY <1>3 DEF Stall, Settle
<1>4. CASE Settle(c, "absent")
  BY <1>4 DEF Settle
<1> QED
  BY <1>1, <1>2, <1>3, <1>4

LEMMA TypesKept == TypeInv /\ [Next]_vars => TypeInv'
<1> SUFFICES ASSUME TypeInv, [Next]_vars PROVE TypeInv'
  OBVIOUS
<1>0. TypeOK /\ QueueTypeOK
  BY DEF TypeInv, TypeOK
<1>1. ASSUME NEW r \in Requests, NEW c \in Campaigns, Create(r, c) PROVE TypeInv'
  <2> DEFINE status == IF c \in Announcements THEN "scheduled" ELSE "active"
  <2>1. status \in StatusesOf(c) /\ status # "sent"
    BY DEF StatusesOf
  <2>2. /\ Open(r, "create", "schedule", c, status)
        /\ created' = created \cup {c} /\ row' = [row EXCEPT ![c] = status]
        /\ UNCHANGED <<queueVars, scheduler, worker, sent>>
    BY <1>1 DEF Create
  <2> HIDE DEF status
  <2>3. /\ req' \in [Requests -> Placed \cup {None}]
        /\ opened' \in 0 .. MaxRequests
        /\ muddled' \subseteq Campaigns /\ stopped' \subseteq stopped /\ disturbed' = disturbed
        /\ req'[r].of = c
        /\ \A q \in Requests : q # r /\ req'[q] # None => req[q] # None /\ req'[q].of = req[q].of
    BY <2>1, <2>2, OpenPlaced DEF Ops, Stages
  <2>4. StatusesOf(c) \subseteq Statuses
    BY DEF StatusesOf, Statuses
  <2>5. TypeOK'
    BY <2>1, <2>2, <2>3, <2>4 DEF TypeInv, TypeOK, queueVars, QueueTypeOK, Placed
  <2>6. /\ \A r1 \in Requests : req'[r1] # None => req'[r1].of \in created'
        /\ \A d \in Campaigns : row'[d] \in StatusesOf(d) \cup {None}
        /\ \A d \in Campaigns \ created' : row'[d] = None /\ jobState'[d] = "absent"
    BY <2>1, <2>2, <2>3 DEF TypeInv, TypeOK, queueVars
  <2> QED
    BY <2>2, <2>3, <2>5, <2>6 DEF TypeInv, queueVars
<1>2. ASSUME NEW r \in Requests, NEW c \in Campaigns, NEW op \in Ops \ {"create"}, Find(r, c, op)
      PROVE  TypeInv'
  <2> DEFINE at == IF op = "delete" THEN "unschedule" ELSE "save"
  <2>1. /\ row[c] # None /\ row[c] \in StatusesOf(c)
        /\ op \in {"pause", "resume"} => c \in Batches
        /\ Open(r, op, at, c, row[c])
        /\ UNCHANGED <<queueVars, row, scheduler, worker, created, sent>>
    BY <1>2 DEF Find, TypeInv
  <2>2. at \in Stages(op) /\ (op = "update" => at = "save")
    BY DEF Stages, Ops
  <2> HIDE DEF at
  <2>3. /\ req' \in [Requests -> Placed \cup {None}]
        /\ opened' \in 0 .. MaxRequests
        /\ muddled' \subseteq Campaigns /\ stopped' \subseteq stopped /\ disturbed' = disturbed
        /\ req'[r].of = c
        /\ \A q \in Requests : q # r /\ req'[q] # None => req[q] # None /\ req'[q].of = req[q].of
    BY <2>1, <2>2, OpenPlaced
  <2>4. c \in created
    BY <2>1 DEF TypeInv
  <2>5. TypeOK'
    BY <2>1, <2>3 DEF TypeInv, TypeOK, queueVars, QueueTypeOK, Placed
  <2> QED
    BY <2>1, <2>3, <2>4, <2>5 DEF TypeInv, queueVars
<1>3. ASSUME NEW r \in Requests, RequestStep(r) \/ Fail(r) PROVE TypeInv'
  <2> DEFINE c == req[r].of
  <2>1. Moved(r) /\ c \in created /\ c \in Campaigns
    BY <1>3, StepsMove, PlacedAt DEF TypeInv, Moved, Same, Placed, RequestType
  <2>2. /\ req' \in [Requests -> Placed \cup {None}]
        /\ \A q \in Requests : req'[q] # None => req'[q].of \in created
    BY <2>1, MovedPlaced DEF TypeInv, Same
  <2>3. UNCHANGED <<worker, opened, created, sent, disturbed>>
    BY <1>3 DEF RequestStep, Save, Unschedule, UnscheduleError, Schedule, DeleteRow, Answer, Fail,
       Go, adminVars, ghost
  <2>4. muddled' \subseteq Campaigns /\ stopped' \subseteq Campaigns
    BY <1>3, <2>1 DEF TypeInv, TypeOK, RequestStep, Save, Unschedule, UnscheduleError, Schedule,
       DeleteRow, Answer, Fail, Go, adminVars, ghost
  <2>5. scheduler' \subseteq created /\ scheduler' \subseteq Batches
    BY <1>3, <2>1 DEF TypeInv, TypeOK, RequestStep, Save, Unschedule, UnscheduleError, Schedule,
       DeleteRow, Answer, Fail
  <2>6. /\ QueueTypeOK'
        /\ \A d \in Campaigns \ {c} : jobState'[d] = jobState[d]
        /\ jobState[c] = "active" => jobState'[c] = "active"
    <3>1. \/ UNCHANGED queueVars
          \/ Settle(c, "absent") /\ jobState[c] # "active"
          \/ Add(c) /\ jobState[c] # "active"
      BY <1>3 DEF RequestStep, Save, Unschedule, UnscheduleError, Schedule, DeleteRow, Answer, Fail
    <3>2. CASE UNCHANGED queueVars
      BY <1>0, <3>2 DEF queueVars, QueueTypeOK
    <3> QED
      BY <1>0, <2>1, <3>1, <3>2, JobStep
  <2>7. row' = row \/ \E s \in StatusesOf(c) \cup {None} : row' = [row EXCEPT ![c] = s]
    <3>1. CASE Save(r)
      <4>1. /\ req[r] # None /\ req[r].at = "save"
            /\ row' = [row EXCEPT ![c] = CASE req[r].op = "pause"  -> "paused"
                                           [] req[r].op = "resume" -> "active"
                                           [] OTHER                -> req[r].read]
        BY <3>1 DEF Save, At
      <4>2. /\ req[r].read \in StatusesOf(c)
            /\ req[r].op \in {"pause", "resume"} => c \in Batches
        BY <4>1, PlacedAt DEF Placed, InPlace
      <4> QED
        BY <4>1, <4>2 DEF StatusesOf
    <3>2. CASE DeleteRow(r)
      BY <3>2 DEF DeleteRow
    <3>3. CASE ~Save(r) /\ ~DeleteRow(r)
      BY <1>3, <3>3 DEF RequestStep, Unschedule, UnscheduleError, Schedule, Answer, Fail
    <3> QED
      BY <3>1, <3>2, <3>3
  <2>8. /\ row' \in [Campaigns -> Statuses \cup {None}]
        /\ \A d \in Campaigns : row'[d] \in StatusesOf(d) \cup {None}
        /\ \A d \in Campaigns \ {c} : row'[d] = row[d]
    <3>1. StatusesOf(c) \subseteq Statuses
      BY DEF StatusesOf, Statuses
    <3> QED
      BY <2>1, <2>7, <3>1 DEF TypeInv, TypeOK
  <2>9. TypeOK'
    BY <2>2, <2>3, <2>4, <2>5, <2>6, <2>8 DEF TypeInv, TypeOK, Placed
  <2>10. \A d \in Campaigns \ created' : row'[d] = None /\ jobState'[d] = "absent"
    BY <2>1, <2>3, <2>6, <2>8 DEF TypeInv
  <2>11. worker' # None => /\ jobState'[worker'.of] = "active"
                           /\ worker'.at = "save" => worker'.of \in Announcements
    BY <2>1, <2>3, <2>6 DEF TypeInv, TypeOK, RunType
  <2> QED
    BY <2>2, <2>3, <2>5, <2>8, <2>9, <2>10, <2>11 DEF TypeInv
<1>4. ASSUME NEW c \in Campaigns, Tick(c) \/ Run(c) \/ Requeue(c) PROVE TypeInv'
  <2>1. /\ UNCHANGED <<row, scheduler, req, adminVars, sent, ghost>>
        /\ worker' = worker \/ (worker = None /\ worker' \in RunType /\ worker'.of = c
                                /\ worker'.at = "find" /\ jobState'[c] = "active")
    <3>1. CASE Run(c)
      <4>1. /\ worker = None /\ Activate(c) /\ worker' = [of |-> c, at |-> "find", late |-> FALSE]
            /\ UNCHANGED <<row, scheduler, req, adminVars, sent, ghost>>
        BY <3>1 DEF Run
      <4>2. [of |-> c, at |-> "find", late |-> FALSE] \in RunType
        BY DEF RunType
      <4>3. jobState'[c] = "active"
        BY <1>0, <4>1 DEF Activate, QueueTypeOK
      <4> QED
        BY <4>1, <4>2, <4>3
    <3> QED
      BY <1>4, <3>1 DEF Tick, Requeue
  <2>2. /\ QueueTypeOK'
        /\ \A d \in Campaigns : d # c => jobState'[d] = jobState[d]
    <3>1. CASE Tick(c)
      BY <1>0, <3>1 DEF Tick, QueueTypeOK, InFlight
    <3> QED
      BY <1>0, <1>4, <3>1, JobStep DEF Run, Requeue
  <2>3. worker = None \/ worker.of # c \/ jobState' = jobState
    BY <1>4 DEF TypeInv, Tick, Run, Requeue, Runs, Promote, InFlight
  <2>4. c \in created
    BY <1>4 DEF TypeInv, Tick, Run, Requeue, Activate, Promote, Stall
  <2>5. TypeOK'
    BY <2>1, <2>2 DEF TypeInv, TypeOK, adminVars, ghost
  <2>6. worker' # None => /\ jobState'[worker'.of] = "active"
                          /\ worker'.at = "save" => worker'.of \in Announcements
    BY <2>1, <2>2, <2>3 DEF TypeInv, TypeOK, RunType
  <2> QED
    BY <2>1, <2>2, <2>4, <2>5, <2>6 DEF TypeInv, adminVars, ghost
<1>5. CASE FindCampaign \/ Send
  <2>1. /\ worker' \in RunType /\ worker # None /\ worker'.of = worker.of
        /\ worker'.at = "save" => worker'.of \in Announcements
    <3>1. worker \in RunType /\ worker # None
      BY <1>5 DEF FindCampaign, Send, Working, TypeInv, TypeOK
    <3>2. CASE FindCampaign
      <4> DEFINE at == IF row[worker.of] \in {None, "paused"} THEN "done" ELSE "send"
                 late == worker.of \in stopped
      <4>1. worker' = [worker EXCEPT !.at = at, !.late = late]
        BY <3>2 DEF FindCampaign
      <4>2. at \in {"done", "send"} /\ late \in BOOLEAN
        OBVIOUS
      <4> HIDE DEF at, late
      <4> QED
        BY <3>1, <4>1, <4>2 DEF RunType
    <3>3. CASE Send
      BY <3>1, <3>3 DEF Send, RunType, Campaigns
    <3> QED
      BY <1>5, <3>2, <3>3
  <2>2. /\ sent' \in [Announcements -> 0 .. 2]
        /\ UNCHANGED <<queueVars, row, scheduler, req, adminVars, ghost>>
    BY <1>5 DEF FindCampaign, Send, TypeInv, TypeOK
  <2> QED
    BY <2>1, <2>2 DEF TypeInv, TypeOK, queueVars, adminVars, ghost, QueueTypeOK
<1>6. CASE SaveSent
  <2>1. /\ worker # None /\ worker.of \in Announcements /\ worker.of \in created
        /\ worker.of \in Campaigns
    BY <1>6 DEF SaveSent, Working, TypeInv, TypeOK, RunType
  <2>2. worker' \in RunType /\ worker'.of = worker.of /\ worker'.at = "done"
    BY <1>6, <2>1 DEF SaveSent, TypeInv, TypeOK, RunType
  <2>3. /\ row' = [row EXCEPT ![worker.of] = "sent"] /\ disturbed' \subseteq Announcements
        /\ UNCHANGED <<queueVars, scheduler, req, adminVars, sent, muddled, stopped>>
    BY <1>6 DEF SaveSent, Disturb, TypeInv, TypeOK
  <2>4. row' \in [Campaigns -> Statuses \cup {None}]
    BY <2>3 DEF TypeInv, TypeOK, Statuses
  <2>5. /\ \A c \in Campaigns : row'[c] \in StatusesOf(c) \cup {None}
        /\ \A c \in Campaigns \ created : row'[c] = None
    BY <2>1, <2>3 DEF TypeInv, TypeOK, StatusesOf
  <2> QED
    BY <2>1, <2>2, <2>3, <2>4, <2>5 DEF TypeInv, TypeOK, queueVars, adminVars, QueueTypeOK
<1>7. CASE Finish \/ Throw
  <2>1. /\ worker # None /\ worker.of \in Campaigns /\ worker.of \in created /\ worker' = None
        /\ disturbed' \subseteq Announcements
        /\ UNCHANGED <<row, scheduler, req, adminVars, sent, muddled, stopped>>
    BY <1>7 DEF Finish, Throw, Working, Disturb, TypeInv, TypeOK, RunType
  <2>2. /\ QueueTypeOK'
        /\ \A d \in Campaigns : d # worker.of => jobState'[d] = jobState[d]
    BY <1>0, <1>7, <2>1, JobStep DEF Finish, Throw
  <2> QED
    BY <2>1, <2>2 DEF TypeInv, TypeOK, adminVars
<1>8. CASE Crash
  <2>1. /\ req' = [r \in Requests |-> None] /\ worker' = None
        /\ muddled' \subseteq Campaigns /\ disturbed' \subseteq Announcements
        /\ UNCHANGED <<queueVars, row, scheduler, adminVars, sent, stopped>>
    BY <1>8 DEF Crash, Disturb, TypeInv, TypeOK
  <2> QED
    BY <2>1 DEF TypeInv, TypeOK, queueVars, adminVars, QueueTypeOK
<1>9. CASE UNCHANGED vars
  BY <1>9 DEF vars, queueVars, adminVars, ghost, TypeInv, TypeOK, QueueTypeOK
<1> QED
  BY <1>1, <1>2, <1>3, <1>4, <1>5, <1>6, <1>7, <1>8, <1>9 DEF Next, WorkerStep

-------------------------------------------------------------------------------
(* What a handler that starts does to the requests that are open.          *)
LEMMA Opens ==
    ASSUME TypeInv, NEW r \in Requests, NEW op, NEW at, NEW c, NEW read,
           Open(r, op, at, c, read)
    PROVE  /\ req[r] = None
           /\ req'[r].op = op /\ req'[r].at = at /\ req'[r].of = c /\ req'[r].read = read
           /\ req'[r].firm <=> \A p \in OpenOn(c) : ~Schedules(req[p].op, req[p].read)
           /\ req'[r].clean <=> OpenOn(c) = {}
           /\ \A q \in Requests \ {r} :
                 /\ req[q] # None /\ req[q].of = c =>
                       /\ OpenOn(c) # {} /\ Same(req'[q], req[q]) /\ req'[q].at = req[q].at
                       /\ req'[q].firm <=> req[q].firm /\ ~Schedules(op, read)
                       /\ ~req'[q].clean
                 /\ req[q] = None \/ req[q].of # c => req'[q] = req[q]
           /\ muddled' = IF OpenOn(c) = {} THEN muddled ELSE muddled \cup {c}
           /\ stopped' = IF op = "resume" THEN stopped \ {c} ELSE stopped
           /\ disturbed' = disturbed
<1> DEFINE f == \A p \in OpenOn(c) : ~Schedules(req[p].op, req[p].read)
           new == [op |-> op, at |-> at, of |-> c, read |-> read,
                   firm |-> f, clean |-> OpenOn(c) = {}]
           other(q) == [req[q] EXCEPT !.firm = @ /\ ~Schedules(op, read), !.clean = FALSE]
<1>0. /\ req[r] = None
      /\ muddled' = IF OpenOn(c) = {} THEN muddled ELSE muddled \cup {c}
      /\ stopped' = IF op = "resume" THEN stopped \ {c} ELSE stopped
      /\ disturbed' = disturbed
  BY DEF Open
<1>1. req' = [q \in Requests |-> CASE q = r -> new
                                  [] q \in OpenOn(c) -> other(q)
                                  [] OTHER -> req[q]]
  BY DEF Open
<1>2. r \notin OpenOn(c)
  BY <1>0 DEF OpenOn
<1> HIDE DEF new, f
<1>3. req'[r] = new
  BY <1>1, <1>2
<1>4. ASSUME NEW q \in Requests \ {r}, req[q] # None, req[q].of = c
      PROVE  /\ OpenOn(c) # {} /\ Same(req'[q], req[q]) /\ req'[q].at = req[q].at
             /\ req'[q].firm <=> req[q].firm /\ ~Schedules(op, read)
             /\ ~req'[q].clean
  <2>1. q \in OpenOn(c)
    BY <1>4 DEF OpenOn
  <2>2. req'[q] = other(q)
    BY <1>1, <2>1
  <2>3. req[q] \in RequestType
    BY <1>4, PlacedAt DEF Placed
  <2>4. /\ other(q).of = req[q].of /\ other(q).op = req[q].op /\ other(q).read = req[q].read
        /\ other(q).at = req[q].at /\ ~other(q).clean
    BY <2>3 DEF RequestType
  <2>5. other(q).firm <=> req[q].firm /\ ~Schedules(op, read)
    <3> DEFINE b == req[q].firm /\ ~Schedules(op, read)
    <3>1. other(q) = [req[q] EXCEPT !.firm = b, !.clean = FALSE]
      OBVIOUS
    <3> HIDE DEF b, other
    <3>2. other(q).firm = b
      BY <2>3, <3>1 DEF RequestType
    <3> QED
      BY <3>2 DEF b
  <2> HIDE DEF other
  <2> QED
    BY <1>4, <2>1, <2>2, <2>4, <2>5 DEF Same
<1>5. ASSUME NEW q \in Requests \ {r}, req[q] = None \/ req[q].of # c
      PROVE  req'[q] = req[q]
  <2>1. q \notin OpenOn(c)
    BY <1>5 DEF OpenOn
  <2> QED
    BY <1>1, <2>1
<1>6. /\ new.op = op /\ new.at = at /\ new.of = c /\ new.read = read
      /\ new.firm <=> f
      /\ new.clean <=> OpenOn(c) = {}
  BY DEF new
<1>7. req'[r].firm <=> f
  BY <1>3, <1>6
<1>8. f <=> \A p \in OpenOn(c) : ~Schedules(req[p].op, req[p].read)
  BY DEF f
<1> QED
  BY <1>0, <1>3, <1>4, <1>5, <1>6, <1>7, <1>8

(* The two actions that start a handler.                                   *)
LEMMA StartsOpen ==
    ASSUME TypeInv, NEW r \in Requests, NEW c \in Campaigns,
           Create(r, c) \/ \E op \in Ops \ {"create"} : Find(r, c, op)
    PROVE  \E op \in Ops, at \in {"schedule", "unschedule", "save"}, read \in StatusesOf(c) :
              /\ Open(r, op, at, c, read)
              /\ at = IF op = "create" THEN "schedule" ELSE IF op = "delete" THEN "unschedule" ELSE "save"
              /\ op = "create" => /\ read = IF c \in Announcements THEN "scheduled" ELSE "active"
                                  /\ c \notin created /\ row' = [row EXCEPT ![c] = read]
              /\ op # "create" => /\ row[c] = read /\ row' = row
                                  /\ op \in {"pause", "resume"} => c \in Batches
              /\ created \subseteq created'
              /\ UNCHANGED <<queueVars, scheduler, worker, sent>>
<1>1. CASE Create(r, c)
  BY <1>1 DEF Create, Ops, StatusesOf
<1>2. ASSUME NEW op \in Ops \ {"create"}, Find(r, c, op)
      PROVE  /\ Open(r, op, IF op = "delete" THEN "unschedule" ELSE "save", c, row[c])
             /\ row[c] \in StatusesOf(c) /\ row' = row
             /\ op \in {"pause", "resume"} => c \in Batches
             /\ created' = created
             /\ UNCHANGED <<queueVars, scheduler, worker, sent>>
  BY <1>2 DEF Find, TypeInv
<1> QED
  BY <1>1, <1>2

LEMMA AloneKept == TypeInv /\ AllAlone /\ [Next]_vars => AllAlone'
<1> SUFFICES ASSUME TypeInv, AllAlone, [Next]_vars PROVE AllAlone'
  OBVIOUS
<1>1. ASSUME NEW r \in Requests, NEW c \in Campaigns,
             Create(r, c) \/ \E op \in Ops \ {"create"} : Find(r, c, op)
      PROVE  AllAlone'
  <2>1. PICK op \in Ops, at \in {"schedule", "unschedule", "save"}, read \in StatusesOf(c) :
             Open(r, op, at, c, read)
    BY <1>1, StartsOpen
  <2>2. /\ req[r] = None
        /\ req'[r].of = c
        /\ req'[r].clean <=> OpenOn(c) = {}
        /\ \A q \in Requests \ {r} :
              /\ req[q] # None /\ req[q].of = c =>
                    /\ OpenOn(c) # {} /\ Same(req'[q], req[q])
                    /\ ~req'[q].clean
              /\ req[q] = None \/ req[q].of # c => req'[q] = req[q]
        /\ muddled' = IF OpenOn(c) = {} THEN muddled ELSE muddled \cup {c}
    BY <2>1, Opens
  <2> QED
    BY <2>2 DEF AllAlone, Same
<1>2. ASSUME NEW r \in Requests, RequestStep(r) \/ Fail(r) PROVE AllAlone'
  <2>1. Moved(r)
    BY <1>2, StepsMove
  <2>2. /\ \A q \in Requests : q # r => req'[q] = req[q]
        /\ req[r] # None
        /\ req'[r] # None => Same(req'[r], req[r]) /\ (req'[r].clean => req[r].clean)
    BY <2>1, MovedPlaced DEF Moved
  <2>3. \A q, s \in Requests :
          req'[q] # None /\ req'[s] # None /\ req'[q].of = req'[s].of /\ req'[q].clean => s = q
    BY <2>2 DEF AllAlone, Same
  <2>4. \/ req[r].of \in muddled'
        \/ muddled' = muddled /\ (req'[r] # None => (req'[r].clean <=> req[r].clean))
        \/ req'[r] = None /\ req[r].clean
    <3>1. CASE Save(r) \/ Unschedule(r) \/ Schedule(r) \/ DeleteRow(r)
      <4>1. muddled' = muddled /\ req' = [req EXCEPT ![r] = [req[r] EXCEPT !.at = After(r)]]
        BY <3>1 DEF Save, Unschedule, Schedule, DeleteRow, Go, ghost
      <4>2. [req[r] EXCEPT !.at = After(r)].clean = req[r].clean
        BY <2>2, PlacedAt DEF Placed, RequestType
      <4> QED
        BY <4>1, <4>2 DEF TypeInv
    <3>2. CASE UnscheduleError(r) \/ Fail(r)
      BY <3>2 DEF UnscheduleError, Fail
    <3>3. CASE Answer(r)
      BY <3>3 DEF Answer, TypeInv
    <3> QED
      BY <1>2, <3>1, <3>2, <3>3 DEF RequestStep
  <2>5. ASSUME NEW q \in Requests, q # r, req[q] # None, req[q].of = req[r].of, req[r].clean
        PROVE  FALSE
    BY <2>2, <2>5 DEF AllAlone
  <2>6. \A c \in muddled : c \in muddled' \/ c = req[r].of
    BY <1>2 DEF RequestStep, Save, Unschedule, UnscheduleError, Schedule, DeleteRow, Answer, Fail,
       Go, ghost
  <2>7. \A q \in Requests : req'[q] # None /\ req'[q].of \notin muddled' => req'[q].clean
    BY <2>2, <2>4, <2>5, <2>6 DEF AllAlone, Same
  <2> QED
    BY <2>3, <2>7 DEF AllAlone
<1>3. CASE Crash
  BY <1>3 DEF Crash, AllAlone
<1>4. CASE UNCHANGED <<req, muddled>>
  BY <1>4 DEF AllAlone
<1> QED
  BY <1>1, <1>2, <1>3, <1>4 DEF Next, Tick, Run, Requeue, WorkerStep, FindCampaign, Send, SaveSent,
     Finish, Throw, vars, ghost

-------------------------------------------------------------------------------
(* A step of a handler touches no other campaign, and no other request.    *)
LEMMA OnlyIts ==
    ASSUME TypeInv, NEW r \in Requests, RequestStep(r) \/ Fail(r)
    PROVE  /\ req[r] # None /\ req[r].of \in Campaigns
           /\ \A q \in Requests \ {r} : req'[q] = req[q]
           /\ req'[r] # None => /\ Same(req'[r], req[r]) /\ (req'[r].firm <=> req[r].firm)
                                /\ req'[r].clean => req[r].clean
           /\ \A c \in Campaigns : c # req[r].of =>
                 /\ row'[c] = row[c]
                 /\ c \in scheduler' <=> c \in scheduler
                 /\ c \in muddled' <=> c \in muddled
                 /\ c \in stopped' <=> c \in stopped
                 /\ jobState'[c] = jobState[c]
           /\ UNCHANGED <<worker, created, sent, disturbed>>
<1>1. Moved(r)
  BY StepsMove
<1>2. /\ req[r] # None /\ req[r].of \in Campaigns
      /\ \A q \in Requests \ {r} : req'[q] = req[q]
      /\ req'[r] # None => /\ Same(req'[r], req[r]) /\ req'[r].firm = req[r].firm
                           /\ req'[r].clean => req[r].clean
  BY <1>1, MovedPlaced, PlacedAt DEF Moved, Placed, RequestType
<1>3. \A c \in Campaigns : c # req[r].of =>
         /\ row'[c] = row[c]
         /\ c \in scheduler' <=> c \in scheduler
         /\ c \in muddled' <=> c \in muddled
         /\ c \in stopped' <=> c \in stopped
  BY DEF RequestStep, Save, Unschedule, UnscheduleError, Schedule, DeleteRow, Answer, Fail, Go, ghost,
     TypeInv, TypeOK
<1>4. UNCHANGED <<worker, created, sent, disturbed>>
  BY DEF RequestStep, Save, Unschedule, UnscheduleError, Schedule, DeleteRow, Answer, Fail, Go, ghost,
     adminVars
<1>5. \A c \in Campaigns : c # req[r].of => jobState'[c] = jobState[c]
  <2>1. UNCHANGED queueVars \/ Settle(req[r].of, "absent") \/ Add(req[r].of)
    BY DEF RequestStep, Save, Unschedule, UnscheduleError, Schedule, DeleteRow, Answer, Fail
  <2>2. QueueTypeOK
    BY DEF TypeInv, TypeOK
  <2> QED
    BY <1>2, <2>1, <2>2, JobStep DEF queueVars
<1> QED
  BY <1>2, <1>3, <1>4, <1>5

(* While a handler has something left to do: the next call made its way.   *)
LEMMA OwnInOrder ==
    ASSUME TypeInv, InOrder, AllAlone, NEW r \in Requests, RequestStep(r), req'[r] # None
    PROVE  (/\ req[r].clean => Written(req[r])
            /\ req[r].clean /\ req[r].of \in Batches => Arranged(req[r]))'
<1> DEFINE q == req[r]
           p == req'[r]
           c == req[r].of
<1>1. /\ q # None /\ c \in Campaigns /\ Same(p, q)
      /\ p.clean => q.clean
      /\ p # None
  BY OnlyIts, PlacedAt, StepsMove DEF Moved, Placed, InPlace
<1>2. InPlace(q) /\ q \in RequestType /\ row \in [Campaigns -> Statuses \cup {None}]
  BY <1>1, PlacedAt DEF Placed, TypeInv, TypeOK
<1>3. /\ q.at \in Stages(q.op) /\ q.op \in Ops
      /\ q.op \in {"pause", "resume"} => c \in Batches
      /\ c \in Batches => c \notin Announcements
      /\ c \in Batches => q.read \in {"active", "paused"}
  BY <1>2 DEF InPlace, RequestType, StatusesOf
<1>4. /\ q.clean => Written(q)
      /\ q.clean /\ c \in Batches => Arranged(q)
  BY <1>1 DEF InOrder
<1>5. CASE Save(r)
  <2>1. /\ q.at = "save" /\ p.at = After(r)
        /\ row'[c] = CASE q.op = "pause"  -> "paused"
                       [] q.op = "resume" -> "active"
                       [] OTHER           -> q.read
        /\ UNCHANGED <<scheduler, muddled>>
    BY <1>1, <1>2, <1>5, PlacedAt DEF Save, At, Go, ghost, TypeInv, RequestType
  <2>2. After(r) = CASE q.op = "resume" -> "schedule"
                     [] q.op = "pause"  -> "unschedule"
                     [] q.op = "update" /\ q.read \in {"scheduled", "active"} -> "unschedule"
                     [] OTHER -> "answer"
    BY <1>1, <2>1, NextPlace
  <2>3. q.op \in {"update", "pause", "resume"}
    BY <1>3, <2>1 DEF Stages, Ops
  <2>4. (q.clean => Written(q))'
    BY <1>1, <2>1, <2>2, <2>3 DEF Written, Same
  <2>5. (q.clean /\ q.of \in Batches => Arranged(q))'
    BY <1>1, <1>3, <1>4, <2>1, <2>2, <2>3 DEF Arranged, Matched, Same
  <2> QED
    BY <1>1, <2>4, <2>5 DEF Same
<1>6. CASE Unschedule(r)
  <2>1. /\ q.at = "unschedule" /\ p.at = After(r) /\ scheduler' = scheduler \ {c}
        /\ UNCHANGED <<row, muddled>>
    BY <1>1, <1>2, <1>6, PlacedAt DEF Unschedule, At, Go, ghost, TypeInv, RequestType
  <2>2. After(r) = CASE q.op = "update" -> "schedule"
                     [] q.op = "delete" -> "delete"
                     [] OTHER -> "answer"
    BY <1>1, <2>1, NextPlace
  <2>3. q.op \in {"update", "pause", "delete"}
    BY <1>3, <2>1 DEF Stages, Ops
  <2>4. (q.clean => Written(q))'
    BY <1>1, <1>4, <2>1, <2>2, <2>3 DEF Written, Same
  <2>5. (q.clean /\ q.of \in Batches => Arranged(q))'
    BY <1>1, <1>3, <1>4, <2>1, <2>2, <2>3 DEF Arranged, Matched, Same
  <2> QED
    BY <1>1, <2>4, <2>5 DEF Same
<1>7. CASE UnscheduleError(r)
  <2>1. /\ q.at = "unschedule" /\ p.at = After(r) /\ ~p.clean
        /\ UNCHANGED <<row, scheduler>>
    BY <1>1, <1>2, <1>7, PlacedAt DEF UnscheduleError, At, TypeInv, RequestType
  <2>2. After(r) = CASE q.op = "update" -> "schedule"
                     [] q.op = "delete" -> "delete"
                     [] OTHER -> "answer"
    BY <1>1, <2>1, NextPlace
  <2>3. q.op \in {"update", "pause", "delete"}
    BY <1>3, <2>1 DEF Stages, Ops
  <2>4. (q.clean => Written(q))'
    BY <1>1, <1>4, <2>1, <2>2, <2>3 DEF Written, Same
  <2> QED
    BY <2>1, <2>4
<1>8. CASE Schedule(r)
  <2>1. /\ q.at = "schedule" /\ p.at = After(r) /\ scheduler' = scheduler \cup ({c} \cap Batches)
        /\ UNCHANGED <<row, muddled>>
    BY <1>1, <1>2, <1>8, PlacedAt DEF Schedule, At, Go, ghost, TypeInv, RequestType
  <2>2. After(r) = "answer"
    BY <1>1, <2>1, NextPlace
  <2>3. /\ q.op \in {"create", "update", "resume"}
        /\ q.op = "update" => q.read \in {"scheduled", "active"}
    BY <1>2, <1>3, <2>1 DEF Stages, Ops, InPlace
  <2>4. (q.clean => Written(q))'
    BY <1>1, <1>4, <2>1, <2>2, <2>3 DEF Written, Same
  <2>5. (q.clean /\ q.of \in Batches => Arranged(q))'
    BY <1>1, <1>3, <1>4, <2>1, <2>2, <2>3 DEF Arranged, Matched, Same
  <2> QED
    BY <1>1, <2>4, <2>5 DEF Same
<1>9. CASE DeleteRow(r)
  <2>1. /\ q.at = "delete" /\ p.at = After(r) /\ row'[c] = None
        /\ UNCHANGED <<scheduler, muddled>>
    BY <1>1, <1>2, <1>9, PlacedAt DEF DeleteRow, At, Go, ghost, TypeInv, RequestType
  <2>2. After(r) = "answer"
    BY <1>1, <2>1, NextPlace
  <2>3. q.op = "delete"
    BY <1>3, <2>1 DEF Stages, Ops
  <2>4. (q.clean => Written(q))'
    BY <1>1, <2>1, <2>2, <2>3 DEF Written, Same
  <2>5. (q.clean /\ q.of \in Batches => Arranged(q))'
    BY <1>1, <1>3, <1>4, <2>1, <2>2, <2>3 DEF Arranged, Same
  <2> QED
    BY <1>1, <2>4, <2>5 DEF Same
<1> QED
  <2>1. ~Answer(r)
    BY DEF Answer, TypeInv
  <2> QED
    BY <1>5, <1>6, <1>7, <1>8, <1>9, <2>1 DEF RequestStep

(* A handler that answered, or failed, leaves its batch as it should be.   *)
LEMMA LeftInOrder ==
    ASSUME TypeInv, InOrder, AllAlone, NEW r \in Requests, RequestStep(r) \/ Fail(r),
           req'[r] = None, NEW c \in Batches, c = req[r].of, c \notin muddled'
    PROVE  Matched(c)'
<1> DEFINE q == req[r]
<1>1. q # None /\ q \in RequestType /\ InPlace(q) /\ c \in Campaigns
  BY OnlyIts, PlacedAt DEF Placed
<1>2. Answer(r) \/ Fail(r)
  <2>1. CASE UnscheduleError(r)
    BY <1>1, <2>1, NextPlace, NoneUnplaced DEF UnscheduleError, At, TypeInv
  <2>2. CASE Save(r) \/ Unschedule(r) \/ Schedule(r) \/ DeleteRow(r)
    BY <1>1, <2>2, NextPlace, NoneUnplaced DEF Save, Unschedule, Schedule, DeleteRow, At, Go, TypeInv
  <2> QED
    BY <2>1, <2>2 DEF RequestStep
<1>3. Answer(r)
  BY <1>2 DEF Fail
<1>4. /\ q.at = "answer" /\ UNCHANGED <<row, scheduler>>
      /\ muddled' = IF q.clean /\ q.op \in {"pause", "resume", "delete"} THEN muddled \ {c} ELSE muddled
  BY <1>3 DEF Answer, At
<1>5. q.clean
  BY <1>1, <1>4 DEF AllAlone
<1>6. Written(q) /\ Arranged(q)
  BY <1>1, <1>5 DEF InOrder, InPlace
<1>7. c \notin Announcements /\ row[c] \in {"active", "paused", None} /\ q.op \in Ops
  BY <1>1 DEF TypeInv, StatusesOf, RequestType
<1>8. c \in muddled => q.op \in {"pause", "resume", "delete"}
  BY <1>4
<1>9. None # "active" /\ None # "sent"
  BY DEF Statuses
<1>10. Matched(c)
  <2>1. CASE q.op = "pause"
    BY <1>4, <1>6, <2>1 DEF Written, Arranged, Matched
  <2>2. CASE q.op = "resume"
    BY <1>4, <1>6, <2>2 DEF Written, Arranged, Matched
  <2>3. CASE q.op = "delete"
    BY <1>4, <1>6, <1>7, <1>9, <2>3 DEF Written, Arranged, Matched
  <2>4. CASE q.op = "create"
    BY <1>4, <1>6, <2>4 DEF Written, Arranged, Matched
  <2>5. CASE q.op = "update"
    BY <1>4, <1>6, <1>8, <2>5 DEF Arranged
  <2> QED
    BY <1>7, <2>1, <2>2, <2>3, <2>4, <2>5 DEF Ops
<1> QED
  BY <1>4, <1>10 DEF Matched

LEMMA OrderKept == TypeInv /\ AllAlone /\ InOrder /\ [Next]_vars => InOrder'
<1> SUFFICES ASSUME TypeInv, AllAlone, InOrder, [Next]_vars PROVE InOrder'
  OBVIOUS
<1>0. Batches \subseteq Campaigns /\ \A c \in Batches : c \notin Announcements
  BY DEF Campaigns
<1>1. ASSUME NEW r \in Requests, NEW c \in Campaigns,
             Create(r, c) \/ \E op \in Ops \ {"create"} : Find(r, c, op)
      PROVE  InOrder'
  <2>1. PICK op \in Ops, at \in {"schedule", "unschedule", "save"}, read \in StatusesOf(c) :
             /\ Open(r, op, at, c, read)
             /\ at = IF op = "create" THEN "schedule" ELSE IF op = "delete" THEN "unschedule" ELSE "save"
             /\ op = "create" => /\ read = IF c \in Announcements THEN "scheduled" ELSE "active"
                                 /\ row' = [row EXCEPT ![c] = read]
             /\ op # "create" => /\ row[c] = read /\ row' = row
                                 /\ op \in {"pause", "resume"} => c \in Batches
             /\ UNCHANGED <<queueVars, scheduler, worker, sent>>
    BY <1>1, StartsOpen
  <2>2. /\ req[r] = None
        /\ req'[r].op = op /\ req'[r].at = at /\ req'[r].of = c /\ req'[r].read = read
        /\ req'[r].clean <=> OpenOn(c) = {}
        /\ \A q \in Requests \ {r} :
              /\ req[q] # None /\ req[q].of = c =>
                    /\ OpenOn(c) # {} /\ Same(req'[q], req[q])
                    /\ ~req'[q].clean
              /\ req[q] = None \/ req[q].of # c => req'[q] = req[q]
        /\ muddled' = IF OpenOn(c) = {} THEN muddled ELSE muddled \cup {c}
    BY <2>1, Opens
  <2>3. /\ row \in [Campaigns -> Statuses \cup {None}]
        /\ \A d \in Campaigns : d # c => row'[d] = row[d]
        /\ op = "create" => row'[c] = read
        /\ op # "create" => row'[c] = row[c] /\ row[c] = read
        /\ scheduler' = scheduler
    BY <2>1 DEF TypeInv, TypeOK
  <2>4. (req[r].clean => Written(req[r]))'
    BY <1>0, <2>1, <2>2, <2>3 DEF Written
  <2>5. (req[r].clean /\ req[r].of \in Batches => Arranged(req[r]))'
    BY <2>1, <2>2, <2>3 DEF Arranged, Matched, InOrder
  <2>6. ASSUME NEW q \in Requests, q # r, req'[q] # None, req'[q].clean
        PROVE  /\ req'[q] = req[q] /\ req[q].of \in Campaigns /\ req[q].of # c
               /\ row'[req[q].of] = row[req[q].of]
               /\ req[q].of \in muddled' <=> req[q].of \in muddled
    <3>1. req[q] # None /\ req[q].of # c /\ req'[q] = req[q]
      BY <2>2, <2>6
    <3>2. req[q].of \in Campaigns
      BY <3>1, PlacedAt DEF Placed, RequestType
    <3> QED
      BY <2>2, <2>3, <3>1, <3>2
  <2>7. \A q \in Requests : (req[q] # None /\ req[q].clean => Written(req[q]))'
    BY <2>4, <2>6 DEF InOrder, Written
  <2>8. \A q \in Requests : (req[q] # None /\ req[q].clean /\ req[q].of \in Batches => Arranged(req[q]))'
    BY <2>3, <2>5, <2>6 DEF InOrder, Arranged, Matched
  <2>9. ASSUME NEW d \in Batches, d \notin muddled', OpenOn(d)' = {} PROVE Matched(d)'
    <3>1. req'[r] # None
      <4>1. at \in Stages(op) /\ (op = "update" => at = "save") /\ (op = "create" => read # "sent")
        BY <2>1 DEF Stages, Ops
      <4> QED
        BY <2>1, <4>1, OpenPlaced
    <3>2. d # c
      BY <2>2, <2>9, <3>1 DEF OpenOn
    <3>3. OpenOn(d) = {}
      BY <2>2, <2>9, <3>2 DEF OpenOn
    <3>4. d \notin muddled
      BY <2>2, <2>9
    <3> QED
      BY <1>0, <2>3, <2>9, <3>2, <3>3, <3>4 DEF InOrder, Matched
  <2> QED
    BY <2>7, <2>8, <2>9 DEF InOrder
<1>2. ASSUME NEW r \in Requests, RequestStep(r) \/ Fail(r) PROVE InOrder'
  <2> DEFINE c == req[r].of
  <2>1. /\ req[r] # None /\ c \in Campaigns
        /\ \A q \in Requests \ {r} : req'[q] = req[q]
        /\ req'[r] # None => Same(req'[r], req[r])
        /\ \A d \in Campaigns : d # c =>
              /\ row'[d] = row[d]
              /\ d \in scheduler' <=> d \in scheduler
              /\ d \in muddled' <=> d \in muddled
    BY <1>2, OnlyIts
  <2>2. req'[r] # None => (/\ req[r].clean => Written(req[r])
                           /\ req[r].clean /\ req[r].of \in Batches => Arranged(req[r]))'
    BY <1>2, OwnInOrder DEF Fail, TypeInv
  <2>3. ASSUME NEW q \in Requests, q # r, req'[q] # None, req'[q].clean
        PROVE  req'[q] = req[q] /\ req[q].of \in Campaigns /\ req[q].of # c
    <3>1. req[q] # None /\ req'[q] = req[q]
      BY <2>1, <2>3
    <3>2. req[q].of \in Campaigns
      BY <3>1, PlacedAt DEF Placed, RequestType, InPlace
    <3> QED
      BY <2>1, <2>3, <3>1, <3>2 DEF AllAlone
  <2>4. \A q \in Requests : (req[q] # None /\ req[q].clean => Written(req[q]))'
    BY <2>1, <2>2, <2>3 DEF InOrder, Written
  <2>5. \A q \in Requests : (req[q] # None /\ req[q].clean /\ req[q].of \in Batches => Arranged(req[q]))'
    BY <2>1, <2>2, <2>3 DEF InOrder, Arranged, Matched
  <2>6. ASSUME NEW d \in Batches, d \notin muddled', OpenOn(d)' = {} PROVE Matched(d)'
    <3>1. CASE d = c
      <4>1. req'[r] = None
        BY <2>1, <2>6, <3>1 DEF OpenOn, Same
      <4> QED
        BY <1>2, <2>6, <3>1, <4>1, LeftInOrder
    <3>2. CASE d # c
      <4>1. OpenOn(d) = {}
        BY <2>1, <2>6, <3>2 DEF OpenOn
      <4> QED
        BY <1>0, <2>1, <2>6, <3>2, <4>1 DEF InOrder, Matched
    <3> QED
      BY <3>1, <3>2
  <2> QED
    BY <2>4, <2>5, <2>6 DEF InOrder
<1>3. CASE SaveSent
  <2>1. /\ worker.of \in Announcements /\ row' = [row EXCEPT ![worker.of] = "sent"]
        /\ UNCHANGED <<scheduler, req, muddled>>
    BY <1>3 DEF SaveSent, Working, TypeInv
  <2>2. \A d \in Batches : row'[d] = row[d]
    BY <1>0, <2>1 DEF TypeInv, TypeOK
  <2>3. \A d \in Campaigns : row'[d] = row[d] \/ row'[d] = "sent"
    BY <2>1 DEF TypeInv, TypeOK
  <2>4. ASSUME NEW q \in Requests, req[q] # None, req[q].clean PROVE Written(req[q])'
    <3>1. req[q] \in RequestType /\ InPlace(req[q]) /\ Written(req[q])
      BY <2>4, PlacedAt DEF Placed, InOrder
    <3>2. req[q].of \in Campaigns
      BY <3>1 DEF RequestType
    <3> QED
      BY <2>1, <2>2, <2>3, <3>1, <3>2 DEF Written, InPlace
  <2>5. ASSUME NEW q \in Requests, req[q] # None, req[q].clean, req[q].of \in Batches
        PROVE  Arranged(req[q])'
    BY <2>1, <2>2, <2>5 DEF InOrder, Arranged, Matched
  <2> QED
    BY <2>1, <2>2, <2>4, <2>5 DEF InOrder, Matched, OpenOn
<1>4. CASE Crash
  <2>1. \A d \in Batches \ muddled' : OpenOn(d) = {} /\ d \notin muddled
    BY <1>0, <1>4 DEF Crash
  <2> QED
    BY <1>4, <2>1 DEF Crash, InOrder, Matched
<1>5. CASE UNCHANGED <<row, scheduler, req, muddled>>
  BY <1>5 DEF InOrder, Written, Arranged, Matched, OpenOn
<1> QED
  BY <1>1, <1>2, <1>3, <1>4, <1>5 DEF Next, Tick, Run, Requeue, WorkerStep, FindCampaign, Send,
     Finish, Throw, vars, ghost

-------------------------------------------------------------------------------
(* What a step of a handler does to its own campaign if that is stopped,   *)
(* or if it is an announcement that was sent: it adds no job and writes    *)
(* PAUSED, SENT or nothing.                                                *)
LEMMA OwnIsQuiet ==
    ASSUME TypeInv, NEW r \in Requests, RequestStep(r) \/ Fail(r),
           req[r].op \in {"update", "pause", "delete"},
           req[r].op = "update" => req[r].read \in {"paused", "sent"}
    PROVE  LET c == req[r].of IN
           /\ \/ row'[c] = row[c] \/ row'[c] = None
              \/ req[r].op = "pause" /\ row'[c] = "paused"
              \/ req[r].op = "update" /\ row'[c] = req[r].read
           /\ jobState'[c] \in {jobState[c], "absent"}
<1> DEFINE q == req[r]
           c == q.of
<1>1. q # None /\ q \in RequestType /\ InPlace(q) /\ c \in Campaigns
  BY OnlyIts, PlacedAt DEF Placed
<1>2. row \in [Campaigns -> Statuses \cup {None}] /\ jobState \in [Campaigns -> InFlight \cup Settled \cup {"absent"}]
  BY DEF TypeInv, TypeOK, QueueTypeOK
<1>3. ~Schedule(r)
  BY <1>1 DEF Schedule, At, InPlace, Stages
<1>4. CASE Save(r)
  <2>1. row'[c] = (CASE q.op = "pause"  -> "paused"
                     [] q.op = "resume" -> "active"
                     [] OTHER           -> q.read) /\ jobState' = jobState
    BY <1>1, <1>2, <1>4 DEF Save, queueVars
  <2>2. q.op # "delete"
    BY <1>1, <1>4 DEF Save, At, InPlace, Stages
  <2> QED
    BY <2>1, <2>2
<1>5. CASE Unschedule(r)
  BY <1>1, <1>2, <1>5 DEF Unschedule, Settle, queueVars
<1>6. CASE UnscheduleError(r) \/ DeleteRow(r) \/ Answer(r) \/ Fail(r)
  BY <1>1, <1>2, <1>6 DEF UnscheduleError, DeleteRow, Answer, Fail, queueVars
<1> QED
  BY <1>3, <1>4, <1>5, <1>6 DEF RequestStep

(* What the queue does to the jobs.                                        *)
LEMMA OnlyThatJob ==
    ASSUME TypeInv, NEW c \in Campaigns, Tick(c) \/ Run(c) \/ Requeue(c)
    PROVE  /\ \A d \in Campaigns : d # c => jobState'[d] = jobState[d]
           /\ c \in Announcements => jobState[c] \in InFlight
           /\ UNCHANGED <<row, scheduler, req, created, sent, muddled, stopped, disturbed>>
           /\ worker' = worker \/ (worker = None /\ worker'.of = c /\ worker'.at = "find")
<1>0. QueueTypeOK
  BY DEF TypeInv, TypeOK
<1>1. \A d \in Campaigns : d # c => jobState'[d] = jobState[d]
  <2>1. CASE Tick(c)
    BY <1>0, <2>1 DEF Tick, QueueTypeOK
  <2> QED
    BY <1>0, <2>1, JobStep DEF Run, Requeue
<1>2. c \in Announcements => jobState[c] \in InFlight
  BY DEF Tick, Run, Requeue, Activate, Promote, Stall, InFlight, TypeInv, TypeOK
<1> QED
  BY <1>1, <1>2 DEF Tick, Run, Requeue, adminVars, ghost

(* The handlers that do not schedule their campaign.                       *)
LEMMA ScheduleNone ==
    ASSUME TypeInv, NEW q \in Requests, req[q] # None, ~Schedules(req[q].op, req[q].read)
    PROVE  /\ req[q].op \in {"update", "pause", "delete"}
           /\ req[q].op = "update" => req[q].read \in {"paused", "sent"}
BY PlacedAt DEF Placed, RequestType, Ops, Statuses, Schedules

(* A pause or deletion takes its campaign out when it says so.             *)
LEMMA OwnTakes ==
    ASSUME TypeInv, AllFirm, NEW r \in Requests, RequestStep(r) \/ Fail(r),
           req'[r] # None, req[r].firm, Takes(req[r])'
    PROVE  row'[req[r].of] \in Unsent
<1> DEFINE q == req[r]
<1>1. /\ q # None /\ q.of \in Campaigns /\ Same(req'[r], q)
      /\ q \in RequestType /\ InPlace(q) /\ req'[r] \in Placed
  BY OnlyIts, PlacedAt, StepsMove DEF Moved, Placed
<1>2. row \in [Campaigns -> Statuses \cup {None}]
  BY DEF TypeInv, TypeOK
<1>3. q.op \in {"pause", "delete"}
  BY <1>1 DEF Takes, Same
<1>4. CASE Save(r)
  <2>1. q.op = "pause"
    BY <1>1, <1>3, <1>4 DEF Save, At, InPlace, Stages
  <2> QED
    BY <1>1, <1>2, <1>4, <2>1 DEF Save, Unsent
<1>5. CASE DeleteRow(r)
  BY <1>1, <1>2, <1>5 DEF DeleteRow, Unsent
<1>6. CASE Unschedule(r) \/ UnscheduleError(r)
  <2>1. /\ row' = row /\ q.at = "unschedule"
        /\ req'[r].at = After(r)
    BY <1>1, <1>6, PlacedAt DEF Unschedule, UnscheduleError, At, Go, TypeInv, RequestType
  <2>2. q.op = "pause"
    BY <1>1, <1>3, <2>1, NextPlace DEF Takes, Same
  <2> QED
    BY <1>1, <2>1, <2>2 DEF AllFirm, Takes
<1>7. ~Schedule(r)
  BY <1>1, <1>3 DEF Schedule, At, InPlace, Stages
<1>8. ~Answer(r) /\ ~Fail(r)
  BY DEF Answer, Fail, TypeInv
<1> QED
  BY <1>4, <1>5, <1>6, <1>7, <1>8 DEF RequestStep

LEMMA FirmKept == TypeInv /\ AllFirm /\ [Next]_vars => AllFirm'
<1> SUFFICES ASSUME TypeInv, AllFirm, [Next]_vars PROVE AllFirm'
  OBVIOUS
<1>1. ASSUME NEW r \in Requests, NEW c \in Campaigns,
             Create(r, c) \/ \E op \in Ops \ {"create"} : Find(r, c, op)
      PROVE  AllFirm'
  <2>1. PICK op \in Ops, at \in {"schedule", "unschedule", "save"}, read \in StatusesOf(c) :
             /\ Open(r, op, at, c, read)
             /\ at = IF op = "create" THEN "schedule" ELSE IF op = "delete" THEN "unschedule" ELSE "save"
             /\ op = "create" => c \notin created /\ row' = [row EXCEPT ![c] = read]
             /\ op # "create" => row' = row
    BY <1>1, StartsOpen
  <2>2. /\ req'[r].op = op /\ req'[r].at = at /\ req'[r].of = c /\ req'[r].read = read
        /\ req'[r].firm <=> \A p \in OpenOn(c) : ~Schedules(req[p].op, req[p].read)
        /\ \A q \in Requests \ {r} :
              /\ req[q] # None /\ req[q].of = c =>
                    /\ Same(req'[q], req[q]) /\ req'[q].at = req[q].at
                    /\ req'[q].firm <=> req[q].firm /\ ~Schedules(op, read)
              /\ req[q] = None \/ req[q].of # c => req'[q] = req[q]
    BY <2>1, Opens
  <2>3. ASSUME NEW q \in Requests \ {r}, req'[q] # None
        PROVE  /\ req[q] # None /\ Same(req'[q], req[q]) /\ req'[q].at = req[q].at
               /\ req'[q].firm => req[q].firm /\ (req[q].of = c => ~Schedules(op, read))
               /\ row'[req[q].of] = row[req[q].of]
    <3>1. /\ req[q] # None /\ Same(req'[q], req[q]) /\ req'[q].at = req[q].at
          /\ req'[q].firm => req[q].firm /\ (req[q].of = c => ~Schedules(op, read))
      BY <2>2, <2>3 DEF Same
    <3>2. req[q].of \in created /\ row \in [Campaigns -> Statuses \cup {None}] /\ created \subseteq Campaigns
      BY <3>1 DEF TypeInv, TypeOK
    <3> QED
      BY <2>1, <3>1, <3>2
  <2>4. ASSUME NEW p \in Requests, req'[p] # None, req'[p].firm,
               NEW q \in Requests \ {p}, req'[q] # None, req'[q].of = req'[p].of
        PROVE  ~Schedules(req'[q].op, req'[q].read)
    <3>1. CASE p = r
      BY <2>2, <2>3, <2>4, <3>1 DEF OpenOn, Same
    <3>2. CASE q = r
      BY <2>2, <2>3, <2>4, <3>2 DEF Same
    <3>3. CASE p # r /\ q # r
      BY <2>3, <2>4, <3>3 DEF AllFirm, Same
    <3> QED
      BY <3>1, <3>2, <3>3
  <2>5. ASSUME NEW p \in Requests, req'[p] # None, req'[p].firm, Takes(req[p])'
        PROVE  row'[req'[p].of] \in Unsent
    <3>1. p # r
      BY <2>1, <2>2, <2>5 DEF Takes
    <3> QED
      BY <2>3, <2>5, <3>1 DEF AllFirm, Takes, Same
  <2> QED
    BY <2>4, <2>5 DEF AllFirm, Takes, Unsent
<1>2. ASSUME NEW r \in Requests, RequestStep(r) \/ Fail(r) PROVE AllFirm'
  <2> DEFINE c == req[r].of
  <2>1. /\ req[r] # None /\ c \in Campaigns
        /\ \A q \in Requests \ {r} : req'[q] = req[q]
        /\ req'[r] # None => Same(req'[r], req[r]) /\ (req'[r].firm <=> req[r].firm)
        /\ \A e \in Campaigns : e # c => row'[e] = row[e]
    BY <1>2, OnlyIts
  <2>2. ASSUME NEW p \in Requests, req'[p] # None, req'[p].firm,
               NEW q \in Requests \ {p}, req'[q] # None, req'[q].of = req'[p].of
        PROVE  ~Schedules(req'[q].op, req'[q].read)
    BY <2>1, <2>2 DEF AllFirm, Same
  <2>3. ASSUME NEW p \in Requests, req'[p] # None, req'[p].firm, Takes(req[p])'
        PROVE  row'[req'[p].of] \in Unsent
    <3>1. CASE p = r
      BY <1>2, <2>1, <2>3, <3>1, OwnTakes DEF Same
    <3>2. CASE p # r
      <4>1. /\ req'[p] = req[p] /\ req[p] # None /\ req[p].firm /\ Takes(req[p])
            /\ row[req[p].of] \in Unsent
        BY <2>1, <2>3, <3>2 DEF AllFirm, Takes
      <4>2. req[p].of \in Campaigns
        BY <4>1, PlacedAt DEF Placed, RequestType
      <4>3. CASE req[p].of = c
        <5>1. ~Schedules(req[r].op, req[r].read)
          BY <2>1, <3>2, <4>1, <4>3 DEF AllFirm
        <5>2. /\ req[r].op \in {"update", "pause", "delete"}
              /\ req[r].op = "update" => req[r].read \in {"paused", "sent"}
          BY <2>1, <5>1, ScheduleNone
        <5>3. \/ row'[c] = row[c] \/ row'[c] = None \/ row'[c] = "paused"
              \/ req[r].op = "update" /\ row'[c] = req[r].read
          BY <1>2, <5>2, OwnIsQuiet
        <5> QED
          BY <4>1, <4>3, <5>2, <5>3 DEF Unsent
      <4> QED
        BY <2>1, <4>1, <4>2, <4>3
    <3> QED
      BY <3>1, <3>2
  <2> QED
    BY <2>2, <2>3 DEF AllFirm, Takes, Unsent
<1>3. CASE SaveSent
  <2>1. req' = req /\ row' = [row EXCEPT ![worker.of] = "sent"]
    BY <1>3 DEF SaveSent
  <2>2. \A r \in Requests : req[r] # None => req[r].of \in Campaigns
    BY PlacedAt DEF Placed, RequestType
  <2>3. \A d \in Campaigns : row'[d] = row[d] \/ row'[d] = "sent"
    BY <2>1 DEF TypeInv, TypeOK
  <2> QED
    BY <2>1, <2>2, <2>3 DEF AllFirm, Takes, Unsent
<1>4. CASE Crash
  BY <1>4 DEF Crash, AllFirm
<1>5. CASE UNCHANGED <<row, req>>
  BY <1>5 DEF AllFirm, Takes
<1> QED
  BY <1>1, <1>2, <1>3, <1>4, <1>5 DEF Next, Tick, Run, Requeue, WorkerStep, FindCampaign, Send,
     Finish, Throw, vars

LEMMA StoppedKept == TypeInv /\ AllFirm /\ AllStopped /\ [Next]_vars => AllStopped'
<1> SUFFICES ASSUME TypeInv, AllFirm, AllStopped, [Next]_vars,
                    NEW d \in stopped'
             PROVE  Stopped(d)'
  BY DEF AllStopped
<1>0. /\ stopped \subseteq Campaigns /\ \A c \in Batches : c \in Campaigns /\ c \notin Announcements
      /\ \A c \in stopped : Stopped(c)
      /\ \A c \in Announcements : c \in Campaigns
  BY DEF Campaigns, TypeInv, TypeOK, AllStopped
<1>1. ASSUME NEW r \in Requests, NEW c \in Campaigns,
             Create(r, c) \/ \E op \in Ops \ {"create"} : Find(r, c, op)
      PROVE  Stopped(d)'
  <2>1. PICK op \in Ops, at \in {"schedule", "unschedule", "save"}, read \in StatusesOf(c) :
             /\ Open(r, op, at, c, read)
             /\ op = "create" => c \notin created /\ row' = [row EXCEPT ![c] = read]
             /\ op # "create" => row[c] = read /\ row' = row
             /\ created \subseteq created'
             /\ UNCHANGED <<queueVars, scheduler, worker, sent>>
    BY <1>1, StartsOpen
  <2>2. /\ req[r] = None
        /\ req'[r].op = op /\ req'[r].of = c /\ req'[r].read = read
        /\ \A q \in Requests \ {r} :
              /\ req[q] # None /\ req[q].of = c => Same(req'[q], req[q])
              /\ req[q] = None \/ req[q].of # c => req'[q] = req[q]
        /\ stopped' = IF op = "resume" THEN stopped \ {c} ELSE stopped
    BY <2>1, Opens
  <2>3. d \in stopped /\ Stopped(d) /\ (d = c => op # "resume")
    BY <1>0, <2>2
  <2>4. d = c => op # "create" /\ row[c] = read /\ read # None
    BY <2>1, <2>3 DEF Stopped, StatusesOf, Statuses
  <2>5. row'[d] = row[d] /\ jobState' = jobState /\ d \in created'
    BY <1>0, <2>1, <2>3, <2>4 DEF Stopped, TypeInv, TypeOK, queueVars
  <2>6. ASSUME NEW q \in Requests, req'[q] # None, req'[q].of = d
        PROVE  /\ req'[q].op \in {"update", "pause", "delete"}
               /\ req'[q].op = "update" => req'[q].read \in {"paused", "sent"}
    <3>1. CASE q = r
      BY <2>2, <2>3, <2>4, <2>6, <3>1 DEF Stopped, Ops
    <3>2. CASE q # r
      <4>1. req[q] # None /\ Same(req'[q], req[q])
        BY <2>2, <2>6, <3>2 DEF Same
      <4> QED
        BY <2>3, <2>6, <4>1 DEF Stopped, OpenOn, Same
    <3> QED
      BY <3>1, <3>2
  <2> QED
    BY <2>3, <2>5, <2>6 DEF Stopped, OpenOn
<1>2. ASSUME NEW r \in Requests, RequestStep(r) \/ Fail(r) PROVE Stopped(d)'
  <2> DEFINE c == req[r].of
  <2>1. /\ req[r] # None /\ c \in Campaigns
        /\ \A q \in Requests \ {r} : req'[q] = req[q]
        /\ req'[r] # None => Same(req'[r], req[r])
        /\ \A e \in Campaigns : e # c =>
              /\ row'[e] = row[e] /\ jobState'[e] = jobState[e]
              /\ e \in stopped' <=> e \in stopped
        /\ created' = created
    BY <1>2, OnlyIts
  <2>2. CASE d \in stopped
    <3>1. Stopped(d)
      BY <1>0, <2>2
    <3>2. \A q \in OpenOn(d)' : q \in OpenOn(d) /\ Same(req'[q], req[q])
      BY <2>1 DEF OpenOn, Same
    <3>3. d = c => /\ row'[d] \in {None, "paused", "sent"}
                   /\ d \in Announcements => jobState'[d] \notin InFlight
      <4>1. CASE d = c
        <5>1. r \in OpenOn(d)
          BY <2>1, <4>1 DEF OpenOn
        <5>2. /\ req[r].op \in {"update", "pause", "delete"}
              /\ req[r].op = "update" => req[r].read \in {"paused", "sent"}
          BY <3>1, <5>1 DEF Stopped
        <5>3. /\ \/ row'[c] = row[c] \/ row'[c] = None \/ row'[c] = "paused"
                 \/ req[r].op = "update" /\ row'[c] = req[r].read
              /\ jobState'[c] \in {jobState[c], "absent"}
          BY <1>2, <5>2, OwnIsQuiet
        <5> QED
          BY <3>1, <4>1, <5>2, <5>3 DEF Stopped, InFlight
      <4> QED
        BY <4>1
    <3> QED
      BY <1>0, <2>1, <2>2, <3>1, <3>2, <3>3 DEF Stopped, Same
  <2>3. CASE d \notin stopped
    <3>1. /\ Answer(r) /\ d = c /\ req[r].firm /\ req[r].op \in {"pause", "delete"}
          /\ d \in Announcements => jobState[d] \notin InFlight
      BY <1>2, <2>3 DEF RequestStep, Save, Unschedule, UnscheduleError, Schedule, DeleteRow, Answer, Fail,
         Go, ghost
    <3>2. req'[r] = None /\ req[r].at = "answer" /\ UNCHANGED <<queueVars, row>>
      BY <3>1 DEF Answer, At, TypeInv
    <3>3. ASSUME NEW q \in Requests, req'[q] # None, req'[q].of = d
          PROVE  /\ req'[q].op \in {"update", "pause", "delete"}
                 /\ req'[q].op = "update" => req'[q].read \in {"paused", "sent"}
      <4>1. q # r /\ req'[q] = req[q]
        BY <2>1, <3>2, <3>3
      <4>2. ~Schedules(req[q].op, req[q].read)
        BY <2>1, <3>1, <3>3, <4>1 DEF AllFirm
      <4> QED
        BY <3>3, <4>1, <4>2, ScheduleNone
    <3>4. row[d] \in {None, "paused", "sent"}
      BY <2>1, <3>1, <3>2 DEF AllFirm, Takes, Unsent
    <3>5. d \in created
      BY <2>1, <3>1 DEF TypeInv
    <3> QED
      BY <2>1, <3>1, <3>2, <3>3, <3>4, <3>5 DEF Stopped, OpenOn, queueVars
  <2> QED
    BY <2>2, <2>3
<1>3. ASSUME NEW c \in Campaigns, Tick(c) \/ Run(c) \/ Requeue(c) PROVE Stopped(d)'
  BY <1>0, <1>3, OnlyThatJob DEF Stopped, OpenOn
<1>4. CASE FindCampaign \/ Send
  BY <1>0, <1>4 DEF FindCampaign, Send, Stopped, OpenOn, ghost, queueVars, adminVars
<1>5. CASE SaveSent
  <2>1. /\ worker # None /\ jobState[worker.of] = "active" /\ worker.of \in Announcements
        /\ row' = [row EXCEPT ![worker.of] = "sent"]
        /\ UNCHANGED <<queueVars, req, created, stopped>>
    BY <1>5 DEF SaveSent, Working, TypeInv, adminVars
  <2>2. d # worker.of
    BY <1>0, <2>1 DEF Stopped, InFlight
  <2> QED
    BY <1>0, <2>1, <2>2 DEF Stopped, OpenOn, queueVars, TypeInv, TypeOK
<1>6. CASE Finish \/ Throw
  <2>1. /\ worker # None /\ worker.of \in Campaigns /\ jobState[worker.of] = "active"
        /\ UNCHANGED <<row, req, created, stopped>>
    BY <1>6 DEF Finish, Throw, Working, TypeInv, TypeOK, RunType, adminVars
  <2>2. \A e \in Campaigns : e # worker.of => jobState'[e] = jobState[e]
    BY <1>6, <2>1, JobStep DEF Finish, Throw, TypeInv, TypeOK
  <2> QED
    BY <1>0, <2>1, <2>2 DEF Stopped, OpenOn, InFlight
<1>7. CASE Crash
  BY <1>0, <1>7 DEF Crash, Stopped, OpenOn, queueVars, adminVars
<1>8. CASE UNCHANGED vars
  BY <1>0, <1>8 DEF vars, Stopped, OpenOn, queueVars, adminVars, ghost
<1> QED
  BY <1>1, <1>2, <1>3, <1>4, <1>5, <1>6, <1>7, <1>8 DEF Next, WorkerStep

(* A run reads a stopped campaign only to find no row or a paused one: an  *)
(* announcement that is stopped has no run.                                *)
LEMMA QuietKept == TypeInv /\ AllStopped /\ StoppedIsQuiet /\ [Next]_vars => StoppedIsQuiet'
<1> SUFFICES ASSUME TypeInv, AllStopped, StoppedIsQuiet, [Next]_vars PROVE StoppedIsQuiet'
  OBVIOUS
<1>1. CASE FindCampaign
  <2>1. /\ worker # None /\ worker \in RunType /\ jobState[worker.of] = "active"
        /\ row[worker.of] \in StatusesOf(worker.of) \cup {None}
    BY <1>1 DEF FindCampaign, Working, TypeInv, TypeOK, RunType
  <2>2. ASSUME worker.of \in stopped PROVE row[worker.of] \in {None, "paused"}
    <3>1. Stopped(worker.of)
      BY <2>2 DEF AllStopped
    <3> QED
      BY <2>1, <3>1 DEF Stopped, StatusesOf, InFlight
  <2>3. row[worker.of] \notin {None, "paused"} \/ worker'.at = "done"
    BY <1>1, <2>1 DEF FindCampaign, RunType
  <2>4. worker'.late <=> worker.of \in stopped
    <3> DEFINE at == IF row[worker.of] \in {None, "paused"} THEN "done" ELSE "send"
               late == worker.of \in stopped
    <3>1. worker' = [worker EXCEPT !.at = at, !.late = late]
      BY <1>1 DEF FindCampaign
    <3> HIDE DEF at, late
    <3>2. worker'.late = late
      BY <2>1, <3>1 DEF RunType
    <3> QED
      BY <3>2 DEF late
  <2> QED
    BY <2>2, <2>3, <2>4 DEF StoppedIsQuiet, Working
<1>2. CASE Send
  <2>1. worker \in RunType /\ Working("send")
    BY <1>2 DEF Send, Working, TypeInv, TypeOK
  <2>2. worker'.late = worker.late
    BY <1>2, <2>1 DEF Send, RunType
  <2> QED
    BY <2>1, <2>2 DEF StoppedIsQuiet
<1>3. CASE SaveSent
  BY <1>3 DEF SaveSent, StoppedIsQuiet, Working, TypeInv, TypeOK, RunType
<1>4. ASSUME NEW c \in Campaigns, Tick(c) \/ Run(c) \/ Requeue(c) PROVE StoppedIsQuiet'
  BY <1>4, OnlyThatJob DEF StoppedIsQuiet, Working
<1>5. CASE Finish \/ Throw \/ Crash
  BY <1>5 DEF Finish, Throw, Crash, StoppedIsQuiet, Working
<1>6. ASSUME NEW r \in Requests, NEW c \in Campaigns, Create(r, c) \/ \E op \in Ops \ {"create"} : Find(r, c, op)
      PROVE  StoppedIsQuiet'
  BY <1>6 DEF Create, Find, StoppedIsQuiet, Working
<1>7. ASSUME NEW r \in Requests, RequestStep(r) \/ Fail(r) PROVE StoppedIsQuiet'
  BY <1>7, OnlyIts DEF StoppedIsQuiet, Working
<1>8. CASE UNCHANGED vars
  BY <1>8 DEF vars, StoppedIsQuiet, Working
<1> QED
  BY <1>1, <1>2, <1>3, <1>4, <1>5, <1>6, <1>7, <1>8 DEF Next, WorkerStep

-------------------------------------------------------------------------------
LEMMA OverKept == TypeInv /\ AllOver /\ [Next]_vars => AllOver'
<1> SUFFICES ASSUME TypeInv, AllOver, [Next]_vars,
                    NEW a \in Announcements, a \notin disturbed', sent'[a] # 0
             PROVE  SentIsOver(a)'
  BY DEF AllOver
<1>0. /\ a \in Campaigns /\ a \notin Batches
      /\ sent \in [Announcements -> 0 .. 2] /\ row \in [Campaigns -> Statuses \cup {None}]
      /\ a \notin disturbed /\ sent[a] # 0 => SentIsOver(a)
  BY DEF Campaigns, TypeInv, TypeOK, AllOver
<1>1. ASSUME NEW r \in Requests, NEW c \in Campaigns,
             Create(r, c) \/ \E op \in Ops \ {"create"} : Find(r, c, op)
      PROVE  SentIsOver(a)'
  <2>1. PICK op \in Ops, at \in {"schedule", "unschedule", "save"}, read \in StatusesOf(c) :
             /\ Open(r, op, at, c, read)
             /\ op = "create" => c \notin created /\ row' = [row EXCEPT ![c] = read]
             /\ op # "create" => /\ row[c] = read /\ row' = row
                                 /\ op \in {"pause", "resume"} => c \in Batches
             /\ created \subseteq created'
             /\ UNCHANGED <<queueVars, scheduler, worker, sent>>
    BY <1>1, StartsOpen
  <2>2. /\ req[r] = None
        /\ req'[r].op = op /\ req'[r].of = c /\ req'[r].read = read
        /\ \A q \in Requests \ {r} :
              /\ req[q] # None /\ req[q].of = c => Same(req'[q], req[q])
              /\ req[q] = None \/ req[q].of # c => req'[q] = req[q]
        /\ disturbed' = disturbed
    BY <2>1, Opens
  <2>3. SentIsOver(a)
    BY <1>0, <2>1, <2>2
  <2>4. a = c => op # "create" /\ op \in {"update", "delete"} /\ row[c] = read /\ read # None
    BY <1>0, <2>1, <2>3 DEF SentIsOver, StatusesOf, Statuses, Ops
  <2>5. row'[a] = row[a] /\ jobState' = jobState /\ a \in created'
    BY <1>0, <2>1, <2>3, <2>4 DEF SentIsOver, queueVars
  <2>6. ASSUME NEW q \in Requests, req'[q] # None, req'[q].of = a,
               \A s \in OpenOn(a) : req[s].op \in {"update", "delete"},
               \A s \in OpenOn(a) : req[s].op = "update" => req[s].read = "sent",
               row[a] \in {None, "sent"}
        PROVE  /\ req'[q].op \in {"update", "delete"}
               /\ req'[q].op = "update" => req'[q].read = "sent"
    <3>1. CASE q = r
      BY <2>2, <2>4, <2>6, <3>1
    <3>2. CASE q # r
      <4>1. req[q] # None /\ Same(req'[q], req[q])
        BY <2>2, <2>6, <3>2 DEF Same
      <4> QED
        BY <2>6, <4>1 DEF OpenOn, Same
    <3> QED
      BY <3>1, <3>2
  <2> QED
    BY <2>1, <2>3, <2>5, <2>6 DEF SentIsOver, OpenOn, Runs
<1>2. ASSUME NEW r \in Requests, RequestStep(r) \/ Fail(r) PROVE SentIsOver(a)'
  <2> DEFINE c == req[r].of
  <2>1. /\ req[r] # None /\ c \in Campaigns
        /\ \A q \in Requests \ {r} : req'[q] = req[q]
        /\ req'[r] # None => Same(req'[r], req[r])
        /\ \A e \in Campaigns : e # c => row'[e] = row[e] /\ jobState'[e] = jobState[e]
        /\ UNCHANGED <<worker, created, sent, disturbed>>
    BY <1>2, OnlyIts
  <2>2. SentIsOver(a)
    BY <1>0, <2>1
  <2>3. \A q \in OpenOn(a)' : q \in OpenOn(a) /\ Same(req'[q], req[q])
    BY <2>1 DEF OpenOn, Same
  <2>4. CASE Runs(a) /\ worker.at = "save"
    BY <2>1, <2>2, <2>4 DEF SentIsOver, Runs
  <2>5. CASE ~(Runs(a) /\ worker.at = "save")
    <3>1. /\ row[a] \in {None, "sent"}
          /\ \A q \in OpenOn(a) : req[q].op \in {"update", "delete"}
          /\ \A q \in OpenOn(a) : req[q].op = "update" => req[q].read = "sent"
          /\ \/ Runs(a) /\ worker.at = "done"
             \/ ~Runs(a) /\ jobState[a] = "absent"
      BY <2>2, <2>5 DEF SentIsOver
    <3>2. row'[a] \in {None, "sent"} /\ jobState'[a] \in {jobState[a], "absent"}
      <4>1. CASE a = c
        <5>1. /\ req[r].op \in {"update", "delete"}
              /\ req[r].op = "update" => req[r].read = "sent"
          BY <2>1, <3>1, <4>1 DEF OpenOn
        <5> QED
          BY <1>2, <3>1, <4>1, <5>1, OwnIsQuiet
      <4>2. CASE a # c
        BY <1>0, <2>1, <3>1, <4>2
      <4> QED
        BY <4>1, <4>2
    <3> QED
      BY <2>1, <2>2, <2>3, <3>1, <3>2 DEF SentIsOver, Runs, Same
  <2> QED
    BY <2>4, <2>5
<1>3. ASSUME NEW c \in Campaigns, Tick(c) \/ Run(c) \/ Requeue(c) PROVE SentIsOver(a)'
  <2>1. /\ \A d \in Campaigns : d # c => jobState'[d] = jobState[d]
        /\ c \in Announcements => jobState[c] \in InFlight
        /\ UNCHANGED <<row, req, created, disturbed>>
        /\ worker' = worker \/ (worker = None /\ worker'.of = c /\ worker'.at = "find")
    BY <1>3, OnlyThatJob
  <2>2. sent' = sent
    BY <1>3 DEF Tick, Run, Requeue
  <2>3. SentIsOver(a)
    BY <1>0, <2>1, <2>2
  <2>4. ~Runs(a) => c # a
    BY <2>1, <2>3 DEF SentIsOver, InFlight
  <2>5. (Runs(a)' /\ worker' = worker /\ Runs(a)) \/ (~Runs(a) /\ ~Runs(a)')
    BY <2>1, <2>4 DEF Runs
  <2> QED
    BY <1>0, <2>1, <2>2, <2>3, <2>4, <2>5 DEF SentIsOver, OpenOn
<1>4. CASE FindCampaign
  <2>1. /\ Working("find") /\ worker \in RunType
        /\ worker'.of = worker.of
        /\ UNCHANGED <<queueVars, row, req, adminVars, sent, ghost>>
    BY <1>4 DEF FindCampaign, Working, TypeInv, TypeOK, RunType
  <2>2. SentIsOver(a) /\ ~Runs(a)
    BY <1>0, <2>1 DEF SentIsOver, Working, Runs, ghost
  <2> QED
    BY <2>1, <2>2 DEF SentIsOver, OpenOn, Runs, Working, queueVars, adminVars
<1>5. CASE Send
  <2>1. /\ Working("send") /\ worker \in RunType
        /\ worker' = [worker EXCEPT !.at = IF worker.of \in Announcements THEN "save" ELSE "done"]
        /\ sent'[a] = IF a = worker.of /\ sent[a] < 2 THEN sent[a] + 1 ELSE sent[a]
        /\ UNCHANGED <<queueVars, row, req, adminVars, ghost>>
    BY <1>5 DEF Send, Working, TypeInv, TypeOK
  <2>2. ~Runs(a) \/ sent[a] = 0
    BY <1>0, <2>1 DEF SentIsOver, Working, Runs, ghost
  <2>3. CASE Runs(a)
    <3>1. worker' # None /\ worker'.of = a /\ worker'.at = "save"
      BY <2>1, <2>3 DEF Runs, RunType
    <3>2. a \in created /\ sent'[a] = 1
      BY <1>0, <2>1, <2>2, <2>3 DEF TypeInv, Runs
    <3> QED
      BY <2>1, <3>1, <3>2 DEF SentIsOver, Runs, adminVars
  <2>4. CASE ~Runs(a)
    <3>1. SentIsOver(a) /\ sent'[a] = sent[a]
      BY <1>0, <2>1, <2>4 DEF Runs, Working, ghost
    <3>2. ~Runs(a)'
      BY <2>1, <2>4 DEF Runs, Working, RunType
    <3> QED
      BY <2>1, <2>4, <3>1, <3>2 DEF SentIsOver, OpenOn, queueVars, adminVars
  <2> QED
    BY <2>3, <2>4
<1>6. CASE SaveSent
  <2>1. /\ Working("save") /\ worker \in RunType /\ worker.of \in Announcements
        /\ worker' = [worker EXCEPT !.at = "done"]
        /\ row' = [row EXCEPT ![worker.of] = "sent"]
        /\ Disturb(Rescheduling)
        /\ UNCHANGED <<queueVars, req, adminVars, sent>>
    BY <1>6 DEF SaveSent, Working, TypeInv, TypeOK
  <2>2. /\ disturbed \subseteq disturbed'
        /\ Rescheduling => worker.of \in disturbed'
    BY <2>1 DEF Disturb
  <2>3. SentIsOver(a)
    BY <1>0, <2>1, <2>2
  <2>4. (Runs(a)' /\ worker'.at = "done" /\ Runs(a)) \/ (~Runs(a) /\ ~Runs(a)')
    BY <2>1 DEF Runs, Working, RunType
  <2>5. CASE Runs(a)
    <3>1. \A r \in OpenOn(a) : req[r].op \notin {"create", "update"}
      BY <2>2, <2>5 DEF Rescheduling, Runs
    <3>2. \A r \in OpenOn(a) : req[r].op = "delete"
      BY <1>0, <3>1, PlacedAt DEF OpenOn, Placed, RequestType, InPlace, Ops
    <3> QED
      BY <1>0, <2>1, <2>3, <2>4, <2>5, <3>2 DEF SentIsOver, OpenOn, Runs, adminVars
  <2>6. CASE ~Runs(a)
    <3>1. row'[a] = row[a]
      BY <1>0, <2>1, <2>6 DEF Runs, Working
    <3> QED
      BY <2>1, <2>3, <2>4, <2>6, <3>1 DEF SentIsOver, OpenOn, queueVars, adminVars
  <2> QED
    BY <2>5, <2>6
<1>7. CASE Finish
  <2>1. /\ Working("done") /\ worker \in RunType /\ Settle(worker.of, "absent") /\ worker' = None
        /\ Disturb(Rescheduling)
        /\ UNCHANGED <<row, req, adminVars, sent>>
    BY <1>7 DEF Finish, Working, TypeInv, TypeOK
  <2>2. disturbed \subseteq disturbed'
    BY <2>1 DEF Disturb
  <2>3. SentIsOver(a)
    BY <1>0, <2>1, <2>2
  <2>4. jobState'[a] = IF Runs(a) THEN "absent" ELSE jobState[a]
    BY <1>0, <2>1 DEF Settle, Runs, Working, TypeInv, TypeOK, QueueTypeOK
  <2>5. ~(worker.at = "save") /\ ~Runs(a)'
    BY <2>1 DEF Working, Runs
  <2> QED
    BY <2>1, <2>3, <2>4, <2>5 DEF SentIsOver, OpenOn, adminVars
<1>8. CASE Throw \/ Crash
  <2>1. /\ worker' = None
        /\ UNCHANGED <<row, created, sent>>
        /\ \A q \in Requests : req'[q] = None \/ req'[q] = req[q]
        /\ worker # None => Disturb(worker.at \in {"save", "done"})
        /\ worker = None => disturbed' = disturbed
    BY <1>8 DEF Throw, Crash, adminVars
  <2>2. disturbed \subseteq disturbed' /\ (Runs(a) /\ worker.at \in {"save", "done"} => a \in disturbed')
    BY <2>1 DEF Disturb, Runs
  <2>3. SentIsOver(a) /\ ~Runs(a) /\ ~Runs(a)'
    BY <1>0, <2>1, <2>2 DEF SentIsOver, Runs
  <2>4. jobState'[a] = jobState[a]
    <3>1. CASE Throw
      <4>1. worker # None /\ worker.of \in Campaigns /\ FailAttempt(worker.of)
        BY <3>1 DEF Throw, TypeInv, TypeOK, RunType
      <4> QED
        BY <1>0, <2>3, <4>1, JobStep DEF TypeInv, TypeOK, Runs
    <3>2. CASE Crash
      BY <3>2 DEF Crash, queueVars
    <3> QED
      BY <1>8, <3>1, <3>2
  <2> QED
    BY <2>1, <2>3, <2>4 DEF SentIsOver, OpenOn
<1>9. CASE UNCHANGED vars
  <2>1. UNCHANGED <<row, req, worker, created, sent, disturbed, jobState>>
    BY <1>9 DEF vars, queueVars, adminVars, ghost
  <2> QED
    BY <1>0, <2>1 DEF SentIsOver, OpenOn, Runs
<1> QED
  BY <1>1, <1>2, <1>3, <1>4, <1>5, <1>6, <1>7, <1>8, <1>9 DEF Next, WorkerStep

-------------------------------------------------------------------------------
LEMMA CampaignsInit == Init => IInv
<1> SUFFICES ASSUME Init PROVE IInv
  OBVIOUS
<1>1. TypeInv
  BY DEF Init, TypeInv, TypeOK, QueueInit, QueueTypeOK
<1>2. AllAlone /\ InOrder /\ AllFirm
  BY DEF Init, AllAlone, InOrder, AllFirm, Matched, Statuses, Campaigns
<1>3. AllStopped /\ StoppedIsQuiet /\ AllOver
  BY DEF Init, AllStopped, StoppedIsQuiet, AllOver, Working
<1> QED
  BY <1>1, <1>2, <1>3 DEF IInv

LEMMA CampaignsInductive == IInv /\ [Next]_vars => IInv'
BY TypesKept, AloneKept, OrderKept, FirmKept, StoppedKept, QuietKept, OverKept DEF IInv

LEMMA Always == Spec => []IInv
BY CampaignsInit, CampaignsInductive, PTL DEF Spec

(* Rows, jobs, schedulers, runs and open requests keep their types.        *)
THEOREM CampaignTypes == Spec => []TypeOK
<1>1. IInv => TypeOK
  BY DEF IInv, TypeInv
<1> QED
  BY <1>1, Always, PTL

(* Whenever no request is open on a batch, and none overlapped or failed   *)
(* since the last pause, resume or deletion that did not, its scheduler    *)
(* and its row agree, however many batches and requests there are.         *)
THEOREM RowAndSchedulerAgree == Spec => []Agreed
<1>1. IInv => Agreed
  BY DEF IInv, TypeInv, InOrder, Matched, Agreed
<1> QED
  BY <1>1, Always, PTL

(* No run that reads a campaign after it was paused or deleted sends it,   *)
(* if no request that schedules the campaign was open together with the    *)
(* pause or deletion and no job of a deleted announcement was in flight    *)
(* when it answered; whatever else overlaps, fails, crashes or is retried, *)
(* until a resume.                                                         *)
THEOREM StoppedStaysQuiet == Spec => []StoppedIsQuiet
<1>1. IInv => StoppedIsQuiet
  BY DEF IInv
<1> QED
  BY <1>1, Always, PTL

(* An announcement whose run ended well outside the requests that schedule *)
(* it is sent once, whatever is updated or deleted afterwards, retried or  *)
(* taken back from a process that died.                                    *)
THEOREM SentAtMostOnce == Spec => []SentOnceUndisturbed
<1>1. IInv => SentOnceUndisturbed
  <2> SUFFICES ASSUME IInv, NEW a \in Announcements \ disturbed PROVE sent[a] <= 1
    BY DEF SentOnceUndisturbed
  <2>1. sent[a] = 0 \/ sent[a] = 1
    BY DEF IInv, AllOver, SentIsOver
  <2> QED
    BY <2>1
<1> QED
  BY <1>1, Always, PTL

===============================================================================

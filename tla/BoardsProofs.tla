------------------------------ MODULE BoardsProofs ------------------------------
(***************************************************************************)
(* What holds of Boards for any number of posts, users, media lists and    *)
(* overlapping requests.                                                   *)
(***************************************************************************)
EXTENDS Boards, FiniteSetTheorems, TLAPS

USE BoardsAssumption, NoneIsNoRequest

(* What a request carries at each of its places. *)
Equipped(q) ==
    /\ q.at \in {"lookup", "insert", "remove", "file"} => q.user \in Users
    /\ q.at = "lookup" => q.op \in {"like", "unlike"}
    /\ q.at \in {"clear", "attach"} => q.post \in Boards /\ q.arg \in MediaLists
    /\ q.at \in {"find", "hide", "status"} => q.arg \in {"resolved", "rejected"}

Placed  == {q \in RequestType : Equipped(q)}
TypeInv == TypeOK /\ req \in [Requests -> Placed \cup {None}]

(* A resolving verdict writes its status only after it has hidden.         *)
HidesFirst ==
    \A r \in Requests : At(r, "status") /\ req[r].arg = "resolved" => req[r].post \in hidden

(* A post on which no edits interleaved has at most one list, and none     *)
(* while the one request that cleared it is about to attach its own.       *)
EditsAlone ==
    \A b \in Boards \ mixed :
        /\ \E list \in MediaLists : attached[b] \subseteq {list}
        /\ \A r \in Requests : At(r, "attach") /\ req[r].post = b =>
              attached[b] = {} /\ \A q \in Requests : At(q, "attach") /\ req[q].post = b => q = r

(* A request about to remove a like finds it there, and alone does so.     *)
RemovesOwn ==
    \A r \in Requests : At(r, "remove") /\ req[r].post \notin drifted =>
        /\ Liking(r) \in likes
        /\ \A q \in Requests : At(q, "remove") /\ Liking(q) = Liking(r) => q = r

IInv == TypeInv /\ HidesFirst /\ ResolvedIsHidden /\ EditsAlone
            /\ IsFiniteSet(likes) /\ RemovesOwn /\ LikesCounted

-------------------------------------------------------------------------------
(* Start opens a request, at the first place of its handler.               *)
Opens(r) == req[r] = None /\ \E new \in Placed :
    req' = [req EXCEPT ![r] = new] /\ new.at \in {"lookup", "write", "clear", "erase", "file", "find"}

LEMMA PlacedAt ==
    ASSUME TypeInv, NEW r \in Requests, req[r] # None
    PROVE  /\ req[r] \in RequestType /\ Equipped(req[r])
           /\ req[r].op \in Ops /\ req[r].at \in Places /\ req[r].post \in Posts
           /\ req[r].user \in Users \cup {None} /\ req[r].of \in Users \cup {None}
           /\ req[r].arg \in MediaLists \cup Statuses \cup {None}
<1>1. req[r] \in Placed
  BY DEF TypeInv
<1> QED
  BY <1>1 DEF Placed, RequestType

LEMMA StartOpens ==
    ASSUME TypeInv, NEW r \in Requests, Start(r)
    PROVE  Opens(r) /\ UNCHANGED <<rows, ghost>>
<1> DEFINE First == {"lookup", "write", "clear", "erase", "file", "find"}
<1>1. PICK p \in Posts, u \in Users :
        \/ Like(r, p, u) \/ Delete(r, p, u) \/ Report(r, p, u)
        \/ \E list \in MediaLists \cup {None} : Edit(r, p, u, list)
        \/ \E verdict \in {"resolved", "rejected"} : Process(r, p, u, verdict)
  BY DEF Start
<1>2. ASSUME NEW op \in Ops, NEW at \in First, NEW v \in Users \cup {None},
             NEW of \in Users \cup {None}, NEW arg \in MediaLists \cup Statuses \cup {None},
             Equipped(Request(op, at, p, v, of, arg))
      PROVE  /\ Request(op, at, p, v, of, arg) \in Placed
             /\ Request(op, at, p, v, of, arg).at \in First
  BY <1>2 DEF Placed, Request, RequestType, Places
<1>3. CASE Like(r, p, u)
  <2>1. PICK op \in {"like", "unlike"} : Open(r, Request(op, "lookup", p, u, None, None))
    BY <1>3 DEF Like
  <2>2. Equipped(Request(op, "lookup", p, u, None, None))
    BY DEF Equipped, Request
  <2> QED
    BY <1>2, <1>3, <2>1, <2>2 DEF Like, Open, Opens, Ops
<1>4. CASE Delete(r, p, u)
  <2>1. Equipped(Request("delete", "erase", p, None, None, None))
    BY DEF Equipped, Request
  <2> QED
    BY <1>2, <1>4, <2>1 DEF Delete, Open, Opens, Ops
<1>5. CASE Report(r, p, u)
  <2>1. Equipped(Request("report", "file", p, u, None, None))
    BY DEF Equipped, Request
  <2> QED
    BY <1>2, <1>5, <2>1 DEF Report, Open, Opens, Ops
<1>6. ASSUME NEW list \in MediaLists \cup {None}, Edit(r, p, u, list) PROVE Opens(r)
  <2>1. CASE list = None
    <3>1. Equipped(Request("edit", "write", p, None, None, list))
      BY DEF Equipped, Request
    <3> QED
      BY <1>2, <1>6, <2>1, <3>1 DEF Edit, Open, Opens, Ops
  <2>2. CASE list # None
    <3>1. Equipped(Request("edit", "clear", p, None, None, list))
      BY <1>6, <2>2 DEF Equipped, Request, Edit
    <3> QED
      BY <1>2, <1>6, <2>2, <3>1 DEF Edit, Open, Opens, Ops
  <2> QED
    BY <2>1, <2>2
<1>7. ASSUME NEW verdict \in {"resolved", "rejected"}, Process(r, p, u, verdict) PROVE Opens(r)
  <2>1. Equipped(Request("process", "find", p, None, u, verdict))
    BY DEF Equipped, Request
  <2> QED
    BY <1>2, <1>7, <2>1 DEF Process, Open, Opens, Ops, Statuses
<1> QED
  BY <1>1, <1>3, <1>4, <1>5, <1>6, <1>7 DEF Like, Delete, Report, Edit, Process

(* What a step does to the request it is of: places follow each other as   *)
(* the handlers do.                                                        *)
LEMMA GoesOn ==
    ASSUME TypeInv, NEW r \in Requests, req[r] # None, NEW place \in Places, Go(r, place)
    PROVE  /\ req'[r] = [req[r] EXCEPT !.at = place]
           /\ req'[r] \in RequestType /\ req'[r] # None /\ req'[r].at = place
           /\ req'[r].op = req[r].op /\ req'[r].post = req[r].post /\ req'[r].user = req[r].user
           /\ req'[r].of = req[r].of /\ req'[r].arg = req[r].arg
           /\ \A q \in Requests \ {r} : req'[q] = req[q]
           /\ Equipped([req[r] EXCEPT !.at = place]) => req' \in [Requests -> Placed \cup {None}]
<1>1. req \in [Requests -> Placed \cup {None}] /\ req' = [req EXCEPT ![r].at = place]
  BY DEF TypeInv, Go
<1>2. req'[r] = [req[r] EXCEPT !.at = place] /\ \A q \in Requests \ {r} : req'[q] = req[q]
  BY <1>1
<1>3. req[r] \in RequestType
  BY PlacedAt
<1>4. req'[r] \in RequestType
  BY <1>2, <1>3 DEF RequestType
<1> QED
  BY <1>1, <1>2, <1>3, <1>4 DEF RequestType, Placed

LEMMA EndsThere ==
    ASSUME TypeInv, NEW r \in Requests, End(r)
    PROVE  /\ req'[r] = None /\ \A q \in Requests \ {r} : req'[q] = req[q]
           /\ req' \in [Requests -> Placed \cup {None}]
BY DEF TypeInv, End

LEMMA OpensThere ==
    ASSUME TypeInv, NEW r \in Requests, Opens(r)
    PROVE  /\ req[r] = None /\ \A q \in Requests \ {r} : req'[q] = req[q]
           /\ req'[r] \in Placed
           /\ req'[r].at \in {"lookup", "write", "clear", "erase", "file", "find"}
           /\ req' \in [Requests -> Placed \cup {None}]
BY DEF TypeInv, Opens

-------------------------------------------------------------------------------
(* Well-typed requests and rows stay so.                                   *)
LEMMA StepTypes ==
    ASSUME TypeInv, NEW r \in Requests, Step(r)
    PROVE  TypeInv'
<1> USE DEF TypeInv, TypeOK
<1>1. req[r] # None /\ req[r] \in RequestType /\ Equipped(req[r]) /\ req[r].post \in Posts
  BY PlacedAt DEF Step, LookupLike, InsertLike, RemoveLike, CountLike, ClearMedia, AttachMedia,
     WriteText, Erase, File, FindReport, Hide, SetStatus, Fail, At
<1>2. ASSUME NEW place \in Places, Go(r, place),
             Equipped([req[r] EXCEPT !.at = place])
      PROVE  (req \in [Requests -> Placed \cup {None}])'
  BY <1>1, <1>2, GoesOn
<1>3. ASSUME End(r) PROVE (req \in [Requests -> Placed \cup {None}])'
  BY <1>3, EndsThere
<1>4. ASSUME (req \in [Requests -> Placed \cup {None}])'
      PROVE  (req \in [Requests -> RequestType \cup {None}])'
  BY <1>4 DEF Placed
<1>5. CASE LookupLike(r)
  <2>1. Equipped([req[r] EXCEPT !.at = "insert"]) /\ Equipped([req[r] EXCEPT !.at = "remove"])
    BY <1>1, <1>5 DEF LookupLike, At, Equipped, RequestType
  <2>2. (req \in [Requests -> Placed \cup {None}])'
    BY <1>2, <1>3, <1>5, <2>1 DEF LookupLike, Places
  <2> QED
    BY <1>4, <1>5, <2>2 DEF LookupLike, rows
<1>6. CASE InsertLike(r)
  <2>1. Equipped([req[r] EXCEPT !.at = "add"]) /\ Liking(r) \in Posts \X Users
    BY <1>1, <1>6 DEF InsertLike, At, Equipped, RequestType, Liking
  <2> QED
    BY <1>2, <1>4, <1>6, <2>1 DEF InsertLike, Places, ghost
<1>7. CASE RemoveLike(r)
  <2>1. Equipped([req[r] EXCEPT !.at = "subtract"])
    BY <1>1, <1>7 DEF RemoveLike, At, Equipped, RequestType
  <2> QED
    BY <1>2, <1>4, <1>7, <2>1 DEF RemoveLike, Places, ghost
<1>8. CASE CountLike(r)
  BY <1>1, <1>3, <1>4, <1>8 DEF CountLike, ghost
<1>9. CASE ClearMedia(r)
  <2>1. /\ Equipped([req[r] EXCEPT !.at = "write"]) /\ Equipped([req[r] EXCEPT !.at = "attach"])
        /\ req[r].post \in Boards
    BY <1>1, <1>9 DEF ClearMedia, At, Equipped, RequestType
  <2>2. (req \in [Requests -> Placed \cup {None}])'
    BY <1>2, <1>9, <2>1 DEF ClearMedia, Places
  <2> QED
    BY <1>4, <1>9, <2>1, <2>2 DEF ClearMedia
<1>10. CASE AttachMedia(r)
  <2>1. /\ Equipped([req[r] EXCEPT !.at = "write"])
        /\ req[r].post \in Boards /\ req[r].arg \in MediaLists
    BY <1>1, <1>10 DEF AttachMedia, At, Equipped, RequestType
  <2> QED
    BY <1>2, <1>4, <1>10, <2>1 DEF AttachMedia, Places, ghost
<1>11. CASE WriteText(r)
  BY <1>3, <1>4, <1>11 DEF WriteText, rows, ghost
<1>12. CASE Erase(r)
  BY <1>1, <1>3, <1>4, <1>12 DEF Erase, ghost
<1>13. CASE File(r)
  <2>1. Liking(r) \in Posts \X Users
    BY <1>1, <1>13 DEF File, At, Equipped, Liking
  <2> QED
    BY <1>3, <1>4, <1>13, <2>1 DEF File, ghost, Statuses
<1>14. CASE FindReport(r)
  <2>1. Equipped([req[r] EXCEPT !.at = "hide"]) /\ Equipped([req[r] EXCEPT !.at = "status"])
    BY <1>1, <1>14 DEF FindReport, At, Equipped, RequestType
  <2>2. (req \in [Requests -> Placed \cup {None}])'
    BY <1>2, <1>3, <1>14, <2>1 DEF FindReport, Places
  <2> QED
    BY <1>4, <1>14, <2>2 DEF FindReport, rows, ghost
<1>15. CASE Hide(r)
  <2>1. Equipped([req[r] EXCEPT !.at = "status"])
    BY <1>1, <1>15 DEF Hide, At, Equipped, RequestType
  <2> QED
    BY <1>1, <1>2, <1>4, <1>15, <2>1 DEF Hide, Places, ghost
<1>16. CASE SetStatus(r)
  <2>1. req[r].arg \in Statuses
    BY <1>1, <1>16 DEF SetStatus, At, Equipped, Statuses
  <2> QED
    BY <1>3, <1>4, <1>16, <2>1 DEF SetStatus, ghost
<1>17. CASE Fail(r)
  BY <1>1, <1>3, <1>4, <1>17 DEF Fail, rows
<1> QED
  BY <1>5, <1>6, <1>7, <1>8, <1>9, <1>10, <1>11, <1>12, <1>13, <1>14, <1>15, <1>16, <1>17 DEF Step

LEMMA TypesKept == TypeInv /\ [Next]_vars => TypeInv'
<1> SUFFICES ASSUME TypeInv, [Next]_vars PROVE TypeInv'
  OBVIOUS
<1>1. ASSUME NEW r \in Requests, Start(r) PROVE TypeInv'
  <2>1. Opens(r) /\ UNCHANGED <<rows, ghost>>
    BY <1>1, StartOpens
  <2>2. (req \in [Requests -> Placed \cup {None}])'
    BY <2>1, OpensThere
  <2> QED
    BY <2>1, <2>2 DEF TypeInv, TypeOK, rows, ghost, Placed
<1>2. CASE UNCHANGED vars
  BY <1>2 DEF vars, rows, ghost, TypeInv, TypeOK
<1> QED
  BY <1>1, <1>2, StepTypes DEF Next

-------------------------------------------------------------------------------
(* A verdict on its way has hidden, or is yet to hide.                     *)
LEMMA HiddenKept ==
    ASSUME TypeInv, HidesFirst, ResolvedIsHidden, [Next]_vars
    PROVE  HidesFirst' /\ ResolvedIsHidden' /\ hidden \subseteq hidden' /\ deleted \subseteq deleted'
<1> USE DEF HidesFirst, ResolvedIsHidden
<1> DEFINE Kept == HidesFirst' /\ ResolvedIsHidden' /\ hidden \subseteq hidden' /\ deleted \subseteq deleted'
<1>1. ASSUME NEW r \in Requests, Start(r) PROVE Kept
  <2>1. Opens(r) /\ UNCHANGED <<rows, ghost>>
    BY <1>1, StartOpens
  <2> QED
    BY <2>1, OpensThere DEF rows, At
<1>2. ASSUME NEW r \in Requests, Step(r) PROVE Kept
  <2>1. req[r] # None /\ req[r] \in RequestType /\ Equipped(req[r])
    BY <1>2, PlacedAt DEF Step, LookupLike, InsertLike, RemoveLike, CountLike, ClearMedia, AttachMedia,
       WriteText, Erase, File, FindReport, Hide, SetStatus, Fail, At
  <2>2. ASSUME End(r), UNCHANGED <<hidden, report>>, deleted \subseteq deleted' PROVE Kept
    BY <2>2, EndsThere DEF At
  <2>3. ASSUME NEW place \in Places \ {"status"}, Go(r, place), UNCHANGED <<hidden, report, deleted>>
        PROVE  Kept
    <3>1. req'[r].at # "status" /\ \A q \in Requests \ {r} : req'[q] = req[q]
      BY <2>1, <2>3, GoesOn
    <3>2. HidesFirst'
      BY <2>3, <3>1 DEF At
    <3> QED
      BY <2>3, <3>2
  <2>4. CASE LookupLike(r) \/ InsertLike(r) \/ RemoveLike(r) \/ CountLike(r)
    BY <2>2, <2>3, <2>4 DEF LookupLike, InsertLike, RemoveLike, CountLike, Places, rows
  <2>5. CASE ClearMedia(r) \/ AttachMedia(r) \/ WriteText(r) \/ Erase(r) \/ Fail(r)
    BY <2>2, <2>3, <2>5 DEF ClearMedia, AttachMedia, WriteText, Erase, Fail, Places, rows
  <2>6. CASE File(r)
    <3>1. report' = [report EXCEPT ![Liking(r)] = "pending"]
      BY <2>6 DEF File
    <3>2. report \in [Posts \X Users -> Statuses \cup {None}]
      BY DEF TypeInv, TypeOK
    <3> QED
      BY <2>6, <3>1, <3>2, EndsThere DEF File, At
  <2>7. CASE FindReport(r)
    <3>1. CASE req[r].arg = "resolved"
      BY <2>2, <2>3, <2>7, <3>1 DEF FindReport, Places, rows
    <3>2. CASE req[r].arg # "resolved"
      <4>1. CASE End(r)
        BY <2>2, <2>7, <4>1 DEF FindReport, rows
      <4>2. CASE Go(r, "status")
        <5>1. req'[r].arg = req[r].arg /\ \A q \in Requests \ {r} : req'[q] = req[q]
          BY <2>1, <4>2, GoesOn DEF Places
        <5>2. UNCHANGED rows
          BY <2>7 DEF FindReport
        <5>3. HidesFirst'
          BY <3>2, <5>1, <5>2 DEF rows, At
        <5> QED
          BY <5>2, <5>3 DEF rows
      <4> QED
        BY <2>7, <3>2, <4>1, <4>2 DEF FindReport
    <3> QED
      BY <3>1, <3>2
  <2>8. CASE Hide(r)
    <3>1. hidden' = hidden \cup {req[r].post} /\ UNCHANGED <<report, deleted>> /\ Go(r, "status")
      BY <2>8 DEF Hide
    <3>2. req'[r].post = req[r].post /\ \A q \in Requests \ {r} : req'[q] = req[q]
      BY <2>1, <3>1, GoesOn DEF Places
    <3>3. HidesFirst'
      BY <3>1, <3>2 DEF At
    <3> QED
      BY <3>1, <3>3
  <2>9. CASE SetStatus(r)
    <3>1. report' = [report EXCEPT ![Subject(r)] = req[r].arg] /\ UNCHANGED <<hidden, deleted>>
      BY <2>9 DEF SetStatus
    <3>2. report \in [Posts \X Users -> Statuses \cup {None}]
      BY DEF TypeInv, TypeOK
    <3>3. ASSUME NEW p \in Posts, NEW u \in Users, report'[p, u] = "resolved" PROVE p \in hidden
      <4>1. CASE <<p, u>> = Subject(r)
        <5>1. p = req[r].post /\ req[r].arg = "resolved"
          BY <3>1, <3>2, <3>3, <4>1 DEF Subject
        <5> QED
          BY <2>9, <5>1 DEF SetStatus
      <4>2. CASE <<p, u>> # Subject(r)
        BY <3>1, <3>2, <3>3, <4>2
      <4> QED
        BY <4>1, <4>2
    <3> QED
      BY <2>9, <3>1, <3>3, EndsThere DEF SetStatus, At
  <2> QED
    BY <1>2, <2>4, <2>5, <2>6, <2>7, <2>8, <2>9 DEF Step
<1>3. CASE UNCHANGED vars
  BY <1>3 DEF vars, rows, At
<1> QED
  BY <1>1, <1>2, <1>3 DEF Next

-------------------------------------------------------------------------------
(* No step but ClearMedia puts a request before AttachMedia.               *)
LEMMA EditsKept ==
    ASSUME TypeInv, EditsAlone, [Next]_vars
    PROVE  EditsAlone'
<1> DEFINE Attaching(r) == At(r, "attach")
<1>1. ASSUME UNCHANGED <<attached, mixed>>,
             \A q \in Requests : Attaching(q)' => Attaching(q) /\ req'[q].post = req[q].post
      PROVE  EditsAlone'
  BY <1>1 DEF EditsAlone, At
<1>2. ASSUME NEW r \in Requests, Start(r) PROVE EditsAlone'
  <2>1. Opens(r) /\ UNCHANGED <<rows, ghost>>
    BY <1>2, StartOpens
  <2>2. \A q \in Requests : Attaching(q)' => Attaching(q) /\ req'[q].post = req[q].post
    BY <2>1, OpensThere DEF At
  <2> QED
    BY <1>1, <2>1, <2>2 DEF rows, ghost
<1>3. ASSUME NEW r \in Requests, Step(r) PROVE EditsAlone'
  <2>1. req[r] # None /\ req[r] \in RequestType /\ Equipped(req[r])
    BY <1>3, PlacedAt DEF Step, LookupLike, InsertLike, RemoveLike, CountLike, ClearMedia, AttachMedia,
       WriteText, Erase, File, FindReport, Hide, SetStatus, Fail, At
  <2>2. ASSUME End(r) PROVE \A q \in Requests : Attaching(q)' => Attaching(q) /\ req'[q].post = req[q].post
    BY <2>2, EndsThere DEF At
  <2>3. ASSUME NEW place \in Places \ {"attach"}, Go(r, place)
        PROVE  \A q \in Requests : Attaching(q)' => Attaching(q) /\ req'[q].post = req[q].post
    <3>1. req'[r].at # "attach" /\ \A q \in Requests \ {r} : req'[q] = req[q]
      BY <2>1, <2>3, GoesOn
    <3> QED
      BY <3>1 DEF At
  <2>4. CASE LookupLike(r) \/ InsertLike(r) \/ RemoveLike(r) \/ CountLike(r)
    BY <1>1, <2>2, <2>3, <2>4 DEF LookupLike, InsertLike, RemoveLike, CountLike, Places, rows, ghost
  <2>5. CASE WriteText(r) \/ Erase(r) \/ File(r) \/ SetStatus(r) \/ Fail(r)
    BY <1>1, <2>2, <2>5 DEF WriteText, Erase, File, SetStatus, Fail, rows, ghost
  <2>6. CASE FindReport(r) \/ Hide(r)
    BY <1>1, <2>2, <2>3, <2>6 DEF FindReport, Hide, Places, rows, ghost
  <2>7. CASE ClearMedia(r)
    <3> DEFINE c == req[r].post
               others == \E q \in Requests \ {r} : Attaching(q) /\ req[q].post = c
    <3>1. /\ c \in Boards /\ attached' = [attached EXCEPT ![c] = {}]
          /\ mixed' = IF others THEN mixed \cup {c} ELSE mixed \ {c}
      BY <2>1, <2>7 DEF ClearMedia, Equipped, At
    <3>2. attached \in [Boards -> SUBSET MediaLists] /\ MediaLists # {}
      BY DEF TypeInv, TypeOK
    <3>3. \A q \in Requests \ {r} : req'[q] = req[q]
      BY <2>1, <2>7, GoesOn DEF ClearMedia, Places
    <3>4. req'[r].post = c
      BY <2>1, <2>7, GoesOn DEF ClearMedia, Places
    <3>5. ASSUME NEW b \in Boards \ mixed', b # c
          PROVE  /\ \E list \in MediaLists : attached'[b] \subseteq {list}
                 /\ \A s \in Requests : Attaching(s)' /\ req'[s].post = b =>
                       attached'[b] = {} /\ \A q \in Requests : Attaching(q)' /\ req'[q].post = b => q = s
      <4>1. b \notin mixed /\ attached'[b] = attached[b]
        BY <3>1, <3>2, <3>5
      <4>2. \A q \in Requests : Attaching(q)' /\ req'[q].post = b => Attaching(q) /\ req[q].post = b
        BY <3>3, <3>4, <3>5 DEF At
      <4> QED
        BY <3>5, <4>1, <4>2 DEF EditsAlone
    <3>6. ASSUME c \notin mixed'
          PROVE  /\ \E list \in MediaLists : attached'[c] \subseteq {list}
                 /\ \A s \in Requests : Attaching(s)' /\ req'[s].post = c =>
                       attached'[c] = {} /\ \A q \in Requests : Attaching(q)' /\ req'[q].post = c => q = s
      <4>1. attached'[c] = {} /\ ~others
        BY <3>1, <3>2, <3>6
      <4>2. \A q \in Requests : Attaching(q)' /\ req'[q].post = c => q = r
        BY <3>3, <4>1 DEF At
      <4> QED
        BY <3>2, <4>1, <4>2
    <3> QED
      BY <3>5, <3>6 DEF EditsAlone
  <2>8. CASE AttachMedia(r)
    <3> DEFINE c == req[r].post
    <3>1. /\ c \in Boards /\ req[r].arg \in MediaLists /\ Attaching(r)
          /\ attached' = [attached EXCEPT ![c] = @ \cup {req[r].arg}] /\ mixed' = mixed
      BY <2>1, <2>8 DEF AttachMedia, Equipped, At, ghost
    <3>2. attached \in [Boards -> SUBSET MediaLists]
      BY DEF TypeInv, TypeOK
    <3>3. \A q \in Requests : Attaching(q)' => q # r /\ Attaching(q) /\ req'[q] = req[q]
      <4>1. req'[r].at # "attach" /\ \A q \in Requests \ {r} : req'[q] = req[q]
        BY <2>1, <2>8, GoesOn DEF AttachMedia, Places
      <4> QED
        BY <4>1 DEF At
    <3>4. ASSUME NEW b \in Boards \ mixed'
          PROVE  /\ \E list \in MediaLists : attached'[b] \subseteq {list}
                 /\ \A s \in Requests : Attaching(s)' /\ req'[s].post = b =>
                       attached'[b] = {} /\ \A q \in Requests : Attaching(q)' /\ req'[q].post = b => q = s
      <4>1. CASE b = c
        <5>1. attached[c] = {} /\ \A q \in Requests : Attaching(q) /\ req[q].post = c => q = r
          BY <3>1, <3>4, <4>1 DEF EditsAlone
        <5>2. attached'[c] = {req[r].arg}
          BY <3>1, <3>2, <5>1
        <5> QED
          BY <3>1, <3>3, <4>1, <5>1, <5>2
      <4>2. CASE b # c
        <5>1. attached'[b] = attached[b]
          BY <3>1, <3>2, <3>4, <4>2
        <5> QED
          BY <3>1, <3>3, <3>4, <5>1 DEF EditsAlone
      <4> QED
        BY <4>1, <4>2
    <3> QED
      BY <3>4 DEF EditsAlone
  <2> QED
    BY <1>3, <2>4, <2>5, <2>6, <2>7, <2>8 DEF Step
<1>4. CASE UNCHANGED vars
  BY <1>1, <1>4 DEF vars, rows, ghost, At
<1> QED
  BY <1>2, <1>3, <1>4 DEF Next

LEMMA OneListEach == EditsAlone => MediaOfOneEdit
<1> SUFFICES ASSUME EditsAlone, NEW b \in Boards \ mixed PROVE Cardinality(attached[b]) <= 1
  BY DEF MediaOfOneEdit
<1>1. PICK list \in MediaLists : attached[b] \subseteq {list}
  BY DEF EditsAlone
<1>2. IsFiniteSet({list}) /\ Cardinality({list}) = 1
  BY FS_Singleton
<1>3. Cardinality(attached[b]) <= Cardinality({list})
  BY <1>1, <1>2, FS_Subset
<1> QED
  BY <1>2, <1>3

-------------------------------------------------------------------------------
(* The sets that LikesCounted counts are finite, and the steps between     *)
(* like and counter move one request from one side to the other.           *)
Counting == {"add", "subtract"}

LEMMA Countable ==
    ASSUME TypeInv, IsFiniteSet(likes), NEW p \in Posts
    PROVE  /\ count[p] \in Int
           /\ IsFiniteSet(LikesOf(p)) /\ Cardinality(LikesOf(p)) \in Nat
           /\ \A a \in Counting : IsFiniteSet(Uncounted(p, a)) /\ Cardinality(Uncounted(p, a)) \in Nat
<1>1. LikesOf(p) \in SUBSET likes /\ \A a \in Counting : Uncounted(p, a) \in SUBSET Requests
  BY DEF LikesOf, Uncounted
<1>2. IsFiniteSet(LikesOf(p)) /\ \A a \in Counting : IsFiniteSet(Uncounted(p, a))
  BY <1>1, FS_Subset
<1> QED
  BY <1>2, FS_CardinalityType DEF TypeInv, TypeOK

LEMMA QuietCounts ==
    ASSUME LikesCounted, UNCHANGED <<likes, count>>, drifted \subseteq drifted',
           \A q \in Requests, a \in Counting :
              \/ req[q] # None /\ req[q].post \in drifted'
              \/ (At(q, a)' <=> At(q, a)) /\ (At(q, a) => req'[q].post = req[q].post),
           \A q \in Requests : req'[q] # None /\ req[q] # None => req'[q].post = req[q].post
    PROVE  LikesCounted'
<1> SUFFICES ASSUME NEW p \in Posts \ drifted'
             PROVE  (count[p] + Cardinality(Uncounted(p, "add"))
                        = Cardinality(LikesOf(p)) + Cardinality(Uncounted(p, "subtract")))'
  BY DEF LikesCounted
<1>1. LikesOf(p)' = LikesOf(p)
  BY DEF LikesOf
<1>2. ASSUME NEW a \in Counting PROVE Uncounted(p, a)' = Uncounted(p, a)
  <2>1. ASSUME NEW q \in Requests PROVE (At(q, a) /\ req[q].post = p)' <=> At(q, a) /\ req[q].post = p
    <3>1. CASE req[q] # None /\ req[q].post \in drifted'
      BY <3>1 DEF At
    <3>2. CASE (At(q, a)' <=> At(q, a)) /\ (At(q, a) => req'[q].post = req[q].post)
      BY <3>2
    <3> QED
      BY <3>1, <3>2
  <2> QED
    BY <2>1 DEF Uncounted
<1> QED
  BY <1>1, <1>2 DEF LikesCounted, Counting

LEMMA QuietRemovals ==
    ASSUME RemovesOwn, likes \subseteq likes', drifted \subseteq drifted',
           \A q \in Requests : At(q, "remove")' => At(q, "remove") /\ req'[q] = req[q]
    PROVE  RemovesOwn'
BY DEF RemovesOwn, Liking

(* A set of requests at a place, when r comes to it or leaves it.          *)
LEMMA OneMore ==
    ASSUME NEW S, NEW T, NEW x, IsFiniteSet(S), x \notin S, T = S \cup {x}
    PROVE  IsFiniteSet(T) /\ Cardinality(T) = Cardinality(S) + 1
BY FS_AddElement

LEMMA OneLess ==
    ASSUME NEW S, NEW T, NEW x, IsFiniteSet(S), x \in S, T = S \ {x}
    PROVE  IsFiniteSet(T) /\ Cardinality(T) = Cardinality(S) - 1
BY FS_RemoveElement

LEMMA LikeStep ==
    ASSUME TypeInv, IsFiniteSet(likes), RemovesOwn, LikesCounted, NEW r \in Requests,
           InsertLike(r) \/ RemoveLike(r) \/ CountLike(r)
    PROVE  IsFiniteSet(likes)' /\ RemovesOwn' /\ LikesCounted'
<1> DEFINE c == req[r].post
<1>1. /\ req[r] # None /\ req[r] \in RequestType /\ Equipped(req[r]) /\ c \in Posts
  BY PlacedAt DEF InsertLike, RemoveLike, CountLike, At
<1>2. drifted' = drifted
  BY DEF InsertLike, RemoveLike, CountLike, ghost
<1>3. \A p \in Posts : /\ count[p] \in Int
                       /\ IsFiniteSet(LikesOf(p)) /\ Cardinality(LikesOf(p)) \in Nat
                       /\ \A a \in Counting : IsFiniteSet(Uncounted(p, a)) /\ Cardinality(Uncounted(p, a)) \in Nat
  BY Countable
<1>4. CASE InsertLike(r)
  <2>1. /\ At(r, "insert") /\ Liking(r) \notin likes /\ likes' = likes \cup {Liking(r)}
        /\ Go(r, "add") /\ count' = count
    BY <1>4 DEF InsertLike
  <2>2. req'[r].at = "add" /\ req'[r] # None /\ req'[r].post = c /\ \A q \in Requests \ {r} : req'[q] = req[q]
    BY <1>1, <2>1, GoesOn DEF Places
  <2>3. IsFiniteSet(likes')
    BY <2>1, FS_AddElement
  <2>4. RemovesOwn'
    BY <1>2, <2>1, <2>2, QuietRemovals DEF At
  <2>5. ASSUME NEW p \in Posts \ drifted
        PROVE  (count[p] + Cardinality(Uncounted(p, "add"))
                   = Cardinality(LikesOf(p)) + Cardinality(Uncounted(p, "subtract")))'
    <3>1. Uncounted(p, "subtract")' = Uncounted(p, "subtract")
      BY <2>1, <2>2 DEF Uncounted, At
    <3>2. CASE p # c
      <4>1. Uncounted(p, "add")' = Uncounted(p, "add") /\ LikesOf(p)' = LikesOf(p)
        BY <2>1, <2>2, <3>2 DEF Uncounted, At, LikesOf, Liking
      <4> QED
        BY <2>1, <2>5, <3>1, <4>1 DEF LikesCounted
    <3>3. CASE p = c
      <4>1. Uncounted(p, "add")' = Uncounted(p, "add") \cup {r} /\ r \notin Uncounted(p, "add")
        BY <2>1, <2>2, <3>3 DEF Uncounted, At
      <4>2. LikesOf(p)' = LikesOf(p) \cup {Liking(r)} /\ Liking(r) \notin LikesOf(p)
        BY <2>1, <3>3 DEF LikesOf, Liking
      <4>3. Cardinality(Uncounted(p, "add")') = Cardinality(Uncounted(p, "add")) + 1
        BY <1>3, <4>1, OneMore DEF Counting
      <4>4. Cardinality(LikesOf(p)') = Cardinality(LikesOf(p)) + 1
        BY <1>3, <4>2, OneMore
      <4> HIDE DEF Uncounted, LikesOf
      <4> QED
        BY <1>3, <2>1, <2>5, <3>1, <4>3, <4>4 DEF LikesCounted, Counting
    <3> QED
      BY <3>2, <3>3
  <2> QED
    BY <1>2, <2>3, <2>4, <2>5 DEF LikesCounted
<1>5. CASE RemoveLike(r)
  <2>1. /\ At(r, "remove") /\ likes' = likes \ {Liking(r)} /\ Go(r, "subtract") /\ count' = count
    BY <1>5 DEF RemoveLike
  <2>2. /\ req'[r].at = "subtract" /\ req'[r] # None /\ req'[r].post = c
        /\ \A q \in Requests \ {r} : req'[q] = req[q]
    BY <1>1, <2>1, GoesOn DEF Places
  <2>3. IsFiniteSet(likes')
    BY <2>1, FS_RemoveElement
  <2>4. RemovesOwn'
    <3> SUFFICES ASSUME NEW s \in Requests, At(s, "remove")', req'[s].post \notin drifted'
                 PROVE  /\ Liking(s)' \in likes'
                        /\ \A q \in Requests : At(q, "remove")' /\ Liking(q)' = Liking(s)' => q = s
      BY DEF RemovesOwn
    <3>1. \A q \in Requests : At(q, "remove")' => q # r /\ At(q, "remove") /\ req'[q] = req[q] /\ Liking(q)' = Liking(q)
      BY <2>2 DEF At, Liking
    <3>2. Liking(s) \in likes /\ \A q \in Requests : At(q, "remove") /\ Liking(q) = Liking(s) => q = s
      BY <1>2, <3>1 DEF RemovesOwn
    <3> QED
      BY <2>1, <3>1, <3>2
  <2>5. ASSUME NEW p \in Posts \ drifted
        PROVE  (count[p] + Cardinality(Uncounted(p, "add"))
                   = Cardinality(LikesOf(p)) + Cardinality(Uncounted(p, "subtract")))'
    <3>1. Uncounted(p, "add")' = Uncounted(p, "add")
      BY <2>1, <2>2 DEF Uncounted, At
    <3>2. CASE p # c
      <4>1. Uncounted(p, "subtract")' = Uncounted(p, "subtract") /\ LikesOf(p)' = LikesOf(p)
        BY <2>1, <2>2, <3>2 DEF Uncounted, At, LikesOf, Liking
      <4> QED
        BY <2>1, <2>5, <3>1, <4>1 DEF LikesCounted
    <3>3. CASE p = c
      <4>1. Uncounted(p, "subtract")' = Uncounted(p, "subtract") \cup {r} /\ r \notin Uncounted(p, "subtract")
        BY <2>1, <2>2, <3>3 DEF Uncounted, At
      <4>2. Liking(r) \in likes
        BY <2>1, <2>5, <3>3 DEF RemovesOwn
      <4>3. LikesOf(p)' = LikesOf(p) \ {Liking(r)} /\ Liking(r) \in LikesOf(p)
        BY <2>1, <3>3, <4>2 DEF LikesOf, Liking
      <4>4. Cardinality(Uncounted(p, "subtract")') = Cardinality(Uncounted(p, "subtract")) + 1
        BY <1>3, <4>1, OneMore DEF Counting
      <4>5. Cardinality(LikesOf(p)') = Cardinality(LikesOf(p)) - 1
        BY <1>3, <4>3, OneLess
      <4> QED
        BY <1>3, <2>1, <2>5, <3>1, <4>4, <4>5 DEF LikesCounted, Counting
    <3> QED
      BY <3>2, <3>3
  <2> QED
    BY <1>2, <2>3, <2>4, <2>5 DEF LikesCounted
<1>6. CASE CountLike(r)
  <2>1. /\ (At(r, "add") \/ At(r, "subtract")) /\ likes' = likes /\ End(r)
        /\ count' = [count EXCEPT ![c] = IF req[r].at = "add" THEN @ + 1 ELSE @ - 1]
    BY <1>6 DEF CountLike
  <2>2. req'[r] = None /\ \A q \in Requests \ {r} : req'[q] = req[q]
    BY <2>1, EndsThere
  <2>3. RemovesOwn'
    BY <1>2, <2>1, <2>2, QuietRemovals DEF At
  <2>4. ASSUME NEW p \in Posts \ drifted
        PROVE  (count[p] + Cardinality(Uncounted(p, "add"))
                   = Cardinality(LikesOf(p)) + Cardinality(Uncounted(p, "subtract")))'
    <3>1. LikesOf(p)' = LikesOf(p) /\ count \in [Posts -> Int]
      BY <2>1 DEF LikesOf, TypeInv, TypeOK
    <3>2. \A a \in Counting : Uncounted(p, a)' = Uncounted(p, a) \ {r}
      BY <2>2 DEF Uncounted, At
    <3>3. CASE p # c
      <4>1. \A a \in Counting : Uncounted(p, a)' = Uncounted(p, a)
        BY <3>2, <3>3 DEF Uncounted
      <4> QED
        BY <2>1, <2>4, <3>1, <3>3, <4>1 DEF LikesCounted, Counting
    <3>4. CASE p = c /\ At(r, "add")
      <4>1. r \in Uncounted(p, "add") /\ r \notin Uncounted(p, "subtract")
        BY <3>4 DEF Uncounted, At
      <4>2. Cardinality(Uncounted(p, "add")') = Cardinality(Uncounted(p, "add")) - 1
        BY <1>3, <3>2, <4>1, OneLess DEF Counting
      <4>3. Uncounted(p, "subtract")' = Uncounted(p, "subtract")
        BY <3>2, <4>1 DEF Counting
      <4>4. count'[p] = count[p] + 1
        BY <2>1, <3>1, <3>4 DEF At
      <4> QED
        BY <1>3, <2>4, <3>1, <4>2, <4>3, <4>4 DEF LikesCounted, Counting
    <3>5. CASE p = c /\ At(r, "subtract")
      <4>1. r \in Uncounted(p, "subtract") /\ r \notin Uncounted(p, "add")
        BY <3>5 DEF Uncounted, At
      <4>2. Cardinality(Uncounted(p, "subtract")') = Cardinality(Uncounted(p, "subtract")) - 1
        BY <1>3, <3>2, <4>1, OneLess DEF Counting
      <4>3. Uncounted(p, "add")' = Uncounted(p, "add")
        BY <3>2, <4>1 DEF Counting
      <4>4. count'[p] = count[p] - 1
        BY <2>1, <3>1, <3>5 DEF At
      <4> QED
        BY <1>3, <2>4, <3>1, <4>2, <4>3, <4>4 DEF LikesCounted, Counting
    <3> QED
      BY <2>1, <3>3, <3>4, <3>5
  <2> QED
    BY <1>2, <2>1, <2>3, <2>4 DEF LikesCounted
<1> QED
  BY <1>4, <1>5, <1>6

(* A step of r that neither touches likes and counters nor brings r to     *)
(* them, and that leaves them only on a post it marks as drifted.          *)
LEMMA QuietStep ==
    ASSUME IsFiniteSet(likes), RemovesOwn, LikesCounted, NEW r \in Requests,
           UNCHANGED <<likes, count>>, drifted \subseteq drifted',
           \A q \in Requests \ {r} : req'[q] = req[q],
           req[r] # None /\ req'[r] # None => req'[r].post = req[r].post,
           ~At(r, "remove")', ~At(r, "add")', ~At(r, "subtract")',
           At(r, "add") \/ At(r, "subtract") => req[r].post \in drifted'
    PROVE  IsFiniteSet(likes)' /\ RemovesOwn' /\ LikesCounted'
<1>1. RemovesOwn'
  <2>1. \A q \in Requests : At(q, "remove")' => At(q, "remove") /\ req'[q] = req[q]
    BY DEF At
  <2> QED
    BY <2>1, QuietRemovals
<1>2. LikesCounted'
  <2>1. ASSUME NEW q \in Requests, NEW a \in Counting
        PROVE  \/ req[q] # None /\ req[q].post \in drifted'
               \/ (At(q, a)' <=> At(q, a)) /\ (At(q, a) => req'[q].post = req[q].post)
    <3>1. CASE q = r
      <4>1. ~At(r, a)'
        BY DEF Counting
      <4>2. At(r, a) => req[r] # None /\ req[r].post \in drifted'
        BY DEF Counting, At
      <4> QED
        BY <3>1, <4>1, <4>2
    <3>2. CASE q # r
      BY <3>2 DEF At
    <3> QED
      BY <3>1, <3>2
  <2>2. \A q \in Requests : req'[q] # None /\ req[q] # None => req'[q].post = req[q].post
    OBVIOUS
  <2>3. likes' = likes /\ count' = count
    OBVIOUS
  <2> QED
    BY ONLY LikesCounted, drifted \subseteq drifted', <2>1, <2>2, <2>3, QuietCounts
<1> QED
  BY <1>1, <1>2

LEMMA LikesKept ==
    ASSUME TypeInv, IsFiniteSet(likes), RemovesOwn, LikesCounted, [Next]_vars
    PROVE  IsFiniteSet(likes)' /\ RemovesOwn' /\ LikesCounted'
<1> DEFINE Kept == IsFiniteSet(likes)' /\ RemovesOwn' /\ LikesCounted'
<1>1. ASSUME NEW r \in Requests, Start(r) PROVE Kept
  <2>1. Opens(r) /\ UNCHANGED <<rows, ghost>>
    BY <1>1, StartOpens
  <2>2. /\ req[r] = None /\ \A q \in Requests \ {r} : req'[q] = req[q]
        /\ req'[r].at \in {"lookup", "write", "clear", "erase", "file", "find"}
    BY <2>1, OpensThere
  <2>3. UNCHANGED <<likes, count>> /\ drifted' = drifted
    BY <2>1 DEF rows, ghost
  <2>4. ~At(r, "remove")' /\ ~At(r, "add")' /\ ~At(r, "subtract")' /\ ~At(r, "add") /\ ~At(r, "subtract")
    BY <2>2 DEF At
  <2> QED
    BY <2>2, <2>3, <2>4, QuietStep
<1>2. ASSUME NEW r \in Requests, Step(r) PROVE Kept
  <2>1. req[r] # None /\ req[r] \in RequestType /\ Equipped(req[r])
    BY <1>2, PlacedAt DEF Step, LookupLike, InsertLike, RemoveLike, CountLike, ClearMedia, AttachMedia,
       WriteText, Erase, File, FindReport, Hide, SetStatus, Fail, At
  <2>2. ASSUME End(r), UNCHANGED <<likes, count>>, drifted \subseteq drifted',
               At(r, "add") \/ At(r, "subtract") => req[r].post \in drifted'
        PROVE  Kept
    <3>1. req'[r] = None /\ \A q \in Requests \ {r} : req'[q] = req[q]
      BY <2>2, EndsThere
    <3>2. ~At(r, "remove")' /\ ~At(r, "add")' /\ ~At(r, "subtract")'
      BY <3>1 DEF At
    <3> QED
      BY <2>2, <3>1, <3>2, QuietStep
  <2>3. ASSUME NEW place \in Places \ {"remove", "add", "subtract"}, Go(r, place),
               UNCHANGED <<likes, count>>, drifted \subseteq drifted',
               ~At(r, "add") /\ ~At(r, "subtract")
        PROVE  Kept
    <3>1. req'[r].at = place /\ req'[r].post = req[r].post /\ \A q \in Requests \ {r} : req'[q] = req[q]
      BY <2>1, <2>3, GoesOn
    <3>2. ~At(r, "remove")' /\ ~At(r, "add")' /\ ~At(r, "subtract")'
      BY <3>1 DEF At
    <3> QED
      BY <2>3, <3>1, <3>2, QuietStep
  <2>4. CASE LookupLike(r)
    <3>1. /\ At(r, "lookup") /\ ~At(r, "add") /\ ~At(r, "subtract") /\ ~At(r, "remove")
          /\ UNCHANGED <<likes, count>> /\ drifted \subseteq drifted'
      BY <2>4 DEF LookupLike, At, rows
    <3>2. CASE End(r)
      BY <2>2, <3>1, <3>2
    <3>3. CASE Go(r, "insert")
      BY <2>3, <3>1, <3>3 DEF Places
    <3>4. CASE Go(r, "remove") /\ ~End(r) /\ ~Go(r, "insert")
      <4>1. /\ Liking(r) \in likes
            /\ drifted' = drifted \cup
                 {p \in Posts : \E q \in Requests \ {r} :
                     At(q, "remove") /\ Liking(q) = Liking(r) /\ p = req[r].post}
        <5>1. req[r].op \in {"like", "unlike"}
          BY <2>1, <3>1 DEF Equipped, At
        <5> QED
          BY <2>4, <3>4, <5>1 DEF LookupLike
      <4>2. /\ req'[r] # None /\ req'[r].at = "remove" /\ req'[r].post = req[r].post
            /\ req'[r].user = req[r].user /\ \A q \in Requests \ {r} : req'[q] = req[q]
        BY <2>1, <3>4, GoesOn DEF Places
      <4>3. \A q \in Requests : Liking(q)' = Liking(q) /\ (At(q, "remove")' => q = r \/ At(q, "remove"))
        BY <4>2 DEF Liking, At
      <4>4. LikesCounted'
        <5>1. \A q \in Requests, a \in Counting :
                 (At(q, a)' <=> At(q, a)) /\ (At(q, a) => req'[q].post = req[q].post)
          BY <3>1, <4>2 DEF At, Counting
        <5> QED
          BY <3>1, <4>2, <5>1, QuietCounts
      <4>5. ASSUME NEW s \in Requests, At(s, "remove")', req'[s].post \notin drifted'
            PROVE  /\ Liking(s)' \in likes'
                   /\ \A q \in Requests : At(q, "remove")' /\ Liking(q)' = Liking(s)' => q = s
        <5>1. req'[s].post = req[s].post /\ req[s].post \notin drifted'
          BY <4>2, <4>5
        <5>2. CASE s = r
          <6>1. \A q \in Requests \ {r} : ~(At(q, "remove") /\ Liking(q) = Liking(r))
            BY <2>1, <4>1, <5>1, <5>2 DEF RequestType
          <6> QED
            BY <3>1, <4>1, <4>3, <5>2, <6>1
        <5>3. CASE s # r
          <6>1. At(s, "remove") /\ req[s].post \notin drifted
            BY <3>1, <4>3, <4>5, <5>1, <5>3
          <6>2. Liking(s) \in likes /\ \A q \in Requests : At(q, "remove") /\ Liking(q) = Liking(s) => q = s
            BY <6>1 DEF RemovesOwn
          <6>3. Liking(r) # Liking(s)
            <7>1. SUFFICES ASSUME Liking(r) = Liking(s) PROVE FALSE
              OBVIOUS
            <7>2. req[s].post = req[r].post /\ req[r].post \in Posts
              BY <2>1, <7>1 DEF Liking, RequestType
            <7> QED
              BY <4>1, <5>1, <5>3, <6>1, <7>1, <7>2
          <6> QED
            BY <3>1, <4>3, <6>2, <6>3
        <5> QED
          BY <5>2, <5>3
      <4>6. RemovesOwn'
        BY <4>5 DEF RemovesOwn
      <4> QED
        BY <3>1, <4>4, <4>6
    <3> QED
      BY <2>4, <3>2, <3>3, <3>4 DEF LookupLike
  <2>5. CASE InsertLike(r) \/ RemoveLike(r) \/ CountLike(r)
    BY <2>5, LikeStep
  <2>6. CASE ClearMedia(r) \/ AttachMedia(r)
    <3>1. ~At(r, "add") /\ ~At(r, "subtract") /\ UNCHANGED <<likes, count, drifted>>
      BY <2>6 DEF ClearMedia, AttachMedia, At, ghost
    <3> QED
      BY <2>3, <2>6, <3>1 DEF ClearMedia, AttachMedia, Places
  <2>7. CASE WriteText(r) \/ Erase(r) \/ File(r) \/ SetStatus(r)
    <3>1. ~At(r, "add") /\ ~At(r, "subtract") /\ UNCHANGED <<likes, count, drifted>> /\ End(r)
      BY <2>7 DEF WriteText, Erase, File, SetStatus, At, rows, ghost
    <3> QED
      BY <2>2, <3>1
  <2>8. CASE FindReport(r) \/ Hide(r)
    <3>1. ~At(r, "add") /\ ~At(r, "subtract") /\ UNCHANGED <<likes, count, drifted>>
      BY <2>8 DEF FindReport, Hide, At, rows, ghost
    <3> QED
      BY <2>2, <2>3, <2>8, <3>1 DEF FindReport, Hide, Places
  <2>9. CASE Fail(r)
    <3>1. End(r) /\ UNCHANGED <<likes, count>> /\ drifted \subseteq drifted'
      BY <2>9 DEF Fail, rows
    <3>2. At(r, "add") \/ At(r, "subtract") => req[r].post \in drifted'
      BY <2>9 DEF Fail, At
    <3> QED
      BY <2>2, <3>1, <3>2
  <2> QED
    BY <1>2, <2>4, <2>5, <2>6, <2>7, <2>8, <2>9 DEF Step
<1>3. CASE UNCHANGED vars
  <2>1. UNCHANGED <<likes, count, drifted, req>>
    BY <1>3 DEF vars, rows, ghost
  <2>2. RemovesOwn' /\ \A q \in Requests, a \in Counting : At(q, a)' <=> At(q, a)
    BY <2>1 DEF RemovesOwn, At, Liking
  <2> QED
    BY <2>1, <2>2, QuietCounts
<1> QED
  BY <1>1, <1>2, <1>3 DEF Next

-------------------------------------------------------------------------------
LEMMA Initial == Init => IInv
<1> SUFFICES ASSUME Init PROVE IInv
  OBVIOUS
<1> USE DEF Init
<1>1. TypeInv
  BY DEF TypeInv, TypeOK
<1>2. HidesFirst /\ ResolvedIsHidden /\ RemovesOwn
  BY DEF HidesFirst, ResolvedIsHidden, RemovesOwn, At
<1>3. EditsAlone
  BY DEF EditsAlone, At
<1>4. IsFiniteSet(likes) /\ Cardinality({}) = 0
  BY FS_EmptySet
<1>5. ASSUME NEW p \in Posts
      PROVE  count[p] = 0 /\ LikesOf(p) = {} /\ Uncounted(p, "add") = {} /\ Uncounted(p, "subtract") = {}
  BY DEF LikesOf, Uncounted, At
<1>6. LikesCounted
  BY <1>4, <1>5 DEF LikesCounted
<1> QED
  BY <1>1, <1>2, <1>3, <1>4, <1>6 DEF IInv

LEMMA Inductive == IInv /\ [Next]_vars => IInv'
<1> SUFFICES ASSUME IInv, [Next]_vars PROVE IInv'
  OBVIOUS
<1>1. TypeInv'
  BY TypesKept DEF IInv
<1>2. HidesFirst' /\ ResolvedIsHidden'
  BY HiddenKept DEF IInv
<1>3. EditsAlone'
  BY EditsKept DEF IInv
<1>4. IsFiniteSet(likes)' /\ RemovesOwn' /\ LikesCounted'
  BY LikesKept DEF IInv
<1> QED
  BY <1>1, <1>2, <1>3, <1>4 DEF IInv

LEMMA Always == Spec => []IInv
<1> QED
  BY Initial, Inductive, PTL DEF Spec

(* Rows and requests keep their types, whatever requests overlap or fail.  *)
THEOREM BoardTypes == Spec => []TypeOK
<1>1. IInv => TypeOK
  BY DEF IInv, TypeInv
<1> QED
  BY <1>1, Always, PTL

(* A post or comment with a resolved report is hidden, in whatever order   *)
(* deletions, edits and verdicts come.                                     *)
THEOREM AlwaysHidden == Spec => []ResolvedIsHidden
<1>1. IInv => ResolvedIsHidden
  BY DEF IInv
<1> QED
  BY <1>1, Always, PTL

(* No step of any request brings back what was deleted or hidden.          *)
THEOREM NothingReturns == Spec => GoneForGood
<1>1. IInv /\ [Next]_vars => [deleted \subseteq deleted' /\ hidden \subseteq hidden']_vars
  BY HiddenKept DEF IInv
<1> QED
  BY <1>1, Always, PTL DEF Spec, GoneForGood

(* likeCount and the like rows agree but for the requests between the two, *)
(* on every post where no such request failed or shared its like.          *)
THEOREM LikesAlwaysCounted == Spec => []LikesCounted
<1>1. IInv => LikesCounted
  BY DEF IInv
<1> QED
  BY <1>1, Always, PTL

(* A post whose edits did not interleave has the media of at most one.     *)
THEOREM MediaAlwaysOfOneEdit == Spec => []MediaOfOneEdit
<1>1. IInv => MediaOfOneEdit
  BY OneListEach DEF IInv
<1> QED
  BY <1>1, Always, PTL

===============================================================================

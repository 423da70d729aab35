--------------------------------- MODULE Boards ---------------------------------
(***************************************************************************)
(* BoardsService, CommentsService and the two report services: posts and   *)
(* comments are liked, edited, deleted, reported and hidden by requests    *)
(* that read first and write later, one SQL statement per step and no      *)
(* transaction around them.  Posts and comments are created before the     *)
(* behaviour starts (RewardProducers has their creation).                  *)
(***************************************************************************)
EXTENDS Integers, FiniteSets

CONSTANTS
    Boards, Comments, BoardOf,   \* posts, comments, and the post of each
    Members, Admins, Author,     \* the users, and who wrote what
    MediaLists,                  \* the lists of media a post may be given
    Requests,                    \* names for the requests open at one time
    NoMedia,                     \* the list without media
    None                         \* null

Posts == Boards \cup Comments
Users == Members \cup Admins

ASSUME BoardsAssumption ==
    /\ Boards \cap Comments = {} /\ Members \cap Admins = {}
    /\ BoardOf \in [Comments -> Boards]
    /\ Author \in [Posts -> Users]
    /\ IsFiniteSet(Users) /\ IsFiniteSet(Requests)
    /\ NoMedia \in MediaLists
    /\ None \notin MediaLists \cup {"pending", "resolved", "rejected"}

VARIABLES
    deleted, hidden,   \* DB boards, board_comments: deletedAt, isHidden
    likes,             \* DB board_likes, board_comment_likes
    count,             \* DB likeCount
    attached,          \* DB board_media: the lists whose rows are there
    report,            \* DB board_reports, comment_reports: None or a status
    req,               \* the open requests
    drifted,           \* posts whose count may differ from their likes
    mixed              \* posts that two edits of their media interleaved on

rows  == <<deleted, hidden, likes, count, attached, report>>
ghost == <<drifted, mixed>>
vars  == <<rows, req, ghost>>

Statuses == {"pending", "resolved", "rejected"}
Ops      == {"like", "unlike", "delete", "edit", "report", "process"}
Places   == {"lookup", "insert", "remove", "add", "subtract", "clear", "attach",
             "write", "erase", "file", "find", "hide", "status"}

(* user is who likes or reports, of the reporter of the report to process, *)
(* arg the new media list or the administrator's verdict.                  *)
Request(op, at, p, u, of, arg) ==
    [op |-> op, at |-> at, post |-> p, user |-> u, of |-> of, arg |-> arg]
RequestType ==
    [op : Ops, at : Places, post : Posts, user : Users \cup {None}, of : Users \cup {None},
     arg : MediaLists \cup Statuses \cup {None}]

ASSUME NoneIsNoRequest == None \notin RequestType

At(r, place) == req[r] # None /\ req[r].at = place
Liking(r)    == <<req[r].post, req[r].user>>
Subject(r)   == <<req[r].post, req[r].of>>

Open(r, new) == req[r] = None /\ req' = [req EXCEPT ![r] = new]
Go(r, place) == req' = [req EXCEPT ![r].at = place]
End(r)       == req' = [req EXCEPT ![r] = None]

(* BoardsService.findById, and CommentsService.findBoardOrFail, which does *)
(* not look at isHidden, nor findCommentOrFail at deletedAt.               *)
Visible(p) ==
    IF p \in Boards THEN p \notin deleted \cup hidden ELSE BoardOf[p] \notin deleted

MayChange(u, p) == u = Author[p] \/ u \in Admins

Init ==
    /\ deleted = {} /\ hidden = {} /\ likes = {}
    /\ count = [p \in Posts |-> 0]
    /\ attached = [b \in Boards |-> {}]
    /\ report = [x \in Posts \X Users |-> None]
    /\ req = [r \in Requests |-> None]
    /\ drifted = {} /\ mixed = {}

-------------------------------------------------------------------------------
(* like / unlike: the post, the like, the row, the counter.  Nothing is    *)
(* said of a drifted post, which is therefore left alone.                  *)
Like(r, p, u) ==
    /\ Visible(p) /\ p \notin drifted
    /\ \E op \in {"like", "unlike"} : Open(r, Request(op, "lookup", p, u, None, None))
    /\ UNCHANGED <<rows, ghost>>

(* 409 or 404 if the like is there, or not.                                *)
LookupLike(r) ==
    /\ At(r, "lookup")
    /\ IF (Liking(r) \in likes) = (req[r].op = "unlike")
       THEN /\ Go(r, IF req[r].op = "like" THEN "insert" ELSE "remove")
            /\ drifted' = drifted \cup
                 {p \in Posts : \E q \in Requests \ {r} :
                     At(q, "remove") /\ Liking(q) = Liking(r) /\ p = req[r].post}
       ELSE End(r) /\ UNCHANGED drifted
    /\ UNCHANGED <<rows, mixed>>

(* Mutant: a like that is already there is no error. *)
InsertLikeAnyway(r) ==
    /\ At(r, "insert")
    /\ likes' = likes \cup {Liking(r)}
    /\ Go(r, "add")
    /\ UNCHANGED <<deleted, hidden, count, attached, report, ghost>>

(* boardId and memberId are unique together: otherwise the insert fails.   *)
InsertLike(r) ==
    /\ At(r, "insert") /\ Liking(r) \notin likes
    /\ likes' = likes \cup {Liking(r)}
    /\ Go(r, "add")
    /\ UNCHANGED <<deleted, hidden, count, attached, report, ghost>>

RemoveLike(r) ==
    /\ At(r, "remove")
    /\ likes' = likes \ {Liking(r)}
    /\ Go(r, "subtract")
    /\ UNCHANGED <<deleted, hidden, count, attached, report, ghost>>

(* increment / decrement, in SQL. *)
CountLike(r) ==
    /\ At(r, "add") \/ At(r, "subtract")
    /\ count' = [count EXCEPT ![req[r].post] = IF req[r].at = "add" THEN @ + 1 ELSE @ - 1]
    /\ End(r)
    /\ UNCHANGED <<deleted, hidden, likes, attached, report, ghost>>

-------------------------------------------------------------------------------
(* Mutant: absent mediaIds are not told from given ones. *)
EditAnyList(r, p, u, list) ==
    /\ Visible(p) /\ MayChange(u, p) /\ p \in Boards
    /\ Open(r, Request("edit", "clear", p, None, None, list))
    /\ UNCHANGED <<rows, ghost>>

Edit(r, p, u, list) ==
    /\ Visible(p) /\ MayChange(u, p)
    /\ p \in Comments => p \notin deleted
    /\ list # None => p \in Boards
    /\ Open(r, Request("edit", IF list = None THEN "write" ELSE "clear", p, None, None, list))
    /\ UNCHANGED <<rows, ghost>>

(* Mutant: the old media are left to a later clean-up. *)
KeepMedia(r) ==
    /\ At(r, "clear")
    /\ Go(r, IF req[r].arg = NoMedia THEN "write" ELSE "attach")
    /\ UNCHANGED <<rows, ghost>>

ClearMedia(r) ==
    LET b == req[r].post
        others == \E q \in Requests \ {r} : At(q, "attach") /\ req[q].post = b
    IN  /\ At(r, "clear")
        /\ attached' = [attached EXCEPT ![b] = {}]
        /\ mixed' = IF others THEN mixed \cup {b} ELSE mixed \ {b}
        /\ Go(r, IF req[r].arg = NoMedia THEN "write" ELSE "attach")
        /\ UNCHANGED <<deleted, hidden, likes, count, report, drifted>>

AttachMedia(r) ==
    /\ At(r, "attach")
    /\ attached' = [attached EXCEPT ![req[r].post] = @ \cup {req[r].arg}]
    /\ Go(r, "write")
    /\ UNCHANGED <<deleted, hidden, likes, count, report, ghost>>

(* Mutant: save() of the entity as it was read, instead of update().       *)
SaveEntity(r) ==
    /\ At(r, "write")
    /\ deleted' = deleted \ {req[r].post}
    /\ hidden' = hidden \ ({req[r].post} \cap Boards)
    /\ End(r)
    /\ UNCHANGED <<likes, count, attached, report, ghost>>

(* update() writes the category, title and body only.                      *)
WriteText(r) ==
    /\ At(r, "write")
    /\ End(r)
    /\ UNCHANGED <<rows, ghost>>

Delete(r, p, u) ==
    /\ Visible(p) /\ MayChange(u, p)
    /\ Open(r, Request("delete", "erase", p, None, None, None))
    /\ UNCHANGED <<rows, ghost>>

Erase(r) ==
    /\ At(r, "erase")
    /\ deleted' = deleted \cup {req[r].post}
    /\ End(r)
    /\ UNCHANGED <<hidden, likes, count, attached, report, ghost>>

-------------------------------------------------------------------------------
(* create: deleted and hidden posts can be reported too. *)
Report(r, p, u) ==
    /\ u # Author[p] /\ report[p, u] = None
    /\ Open(r, Request("report", "file", p, u, None, None))
    /\ UNCHANGED <<rows, ghost>>

File(r) ==
    /\ At(r, "file") /\ report[Liking(r)] = None
    /\ report' = [report EXCEPT ![Liking(r)] = "pending"]
    /\ End(r)
    /\ UNCHANGED <<deleted, hidden, likes, count, attached, ghost>>

(* update: the administrator, the report, the post, the status. *)
Process(r, p, of, verdict) ==
    /\ Open(r, Request("process", "find", p, None, of, verdict))
    /\ UNCHANGED <<rows, ghost>>

FindReport(r) ==
    /\ At(r, "find")
    /\ IF report[Subject(r)] = "pending"
       THEN Go(r, IF req[r].arg = "resolved" THEN "hide" ELSE "status")
       ELSE End(r)
    /\ UNCHANGED <<rows, ghost>>

(* Mutant: only a post that findById finds is hidden. *)
HideVisible(r) ==
    /\ At(r, "hide")
    /\ hidden' = hidden \cup ({req[r].post} \ deleted)
    /\ Go(r, "status")
    /\ UNCHANGED <<deleted, likes, count, attached, report, ghost>>

Hide(r) ==
    /\ At(r, "hide")
    /\ hidden' = hidden \cup {req[r].post}
    /\ Go(r, "status")
    /\ UNCHANGED <<deleted, likes, count, attached, report, ghost>>

SetStatus(r) ==
    /\ At(r, "status")
    /\ report' = [report EXCEPT ![Subject(r)] = req[r].arg]
    /\ End(r)
    /\ UNCHANGED <<deleted, hidden, likes, count, attached, ghost>>

-------------------------------------------------------------------------------
(* A statement fails, or the process dies; what was written stays.         *)
Fail(r) ==
    /\ req[r] # None
    /\ drifted' = IF req[r].at \in {"add", "subtract"} THEN drifted \cup {req[r].post} ELSE drifted
    /\ End(r)
    /\ UNCHANGED <<rows, mixed>>

Start(r) ==
    \E p \in Posts, u \in Users :
        \/ Like(r, p, u) \/ Delete(r, p, u) \/ Report(r, p, u)
        \/ \E list \in MediaLists \cup {None} : Edit(r, p, u, list)
        \/ /\ report[p, u] # None /\ Admins # {}
           /\ \E verdict \in {"resolved", "rejected"} : Process(r, p, u, verdict)

Step(r) ==
    \/ LookupLike(r) \/ InsertLike(r) \/ RemoveLike(r) \/ CountLike(r)
    \/ ClearMedia(r) \/ AttachMedia(r) \/ WriteText(r) \/ Erase(r)
    \/ File(r) \/ FindReport(r) \/ Hide(r) \/ SetStatus(r)
    \/ Fail(r)

Next == \E r \in Requests : Start(r) \/ Step(r)

Spec == Init /\ [][Next]_vars

-------------------------------------------------------------------------------
TypeOK ==
    /\ deleted \subseteq Posts /\ hidden \subseteq Posts
    /\ likes \subseteq Posts \X Users
    /\ count \in [Posts -> Int]
    /\ attached \in [Boards -> SUBSET MediaLists]
    /\ report \in [Posts \X Users -> Statuses \cup {None}]
    /\ req \in [Requests -> RequestType \cup {None}]
    /\ drifted \subseteq Posts /\ mixed \subseteq Boards

LikesOf(p)     == {x \in likes : x[1] = p}
Uncounted(p,a) == {r \in Requests : At(r, a) /\ req[r].post = p}

(* likeCount is the number of likes (docs/db-spec.md:497), up to the       *)
(* requests between their row and the counter, unless one of those failed  *)
(* there or two unlikes of one member found the same like.                 *)
LikesCounted ==
    \A p \in Posts \ drifted :
        count[p] + Cardinality(Uncounted(p, "add"))
            = Cardinality(LikesOf(p)) + Cardinality(Uncounted(p, "subtract"))

(* Edits that did not interleave leave the media of one of them, or none   *)
(* if it failed halfway (docs of UpdateBoardDto.mediaIds).                 *)
MediaOfOneEdit == \A b \in Boards \ mixed : Cardinality(attached[b]) <= 1

(* A post or comment with a resolved report is hidden, in whatever order   *)
(* it is deleted, edited and judged, and wherever a request stops          *)
(* (docs/api/14-admin-reports.md:184).                                     *)
ResolvedIsHidden ==
    \A p \in Posts, u \in Users : report[p, u] = "resolved" => p \in hidden

(* No step brings back what was deleted or hidden, the edits that read it  *)
(* before included.                                                        *)
GoneForGood == [][deleted \subseteq deleted' /\ hidden \subseteq hidden']_vars

===============================================================================

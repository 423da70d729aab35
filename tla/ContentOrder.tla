----------------------------- MODULE ContentOrder ------------------------------
(***************************************************************************)
(* ContentsService: the positions (sort_order) of the contents of one      *)
(* interest.  A move shifts the contents in between and then sets the      *)
(* position, in two statements; a deletion numbers the remaining tutorials *)
(* afresh, in a transaction of its own; the drag handle of the admin       *)
(* console sends the list it last fetched, rearranged.                     *)
(***************************************************************************)
EXTENDS Naturals, Sequences, FiniteSets, SequencesExt

CONSTANTS
    Contents,
    Tutorials,      \* those of type symbol; the others have the same interests
    Starts,         \* the tutorials there are at first, in their order
    AdminRequests,  \* all of them are administrators'
    MaxPosition,    \* bound on the positions asked for
    MaxRequests,    \* bound on the requests ever made
    Null            \* null, or no row

ASSUME ContentOrderAssumption ==
    /\ IsFiniteSet(Contents) /\ Tutorials \subseteq Contents
    /\ \A s \in Starts : s \in Seq(Tutorials) /\ IsInjective(s)
    /\ MaxPosition \in Nat /\ MaxRequests \in Nat

Rows   == [pos : Nat \cup {Null}, active : BOOLEAN]
Stages == {"match", "shift", "set", "delete", "sort", "number", "refused"}
RequestType ==
    [at : Stages, alone : BOOLEAN, content : Contents \cup {Null}, to : Nat \cup {Null},
     from : Nat \cup {Null}, rows : SUBSET Contents, ids : Seq(Tutorials)]

ASSUME NullAssumption ==
    Null \notin Nat \cup Contents \cup Rows \cup RequestType \cup Seq(Tutorials)

VARIABLES
    contents,   \* DB contents: sort_order and whether the status is active
    shown,      \* the list of tutorials the console last fetched
    req,        \* the open requests
    opened,     \* how many were ever made
    order       \* the numbered tutorials as the requests put them, or Null
                \* once requests have overlapped or a position was asked for
                \* that leaves a gap

orderVars == <<contents, shown, req, opened, order>>

At(r, place) == req[r] # Null /\ req[r].at = place
Quiet        == \A r \in AdminRequests : req[r] = Null
There        == {c \in Contents : contents[c] # Null}
Existing     == There \cap Tutorials
Sort(c)      == contents[c].pos
Numbered(cs) == {c \in cs : Sort(c) # Null}

(* ORDER BY sort_order ASC: contents without one come last. *)
Before(c, d) == Sort(c) # Null /\ (Sort(d) = Null \/ Sort(c) < Sort(d))
InSortOrder(s) == \A i, j \in DOMAIN s : i < j => ~Before(s[j], s[i])
Sorted(cs) == {s \in SetToSeqs(cs) : InSortOrder(s)}

(* In a list that names nothing twice. *)
PlaceIn(s, c) == CHOOSE i \in DOMAIN s : s[i] = c
Without(s, c) == IF c \in Range(s) THEN RemoveAt(s, PlaceIn(s, c)) ELSE s

OrderInit ==
    /\ \E s \in Starts :
          /\ contents = [c \in Contents |->
                 IF c \notin Range(s) THEN Null
                 ELSE [pos |-> PlaceIn(s, c), active |-> TRUE]]
          /\ shown = s /\ order = s
    /\ req = [r \in AdminRequests |-> Null] /\ opened = 0

-------------------------------------------------------------------------------
(* What an open request may rely on is lost to the next one that comes.    *)
Disturbed == [q \in AdminRequests |-> IF req[q] = Null THEN Null ELSE [req[q] EXCEPT !.alone = FALSE]]

Open(r, new) ==
    /\ req[r] = Null /\ opened < MaxRequests
    /\ req' = [Disturbed EXCEPT ![r] = new]
    /\ opened' = opened + 1
    /\ order' = IF Quiet THEN order ELSE Null

(* A request of one statement. *)
Once(wanted) ==
    /\ opened < MaxRequests
    /\ opened' = opened + 1
    /\ req' = Disturbed
    /\ order' = IF Quiet THEN wanted ELSE Null

Resume(r, place) == req' = [req EXCEPT ![r].at = place] /\ UNCHANGED <<opened, order>>

End(r, wanted) ==
    /\ req' = [req EXCEPT ![r] = Null]
    /\ order' = IF req[r].alone THEN wanted ELSE Null
    /\ UNCHANGED opened

New(op, c, to, ids) ==
    [at |-> op, alone |-> Quiet, content |-> c, to |-> to, from |-> Null, rows |-> {}, ids |-> ids]

(* create: the position is the caller's, or null. *)
Create(c, pos) ==
    /\ contents[c] = Null
    /\ contents' = [contents EXCEPT ![c] = [pos |-> pos, active |-> TRUE]]
    /\ Once(IF order = Null \/ pos = Null \/ c \notin Tutorials THEN order
            ELSE IF pos = Len(order) + 1 THEN Append(order, c) ELSE Null)
    /\ UNCHANGED shown

(* update: the position as given, and the status. *)
SetSort(c, pos) ==
    /\ contents[c] # Null
    /\ contents' = [contents EXCEPT ![c].pos = pos]
    /\ Once(IF c \in Tutorials THEN Null ELSE order)
    /\ UNCHANGED shown

SetStatus(c, active) ==
    /\ contents[c] # Null
    /\ contents' = [contents EXCEPT ![c].active = active]
    /\ Once(order)
    /\ UNCHANGED shown

-------------------------------------------------------------------------------
(* updateSortOrder reads the content; a move to where it is does nothing.  *)
Move(r, c, to) ==
    /\ contents[c] # Null /\ Sort(c) # to
    /\ Open(r, [New("match", c, to, <<>>) EXCEPT !.from = Sort(c)])
    /\ UNCHANGED <<contents, shown>>

(* Mutant: a move to the back shifts the content's own position too.       *)
ShiftsFromHere(d, from, to) ==
    LET p == Sort(d)
    IN  p # Null /\ (IF from = Null THEN p >= to
                     ELSE IF to < from THEN p >= to /\ p < from
                     ELSE p >= from /\ p <= to)

(* The WHERE of the UPDATE: the rows between the two positions, of all     *)
(* types.                                                                  *)
Shifts(d, from, to) ==
    LET p == Sort(d)
    IN  p # Null /\ (IF from = Null THEN p >= to
                     ELSE IF to < from THEN p >= to /\ p < from
                     ELSE p > from /\ p <= to)

(* The rows the statement finds are locked one by one, and looked at again *)
(* if another statement has committed meanwhile (READ COMMITTED).          *)
Match(r) ==
    /\ At(r, "match")
    /\ req' = [req EXCEPT ![r].at = "shift",
                          ![r].rows = {d \in There : Shifts(d, req[r].from, req[r].to)}]
    /\ UNCHANGED <<contents, shown, opened, order>>

Shift(r) ==
    /\ At(r, "shift")
    /\ LET from == req[r].from
           to == req[r].to
           by(p) == IF from = Null \/ to < from THEN p + 1 ELSE p - 1
       IN  contents' = [d \in Contents |->
               IF d \in req[r].rows \cap There /\ Shifts(d, from, to)
               THEN [contents[d] EXCEPT !.pos = by(@)] ELSE contents[d]]
    /\ Resume(r, "set")
    /\ UNCHANGED shown

(* The order that a move is meant to bring about. *)
Moved(c, to) ==
    LET rest == Without(order, c)
    IN  IF c \notin Tutorials \/ to > Len(rest) + 1 THEN Null ELSE InsertAt(rest, to, c)

SetMoved(r) ==
    LET c == req[r].content
        to == req[r].to
    IN  /\ At(r, "set")
        /\ contents' = IF contents[c] = Null THEN contents ELSE [contents EXCEPT ![c].pos = to]
        /\ End(r, IF order = Null THEN Null ELSE Moved(c, to))
        /\ UNCHANGED shown

-------------------------------------------------------------------------------
(* delete. *)
Delete(r, c) ==
    /\ contents[c] # Null
    /\ Open(r, New("delete", c, Null, <<>>))
    /\ UNCHANGED <<contents, shown>>

RemoveRow(r) ==
    LET c == req[r].content
    IN  /\ At(r, "delete")
        /\ contents' = [contents EXCEPT ![c] = Null]
        /\ IF c \in Tutorials THEN Resume(r, "sort") ELSE End(r, order)
        /\ UNCHANGED shown

(* Mutant: the tutorials are read without an order.                        *)
SortAnyhow(r) ==
    /\ At(r, "sort")
    /\ \E s \in SetToSeqs(Existing) : req' = [req EXCEPT ![r].at = "number", ![r].ids = s]
    /\ UNCHANGED <<contents, shown, opened, order>>

(* renormalizeSortOrder: the transaction reads the tutorials in order.     *)
SortAfresh(r) ==
    /\ At(r, "sort")
    /\ \E s \in Sorted(Existing) : req' = [req EXCEPT ![r].at = "number", ![r].ids = s]
    /\ UNCHANGED <<contents, shown, opened, order>>

(* The transactions of renormalizeSortOrder and reorderTutorials commit.   *)
Number(r) ==
    LET ids == req[r].ids
        kept == Without(order, req[r].content)
    IN  /\ At(r, "number")
        /\ contents' = [c \in Contents |->
               IF contents[c] = Null \/ c \notin Range(ids) THEN contents[c]
               ELSE [contents[c] EXCEPT !.pos = PlaceIn(ids, c)]]
        /\ End(r, IF req[r].content = Null \/ order = Null THEN ids
                  ELSE kept \o SubSeq(ids, Len(kept) + 1, Len(ids)))
        /\ UNCHANGED shown

-------------------------------------------------------------------------------
(* findTutorials, as the console shows it: the active tutorials.           *)
Listings == Sorted({c \in Existing : contents[c].active})

Fetch ==
    /\ \E s \in Listings : s # shown /\ shown' = s
    /\ UNCHANGED <<contents, req, opened, order>>

ArrayMove(s, i, j) == InsertAt(RemoveAt(s, i), j, s[i])

(* handleDragEnd; reorderTutorials refuses a list that is not that of all  *)
(* the tutorials.                                                          *)
Reorder(r, ids) ==
    /\ ids # <<>>
    /\ Open(r, New(IF Range(ids) = Existing THEN "number" ELSE "refused", Null, Null, ids))
    /\ UNCHANGED <<contents, shown>>

Drag(r) == \E i, j \in DOMAIN shown : i # j /\ Reorder(r, ArrayMove(shown, i, j))

Refuse(r) == At(r, "refused") /\ End(r, order) /\ UNCHANGED <<contents, shown>>

(* An error: a transaction is rolled back, the statements before it stay.  *)
Fail(r) == req[r] # Null /\ End(r, Null) /\ UNCHANGED <<contents, shown>>

OrderNext ==
    \/ \E r \in AdminRequests :
          \/ Match(r) \/ Shift(r) \/ SetMoved(r)
          \/ RemoveRow(r) \/ SortAfresh(r) \/ Number(r)
          \/ Drag(r) \/ Refuse(r) \/ Fail(r)
          \/ \E c \in Contents : Delete(r, c) \/ \E to \in 1 .. MaxPosition : Move(r, c, to)
    \/ \E c \in Contents :
          \/ \E pos \in 1 .. MaxPosition : Create(c, pos) \/ SetSort(c, pos)
          \/ Create(c, Null)
          \/ \E active \in BOOLEAN : SetStatus(c, active)
    \/ Fetch

OrderSpec == OrderInit /\ [][OrderNext]_orderVars

-------------------------------------------------------------------------------
OrderTypeOK ==
    /\ contents \in [Contents -> Rows \cup {Null}]
    /\ shown \in Seq(Tutorials) /\ IsInjective(shown)
    /\ order = Null \/ (order \in Seq(Tutorials) /\ IsInjective(order))
    /\ opened \in 0 .. MaxRequests
    /\ req \in [AdminRequests -> RequestType \cup {Null}]
    /\ \A r \in AdminRequests : req[r] # Null =>
          /\ req[r].at \in {"match", "shift", "set"} => req[r].to # req[r].from
          /\ IsInjective(req[r].ids)

(* As long as requests come one at a time, and again after one reordering  *)
(* or deletion that nothing overlaps, the numbered tutorials are 1 to n in *)
(* the order that the moves, deletions and drags were meant to give them   *)
(* (updateSortOrder, delete, reorderTutorials, contents.service.ts:196).   *)
InOrder ==
    Quiet /\ order # Null =>
        /\ Range(order) = Numbered(Existing)
        /\ \A i \in DOMAIN order : Sort(order[i]) = i

(* Whatever overlaps, positions count from 1 (docs/db-spec.md:444): a      *)
(* shift that ran on stale positions may leave gaps and duplicates but     *)
(* pushes nothing below the first place.  The state is well typed.         *)
FromOne == OrderTypeOK /\ \A c \in Numbered(There) : Sort(c) >= 1

(* The console sends all the tutorials of the interest in their new order, *)
(* the inactive ones among them (docs/api/06-contents.md:455): a drag of a *)
(* list that is up to date when it is sent, while no other request is      *)
(* open, is not refused.                                                   *)
DragAccepted ==
    [][\A r \in AdminRequests :
          Drag(r) /\ Quiet /\ shown \in Listings => ~At(r, "refused")']_orderVars

===============================================================================

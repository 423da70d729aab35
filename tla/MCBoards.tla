-------------------------------- MODULE MCBoards --------------------------------
(***************************************************************************)
(* Small instances of Boards: everything is written by m1.                 *)
(***************************************************************************)
EXTENDS Boards, TLC

CONSTANTS b1, c1, m1, a1, x, y, r1, r2

PostOfAll == [c \in Comments |-> b1]
WrittenByM1 == [p \in Boards \cup Comments |-> m1]

Symmetry == Permutations(Requests) \cup Permutations(MediaLists \ {NoMedia})

(* The comment is only reported: its likes and edits are those of a post,  *)
(* and its deletion changes nothing for them.                              *)
QuietComments ==
    \A r \in Requests : req[r] # None /\ req[r].post \in Comments
                          => req[r].op \in {"report", "process"}

===============================================================================

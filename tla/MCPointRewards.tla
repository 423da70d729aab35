---------------------------- MODULE MCPointRewards ----------------------------
(***************************************************************************)
(* Small instances of PointRewards.  once and each are the two kinds of    *)
(* policy; e1, e2, e3 are board posts, e3 published as not applyable.      *)
(***************************************************************************)
EXTENDS PointRewards

CONSTANTS m1, m2, e1, e2, e3, once, each, board, r1, r2

(* Whose the events are. *)
SameMember == [e \in Events |-> m1]
TwoMembers == [e \in Events |-> IF e = e1 THEN m1 ELSE m2]

(* Which action they are of, and whether they carry pointApplyable: false. *)
OneAction    == [e \in Events |-> board]
AllButThird == [e \in Events |-> e # e3]

(* Both policies reward the board post, 1 point each. *)
PolicyOfBoard == [p \in Policies |-> board]
Seed == [p \in Policies |-> [amount |-> 1, oneTime |-> p = once, active |-> TRUE]]

===============================================================================

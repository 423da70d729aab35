------------------------------ MODULE MCXpRewards ------------------------------
(***************************************************************************)
(* Small instances of XpRewards: a one-time policy worth 2 XP and a        *)
(* repeating one worth 1, so that a payment can pass no level, one level   *)
(* or two at once.                                                         *)
(***************************************************************************)
EXTENDS XpRewards, FiniteSets

CONSTANTS m1, m2, e1, e2, once, each, board, r1, r2

SameMember    == [e \in Events |-> m1]
OneAction     == [e \in Events |-> board]
AllApplyable  == [e \in Events |-> TRUE]
PolicyOfBoard == [p \in Policies |-> board]
Seed == [p \in Policies |-> [amount |-> IF p = once THEN 2 ELSE 1,
                             oneTime |-> p = once, active |-> TRUE]]

(* Levels that one payment may reach, pass or fall short of. *)
ThreeLevels == [l \in Levels |-> [threshold |-> (<<0, 2, 3>>)[l], active |-> TRUE]]

(* Levels that two payments pass, and one that may be created. *)
LowLevels == [l \in Levels |-> IF l = 4 THEN None
                               ELSE [threshold |-> (<<0, 1, 2>>)[l], active |-> TRUE]]

(* In one behaviour administrators pay, edit a level, or edit a policy.    *)
OneKindOfCare ==
    Cardinality({i \in 1 .. 3 : <<used # {}, levelEdits > 0, edits > 0>>[i]}) <= 1

===============================================================================

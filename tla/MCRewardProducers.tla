--------------------------- MODULE MCRewardProducers ---------------------------
(***************************************************************************)
(* Small instances of RewardProducers, all requests of one member.         *)
(***************************************************************************)
EXTENDS RewardProducers

CONSTANTS w1, w2, w3, b1, b2, c1

OneContent == [r \in Requests |-> c1]

(* Watch requests for one tutorial, the second one short of 100 %, and the *)
(* same challenge twice.                                                   *)
KindByName   == [r \in Requests |-> IF r \in {b1, b2} THEN "challenge" ELSE "watch"]
AllButSecond == [r \in Requests |-> r \in {w1, w3}]

===============================================================================

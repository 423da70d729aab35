----------------------------- MODULE MCNicknames ------------------------------
(* Two members, two requests at a time, and pools of one, six and 194      *)
(* pairs: 97 is prime, so only a multiple of it makes the search for a     *)
(* coprime step go on.                                                     *)
EXTENDS Nicknames

CONSTANTS u1, u2, r1, r2

MCPools == {<<1, 1>>, <<2, 3>>, <<2, 97>>}
MCTyped == {<<0, 0>>, <<0, 0, 2>>}

===============================================================================

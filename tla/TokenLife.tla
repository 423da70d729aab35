------------------------------- MODULE TokenLife -------------------------------
(***************************************************************************)
(* What refresh tokens promise, without Redis: a token is issued once,     *)
(* dies once and never comes back, and a client is told that a token is    *)
(* void (its rotation, its logout or its owner's withdrawal was answered)  *)
(* only when the token is dead.                                            *)
(***************************************************************************)
CONSTANT Tokens

VARIABLES
    life,     \* "unused", "live" or "dead"
    voided    \* the tokens some answer declared void

Init ==
    /\ life = [t \in Tokens |-> "unused"]
    /\ voided = {}

Issue(t) ==
    /\ life[t] = "unused"
    /\ life' = [life EXCEPT ![t] = "live"]
    /\ UNCHANGED voided

Kill(T) ==
    /\ \A t \in T : life[t] # "unused"
    /\ life' = [t \in Tokens |-> IF t \in T THEN "dead" ELSE life[t]]
    /\ UNCHANGED voided

Void(T) ==
    /\ \A t \in T : life[t] = "dead"
    /\ voided' = voided \cup T
    /\ UNCHANGED life

Next ==
    \/ \E t \in Tokens : Issue(t)
    \/ \E T \in SUBSET Tokens : Kill(T) \/ Void(T)

Spec == Init /\ [][Next]_<<life, voided>>

(* No token a client was told is void can be used again.                   *)
VoidIsDead == \A t \in voided : t \in Tokens /\ life[t] = "dead"

===============================================================================

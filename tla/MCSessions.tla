------------------------------- MODULE MCSessions -------------------------------
(***************************************************************************)
(* Small instances of Sessions.                                            *)
(***************************************************************************)
EXTENDS Sessions, TLC

CONSTANTS m1, a1, a2, t1, t2, d1, r1, r2

Symmetry == Permutations(Tokens) \cup Permutations(Requests)

(* The second administrator is only there to delete the first one, who     *)
(* neither withdraws nor has a device.                                     *)
QuietAdmins ==
    \A r \in Requests : req[r] # None =>
        /\ req[r].user # a2
        /\ req[r].user = a1 => req[r].op \notin {"withdraw", "register"}

===============================================================================

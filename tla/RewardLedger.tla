----------------------------- MODULE RewardLedger -----------------------------
(***************************************************************************)
(* What a reward queue promises, without queue, Redis or retries: the      *)
(* transaction table only grows, and the queue appends a row               *)
(*   - for a policy and an event it has not paid under that policy, and    *)
(*   - for a one-time policy, only if it never paid it to that member      *)
(* (the dedup rules in the header of point.processor.ts).  Administrators  *)
(* append what they like.                                                  *)
(***************************************************************************)
EXTENDS Naturals, Sequences

CONSTANT Rows   \* records with fields member, policy, ref, by, once

VARIABLE ledger

Init == ledger = <<>>

Duplicates(old, new) ==
    /\ old.by = "queue"
    /\ old.member = new.member /\ old.policy = new.policy
    /\ new.once \/ old.ref = new.ref

Pay(row) ==
    /\ row.by = "queue"
    /\ \A i \in DOMAIN ledger : ~Duplicates(ledger[i], row)
    /\ ledger' = Append(ledger, row)

Book(row) ==
    /\ row.by = "http"
    /\ ledger' = Append(ledger, row)

Next == \E row \in Rows : Pay(row) \/ Book(row)

Spec == Init /\ [][Next]_ledger

(* The queue never pays a member twice what it should pay once: no two     *)
(* queue rows of one policy are for the same event, and none made under a  *)
(* one-time policy follows another of the same member.                     *)
NoDoublePay ==
    \A i, j \in DOMAIN ledger :
        i < j /\ ledger[j].by = "queue" => ~Duplicates(ledger[i], ledger[j])

===============================================================================

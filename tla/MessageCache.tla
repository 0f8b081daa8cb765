---------------------------- MODULE MessageCache ----------------------------
(***************************************************************************)
(* What cache::MessageCache promises its user, ReliablePublisher: a queue  *)
(* in which an append() or a remove_first() happens completely or, when it *)
(* fails, not at all, and that survives crashes.                           *)
(***************************************************************************)
EXTENDS Naturals, Sequences

CONSTANT Messages

VARIABLE stored

Init == stored = <<>>

append(m) == stored' = Append(stored, m)

remove_first(count) == stored' = SubSeq(stored, count + 1, Len(stored))

Next == \/ \E m \in Messages : append(m)
        \/ \E count \in 1..Len(stored) : remove_first(count)

Spec == Init /\ [][Next]_stored
=============================================================================

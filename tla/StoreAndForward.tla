--------------------------- MODULE StoreAndForward ---------------------------
(***************************************************************************)
(* What the reliable publisher promises, without threads, network or       *)
(* faults: a caller submits a message and is told Published only when the  *)
(* receiver has it, Deferred only when it is stored; stored messages leave *)
(* the store in order and only after the receiver has them.  A message may *)
(* reach the receiver whatever the caller is told, and more than once.     *)
(***************************************************************************)
EXTENDS Naturals, Sequences

CONSTANT Messages

VARIABLES result,     \* answer to the caller, per message
          stored,     \* messages kept for later, oldest first
          delivered   \* messages the receiver has

sfVars == <<result, stored, delivered>>

IsStored(m) == \E i \in DOMAIN stored : stored[i] = m

Submit(m) ==
    /\ result[m] = "new"
    /\ result' = [result EXCEPT ![m] = "calling"]
    /\ UNCHANGED <<stored, delivered>>

Deliver(m) ==
    /\ result[m] # "new"
    /\ delivered' = delivered \cup {m}
    /\ UNCHANGED <<result, stored>>

(* Each message is stored at most once, while its caller waits.            *)
Store(m) ==
    /\ result[m] = "calling" /\ ~IsStored(m)
    /\ stored' = Append(stored, m)
    /\ UNCHANGED <<result, delivered>>

Answer(m) ==
    /\ result[m] = "calling"
    /\ \/ m \in delivered /\ result' = [result EXCEPT ![m] = "Published"]
       \/ IsStored(m) /\ result' = [result EXCEPT ![m] = "Deferred"]
       \/ ~IsStored(m) /\ result' = [result EXCEPT ![m] = "Failed"]
    /\ UNCHANGED <<stored, delivered>>

(* The n oldest messages leave the store.                                  *)
Forward(n) ==
    /\ \A i \in 1..n : stored[i] \in delivered
    /\ stored' = SubSeq(stored, n + 1, Len(stored))
    /\ UNCHANGED <<result, delivered>>

(* Callers that had no answer when the process died never get one.         *)
Die ==
    /\ result' = [m \in Messages |-> IF result[m] = "calling" THEN "crashed"
                                                              ELSE result[m]]
    /\ UNCHANGED <<stored, delivered>>

Init == /\ result = [m \in Messages |-> "new"]
        /\ stored = <<>>
        /\ delivered = {}

Next == \/ \E m \in Messages : Submit(m) \/ Deliver(m) \/ Store(m) \/ Answer(m)
        \/ \E n \in 1..Len(stored) : Forward(n)
        \/ Die

Spec == Init /\ [][Next]_sfVars
=============================================================================

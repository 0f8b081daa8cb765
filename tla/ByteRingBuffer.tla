--------------------------- MODULE ByteRingBuffer ---------------------------
(***************************************************************************)
(* protocol::ByteRingBuffer<Capacity>: a byte queue in a fixed array.  A   *)
(* buffer is the record of its members; operations return the new buffer.  *)
(***************************************************************************)
EXTENDS Naturals, Sequences

CONSTANTS Byte,      \* the byte values
          Capacity   \* the template parameter

ASSUME RingAssumption == /\ Capacity \in Nat \ {0}
                         /\ Byte \subseteq Nat
                         /\ 0 \in Byte

Buffers == [storage : [0..(Capacity - 1) -> Byte],
            head    : 0..(Capacity - 1),
            size    : 0..Capacity]

NewBuffer == [storage |-> [i \in 0..(Capacity - 1) |-> 0], head |-> 0, size |-> 0]

Full(b) == b.size = Capacity

(* Positions in storage_ wrap around.                                      *)
Index(n) == n % Capacity

(* A faulty Push: the position is counted from the start of storage_.      *)
PushIgnoresHead(b, byte) ==
    [b EXCEPT !.storage = [@ EXCEPT ![Index(b.size)] = byte],
              !.size = b.size + 1]

(* push() on a buffer that is not full; on a full one it returns false and *)
(* changes nothing.                                                        *)
Push(b, byte) ==
    [b EXCEPT !.storage = [@ EXCEPT ![Index(b.head + b.size)] = byte],
              !.size = b.size + 1]

Consume(b, count) ==
    LET consumed == IF count < b.size THEN count ELSE b.size
    IN  [b EXCEPT !.head = Index(b.head + consumed),
                  !.size = b.size - consumed]

(* Defined for index < b.size; the code throws otherwise.                  *)
At(b, index) == b.storage[Index(b.head + index)]

(* copy(0, length)                                                         *)
CopyFront(b, length) == [i \in 1..length |-> At(b, i - 1)]

Clear(b) == [b EXCEPT !.head = 0, !.size = 0]
=============================================================================

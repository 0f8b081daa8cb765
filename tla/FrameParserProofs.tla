-------------------------- MODULE FrameParserProofs --------------------------
(***************************************************************************)
(* The frame parser, proved for every capacity that holds a longest frame, *)
(* every header, payload limit and checksum.                               *)
(***************************************************************************)
EXTENDS FrameParser, Integers, TLAPS, FiniteSetTheorems

(* Most leaves need SMT; each is tried again with more time where the      *)
(* first attempts find no proof.                                           *)
USE SMTT(15), SMTT(30), ZenonT(20), SMTT(60)

-----------------------------------------------------------------------------
(* The ring buffer.                                                        *)

(* Indices wrap at most once.                                              *)
LEMMA Wrap ==
    ASSUME NEW a \in Nat, a < 2 * Capacity
    PROVE  /\ a < Capacity => Index(a) = a
           /\ a >= Capacity => Index(a) = a - Capacity
           /\ Index(a) \in 0..(Capacity - 1)
  BY RingAssumption, Z3 DEF Index

(* push() appends a byte and leaves the others where they are.             *)
LEMMA PushAppends ==
    ASSUME NEW b \in Buffers, NEW byte \in Byte, b.size < Capacity
    PROVE  /\ Push(b, byte) \in Buffers
           /\ Push(b, byte).size = b.size + 1
           /\ At(Push(b, byte), b.size) = byte
           /\ \A i \in 0..(b.size - 1) : At(Push(b, byte), i) = At(b, i)
  <1> DEFINE tail == Index(b.head + b.size)
  <1>0. /\ b.head \in 0..(Capacity - 1) /\ b.size \in 0..Capacity
        /\ b.storage \in [0..(Capacity - 1) -> Byte]
        /\ Capacity \in Nat
    BY RingAssumption DEF Buffers
  <1>1. tail \in 0..(Capacity - 1)
    BY <1>0, Wrap
  <1>2. /\ Push(b, byte).head = b.head
        /\ Push(b, byte).size = b.size + 1
        /\ Push(b, byte).storage = [b.storage EXCEPT ![tail] = byte]
        /\ Push(b, byte) \in Buffers
    <2>1. Push(b, byte) = [b EXCEPT !.storage = [b.storage EXCEPT ![tail] = byte],
                                    !.size = b.size + 1]
      BY DEF Push, Buffers
    <2> DEFINE stored == [b.storage EXCEPT ![tail] = byte]
    <2>2. stored \in [0..(Capacity - 1) -> Byte]
      BY <1>0, <1>1
    <2>3. b.size + 1 \in 0..Capacity
      BY <1>0
    <2> HIDE DEF tail, stored
    <2> QED  BY <2>1, <2>2, <2>3, ZenonT(60) DEF Buffers, stored
  <1>3. At(Push(b, byte), b.size) = byte
    BY <1>0, <1>1, <1>2 DEF At
  <1>4. ASSUME NEW i \in 0..(b.size - 1)
        PROVE  At(Push(b, byte), i) = At(b, i)
    <2>1. /\ Index(b.head + i) \in 0..(Capacity - 1)
          /\ Index(b.head + i) # tail
      <3>1. /\ b.head + i < Capacity => Index(b.head + i) = b.head + i
            /\ b.head + i >= Capacity => Index(b.head + i) = b.head + i - Capacity
            /\ Index(b.head + i) \in 0..(Capacity - 1)
        BY <1>0, Wrap
      <3>2. /\ b.head + b.size < Capacity => tail = b.head + b.size
            /\ b.head + b.size >= Capacity => tail = b.head + b.size - Capacity
        BY <1>0, Wrap
      <3> HIDE DEF tail
      <3>3. /\ b.head \in Nat /\ b.size \in Nat /\ i \in Nat
            /\ i < b.size /\ b.size < Capacity /\ b.head < Capacity
        BY <1>0
      <3>4. CASE b.head + b.size < Capacity
        BY <1>0, <3>1, <3>2, <3>3, <3>4
      <3>5. CASE b.head + b.size >= Capacity /\ b.head + i < Capacity
        BY <1>0, <3>1, <3>2, <3>3, <3>5
      <3>6. CASE b.head + b.size >= Capacity /\ b.head + i >= Capacity
        BY <1>0, <3>1, <3>2, <3>3, <3>6
      <3> QED  BY <1>0, <3>3, <3>4, <3>5, <3>6
    <2> QED  BY <1>0, <1>2, <2>1 DEF At
  <1> QED  BY <1>2, <1>3, <1>4

(* consume() removes bytes at the front.                                   *)
LEMMA ConsumeDrops ==
    ASSUME NEW b \in Buffers, NEW count \in Nat, count <= b.size
    PROVE  /\ Consume(b, count) \in Buffers
           /\ Consume(b, count).size = b.size - count
           /\ \A i \in 0..(b.size - count - 1) : At(Consume(b, count), i) = At(b, i + count)
  <1>0. /\ b.head \in 0..(Capacity - 1) /\ b.size \in 0..Capacity
        /\ b.storage \in [0..(Capacity - 1) -> Byte]
        /\ Capacity \in Nat
    BY RingAssumption DEF Buffers
  <1> DEFINE head == Index(b.head + count)
  <1>1. /\ b.head + count < Capacity => head = b.head + count
        /\ b.head + count >= Capacity => head = b.head + count - Capacity
        /\ head \in 0..(Capacity - 1)
    BY <1>0, Wrap
  <1>2. /\ Consume(b, count).head = head
        /\ Consume(b, count).size = b.size - count
        /\ Consume(b, count).storage = b.storage
        /\ Consume(b, count) \in Buffers
    <2>1. Consume(b, count) = [b EXCEPT !.head = head, !.size = b.size - count]
      <3>1. (IF count < b.size THEN count ELSE b.size) = count
        BY <1>0
      <3> QED  BY <3>1, ZenonT(60) DEF Consume
    <2>2. b.size - count \in 0..Capacity
      BY <1>0
    <2> HIDE DEF head
    <2> QED  BY <1>0, <1>1, <2>1, <2>2, ZenonT(60) DEF Buffers
  <1> HIDE DEF head
  <1>3. ASSUME NEW i \in 0..(b.size - count - 1)
        PROVE  Index(head + i) = Index(b.head + (i + count))
    <2>1. /\ head + i < Capacity => Index(head + i) = head + i
          /\ head + i >= Capacity => Index(head + i) = head + i - Capacity
      BY <1>0, <1>1, Wrap
    <2> DEFINE n == b.head + (i + count)
    <2>2. n \in Nat /\ n < 2 * Capacity
      BY <1>0
    <2>3. /\ n < Capacity => Index(n) = n
          /\ n >= Capacity => Index(n) = n - Capacity
      <3> HIDE DEF n
      <3> QED  BY <2>2, Wrap
    <2>4. n = (b.head + count) + i
      BY <1>0
    <2> HIDE DEF n
    <2>5. Index(head + i) = Index(n)
      <3>1. CASE b.head + count < Capacity
        BY <3>1, <1>0, <1>1, <2>4
      <3>2. CASE b.head + count >= Capacity
        <4>1. head + i = n - Capacity
          <5>1. head = b.head + count - Capacity
            BY <3>2, <1>1
          <5>2. i \in Nat
            BY <1>0
          <5> QED  BY <5>1, <5>2, <1>0, <2>4
        <4>2. head + i < Capacity /\ n >= Capacity
          BY <4>1, <3>2, <1>0, <2>2, <2>4
        <4> QED  BY <4>1, <4>2, <2>1, <2>3
      <3> QED  BY <3>1, <3>2, <1>0
    <2> QED  BY <2>5 DEF n
  <1> QED  BY <1>2, <1>3 DEF At

-----------------------------------------------------------------------------
(* The stream.                                                             *)

(* The front of the buffer is the stream from base on.                     *)
LEMMA FrontIsInput ==
    ASSUME TypeOK, BufferIsSuffix, NEW n \in 0..buffer.size
    PROVE  /\ CopyFront(buffer, n) \in Seq(Byte)
           /\ Len(CopyFront(buffer, n)) = n
           /\ CopyFront(buffer, n) = SubSeq(input, base + 1, base + n)
  <1>0. /\ buffer.size \in Nat /\ base \in Nat /\ input \in Seq(Byte)
        /\ base + buffer.size = Len(input)
    BY RingAssumption DEF TypeOK, Buffers, BufferIsSuffix
  <1>1. \A i \in 1..n : At(buffer, i - 1) = input[base + i] /\ input[base + i] \in Byte
    <2> TAKE i \in 1..n
    <2>1. i - 1 \in 0..(buffer.size - 1) /\ base + (i - 1) + 1 = base + i
      BY <1>0
    <2>2. base + i \in 1..Len(input)
      BY <1>0
    <2> QED  BY <1>0, <2>1, <2>2 DEF BufferIsSuffix
  <1>2. CopyFront(buffer, n) = [i \in 1..n |-> input[base + i]]
    BY <1>1 DEF CopyFront
  <1>3. SubSeq(input, base + 1, base + n) = [i \in 1..n |-> input[base + i]]
    BY <1>0
  <1>4. [i \in 1..n |-> input[base + i]] \in Seq(Byte)
    BY <1>0, <1>1
  <1> QED  BY <1>0, <1>2, <1>3, <1>4

(* More input changes nothing about positions that are already decided.    *)
LEMMA InputGrows ==
    ASSUME input \in Seq(Byte), NEW byte \in Byte, input' = Append(input, byte),
           NEW p \in Nat
    PROVE  /\ FrameAt(p) => /\ FrameAt(p)' /\ EndAt(p)' = EndAt(p)
                            /\ SubSeq(input, p + 1, EndAt(p))' = SubSeq(input, p + 1, EndAt(p))
           /\ RejectedAt(p) => RejectedAt(p)'
  <1>1. /\ Len(input') = Len(input) + 1 /\ Len(input) \in Nat
        /\ input' \in Seq(Byte)
        /\ \A m \in 1..Len(input) : input'[m] = input[m] /\ input[m] \in Nat
    <2>1. \A m \in 1..Len(input) : input[m] \in Byte
      OBVIOUS
    <2>2. \A m \in 1..Len(input) : input[m] \in Nat
      BY <2>1, RingAssumption, ZenonT(60)
    <2>3. \A m \in 1..Len(input) : input'[m] = input[m]
      OBVIOUS
    <2> QED  BY <2>2, <2>3
  <1>2. p + 3 <= Len(input) =>
           EndAt(p)' = EndAt(p) /\ EndAt(p) \in Nat /\ EndAt(p) >= p
    <2> HAVE p + 3 <= Len(input)
    <2>1. input'[p + 3] = input[p + 3] /\ input[p + 3] \in Nat
      BY <1>1
    <2> QED  BY <2>1, ParserAssumption DEF EndAt
  <1>3. ASSUME NEW e \in Nat, e <= Len(input), p <= e
        PROVE  SubSeq(input', p + 1, e) = SubSeq(input, p + 1, e)
    BY <1>1, <1>3
  <1>4. p + 3 <= Len(input) /\ EndAt(p) <= Len(input) =>
           SubSeq(input, p + 1, EndAt(p))' = SubSeq(input, p + 1, EndAt(p))
    BY <1>2, <1>3
  <1>5. FrameAt(p) => FrameAt(p)'
    <2> HAVE FrameAt(p)
    <2>1. HeaderAt(p) /\ HeaderAt(p)'
      BY <1>1 DEF FrameAt, HeaderAt
    <2>2. IsFrame(SubSeq(input, p + 1, EndAt(p)))'
      BY <1>4, <2>1, ZenonT(60) DEF FrameAt, HeaderAt, IsFrame
    <2> QED  BY <1>1, <1>2, <2>1, <2>2 DEF FrameAt, HeaderAt
  <1>6. RejectedAt(p) => RejectedAt(p)'
    <2>1. p + 1 <= Len(input) => input'[p + 1] = input[p + 1]
      BY <1>1
    <2>2. p + 2 <= Len(input) => input'[p + 2] = input[p + 2]
      BY <1>1
    <2>3. p + 3 <= Len(input) => input'[p + 3] = input[p + 3]
      BY <1>1
    <2>4. p + 3 <= Len(input) /\ EndAt(p) <= Len(input)
            /\ ~IsFrame(SubSeq(input, p + 1, EndAt(p)))
          => ~IsFrame(SubSeq(input, p + 1, EndAt(p)))'
      BY <1>4, ZenonT(60) DEF IsFrame
    <2>5. /\ p + 1 <= Len(input) => p + 1 <= Len(input')
          /\ p + 2 <= Len(input) => p + 2 <= Len(input')
          /\ p + 3 <= Len(input) => p + 3 <= Len(input')
          /\ p + 3 <= Len(input) /\ EndAt(p) <= Len(input) => EndAt(p)' <= Len(input')
      BY <1>1, <1>2
    <2> QED  BY <2>1, <2>2, <2>3, <2>4, <2>5, ZenonT(60) DEF RejectedAt
  <1> QED  BY <1>2, <1>4, <1>5 , <1>6 DEF FrameAt, HeaderAt

-----------------------------------------------------------------------------
(* The invariant.                                                          *)

(* The numbers the arithmetic below is about.                              *)
LEMMA Numbers ==
    ASSUME TypeOK
    PROVE  /\ buffer.size \in Nat /\ buffer.size <= Capacity
           /\ base \in Nat /\ Len(input) \in Nat
           /\ MaxFrame \in Nat /\ MaxFrame <= Capacity /\ MaxFrame >= 3
           /\ Capacity \in Nat
  BY RingAssumption, ParserAssumption DEF TypeOK, Buffers, MaxFrame

(* The bytes drain_buffer() looks at, by their offsets in the stream.      *)
LEMMA FrontBytes ==
    ASSUME TypeOK, BufferIsSuffix
    PROVE  /\ buffer.size >= 1 => /\ At(buffer, 0) = input[base + 1]
                                  /\ base + 1 <= Len(input)
           /\ buffer.size >= 2 => /\ At(buffer, 1) = input[base + 2]
                                  /\ base + 2 <= Len(input)
           /\ buffer.size >= 3 => /\ At(buffer, 2) = input[base + 3]
                                  /\ base + 3 <= Len(input)
                                  /\ At(buffer, 2) \in Nat
                                  /\ EndAt(base) = base + frame_size
  <1>0. buffer.size \in Nat /\ base \in Nat /\ base + buffer.size = Len(input)
    BY Numbers DEF BufferIsSuffix
  <1>1. \A i \in 0..(buffer.size - 1) : At(buffer, i) = input[base + i + 1]
    BY DEF BufferIsSuffix
  <1>2. buffer.size >= 1 => At(buffer, 0) = input[base + 1]
    <2> HAVE buffer.size >= 1
    <2>1. At(buffer, 0) = input[base + 0 + 1]
      BY <1>0, <1>1
    <2> QED  BY <2>1, <1>0
  <1>3. buffer.size >= 2 => At(buffer, 1) = input[base + 2]
    <2> HAVE buffer.size >= 2
    <2>1. At(buffer, 1) = input[base + 1 + 1]
      BY <1>0, <1>1
    <2>2. base + 1 + 1 = base + 2
      BY <1>0
    <2> QED  BY <2>1, <2>2
  <1>4. buffer.size >= 3 => At(buffer, 2) = input[base + 3]
    <2> HAVE buffer.size >= 3
    <2>1. At(buffer, 2) = input[base + 2 + 1]
      BY <1>0, <1>1
    <2>2. base + 2 + 1 = base + 3
      BY <1>0
    <2> QED  BY <2>1, <2>2
  <1>5. buffer.size >= 3 => input[base + 3] \in Nat
    <2> HAVE buffer.size >= 3
    <2>1. base + 3 \in 1..Len(input) /\ input \in Seq(Byte)
      BY <1>0 DEF TypeOK
    <2>2. input[base + 3] \in Byte
      BY <2>1
    <2> QED  BY <2>2, RingAssumption, ZenonT(60)
  <1>6. buffer.size >= 3 => EndAt(base) = base + frame_size
    BY <1>0, <1>4, <1>5, ParserAssumption DEF EndAt, frame_size
  <1> QED  BY <1>0, <1>2, <1>3, <1>4, <1>5, <1>6

(* Where a candidate ends.                                                 *)
LEMMA EndIsNumber ==
    ASSUME TypeOK, NEW p \in Nat, p + 3 <= Len(input)
    PROVE  EndAt(p) \in Nat /\ EndAt(p) >= p + 3
  <1>1. p + 3 \in 1..Len(input) /\ input \in Seq(Byte)
    BY DEF TypeOK
  <1>2. input[p + 3] \in Byte
    BY <1>1
  <1>3. input[p + 3] \in Nat
    BY <1>2, RingAssumption, ZenonT(60)
  <1> QED  BY <1>3, ParserAssumption DEF EndAt

(* Dropping the byte at base is right once base is rejected.               *)
LEMMA RejectKeeps ==
    ASSUME IInv, draining, buffer.size >= 1, RejectedAt(base), Drop(1),
           UNCHANGED <<draining, frames, overflow_byte_count, input, mark>>,
           crc_error_count' \in Nat, length_error_count' \in Nat
    PROVE  IInv'
  <1>0. TypeOK /\ BufferIsSuffix /\ NoOverflow /\ FramesAreReal /\ AllDecided
    BY DEF IInv
  <1>1. /\ buffer' = Consume(buffer, 1) /\ base' = base + 1
        /\ buffer' \in Buffers /\ buffer'.size = buffer.size - 1
        /\ \A i \in 0..(buffer.size - 1 - 1) : At(Consume(buffer, 1), i) = At(buffer, i + 1)
    BY <1>0, ConsumeDrops DEF Drop, TypeOK
  <1>N. /\ base \in Nat /\ buffer.size \in Nat /\ Len(input) \in Nat
        /\ base + buffer.size = Len(input) /\ base' = base + 1
        /\ buffer'.size = buffer.size - 1 /\ buffer.size >= 1
    <2>1. base + buffer.size = Len(input)
      BY <1>0 DEF BufferIsSuffix
    <2> QED  BY <1>0, <1>1, <2>1, Numbers
  <1>2. TypeOK'
    BY <1>0, <1>1, Numbers DEF TypeOK
  <1>3. BufferIsSuffix'
    <2>1. base' + buffer'.size = Len(input')
      BY <1>N
    <2>2. ASSUME NEW i \in 0..(buffer'.size - 1)
          PROVE  At(buffer', i) = input'[base' + i + 1]
      <3>1. i + 1 \in 0..(buffer.size - 1) /\ i \in 0..(buffer.size - 1 - 1)
        BY <1>N
      <3>2. At(buffer', i) = At(buffer, i + 1)
        BY <1>1, <3>1
      <3>3. At(buffer, i + 1) = input[base + (i + 1) + 1]
        BY <1>0, <3>1 DEF BufferIsSuffix
      <3>4. base + (i + 1) + 1 = base' + i + 1
        BY <1>N
      <3> QED  BY <3>2, <3>3, <3>4
    <2> QED  BY <2>1, <2>2 DEF BufferIsSuffix, At
  <1>4. NoOverflow'
    BY <1>0, <1>1, Numbers DEF NoOverflow, MaxFrame
  <1>5. FramesAreReal'
    <2> SUFFICES ASSUME NEW i \in DOMAIN frames
                 PROVE  EndAt(frames[i].start) <= base'
      BY <1>0, ZenonT(60) DEF FramesAreReal, FrameAt, HeaderAt, EndAt, IsFrame
    <2>1. FrameAt(frames[i].start) /\ EndAt(frames[i].start) <= base
      BY <1>0 DEF FramesAreReal
    <2>2. EndAt(frames[i].start) \in Int
      <3>1. frames[i] \in Frames
        BY <1>0 DEF TypeOK
      <3> QED  BY <1>0, <2>1, <3>1, EndIsNumber DEF FrameAt, HeaderAt, Frames
    <2> QED  BY <1>0, <1>1, <2>1, <2>2, Numbers
  <1>6. AllDecided'
    <2> SUFFICES ASSUME NEW p \in 0..(base' - 1)
                 PROVE  (Covered(p) \/ RejectedAt(p))'
      BY DEF AllDecided
    <2>1. Covered(p) \/ RejectedAt(p)
      <3>1. p \in 0..(base - 1) \/ p = base
        BY <1>0, <1>1, Numbers
      <3> QED  BY <1>0, <3>1 DEF AllDecided
    <2> QED  BY <2>1, ZenonT(60) DEF Covered, RejectedAt, EndAt, IsFrame
  <1> QED  BY <1>2, <1>3, <1>4, <1>5, <1>6 DEF IInv

(* A byte skipped in search of a header.                                   *)
LEMMA SkipByteKeeps == ASSUME IInv, SkipByte PROVE IInv'
  <1>1. TypeOK /\ BufferIsSuffix
    BY DEF IInv
  <1>2. buffer.size >= 1 /\ RejectedAt(base)
    BY <1>1, FrontBytes, Numbers
    DEF SkipByte, Header1Missing, Header2Missing, RejectedAt
  <1>3. crc_error_count' \in Nat /\ length_error_count' \in Nat
    BY <1>1 DEF SkipByte, TypeOK
  <1> QED  BY <1>2, <1>3, RejectKeeps DEF SkipByte

(* A length that is rejected.                                              *)
LEMMA LengthErrorKeeps == ASSUME IInv, LengthError PROVE IInv'
  <1>1. TypeOK /\ BufferIsSuffix
    BY DEF IInv
  <1>2. buffer.size >= 1 /\ RejectedAt(base)
    BY <1>1, FrontBytes, Numbers DEF LengthError, HeaderSeen, RejectedAt
  <1>3. crc_error_count' \in Nat /\ length_error_count' \in Nat
    BY <1>1 DEF LengthError, TypeOK
  <1> QED  BY <1>2, <1>3, RejectKeeps DEF LengthError

(* The candidate at the front of the buffer is the one at base.            *)
LEMMA CandidateAtBase ==
    ASSUME IInv, FrameBuffered
    PROVE  /\ frame_size \in 3..buffer.size
           /\ HeaderAt(base) /\ EndAt(base) = base + frame_size
           /\ EndAt(base) <= Len(input)
           /\ CopyFront(buffer, frame_size) \in Seq(Byte)
           /\ Len(CopyFront(buffer, frame_size)) = frame_size
           /\ CopyFront(buffer, frame_size) = SubSeq(input, base + 1, EndAt(base))
  <1>1. TypeOK /\ BufferIsSuffix
    BY DEF IInv
  <1>2. buffer.size >= 3 /\ buffer.size >= frame_size
    BY DEF FrameBuffered, HeaderSeen
  <1>3. frame_size \in 3..buffer.size
    BY <1>1, <1>2, FrontBytes, Numbers, ParserAssumption DEF frame_size
  <1>4. HeaderAt(base)
    BY <1>1, <1>2, FrontBytes, Numbers DEF HeaderAt, FrameBuffered, HeaderSeen
  <1>5. EndAt(base) = base + frame_size
    BY <1>1, <1>2, FrontBytes
  <1>6. EndAt(base) <= Len(input)
    BY <1>1, <1>3, <1>5, Numbers DEF BufferIsSuffix
  <1>7. frame_size \in 0..buffer.size
    BY <1>1, <1>3, Numbers
  <1> QED  BY <1>1, <1>3, <1>4, <1>5, <1>6, <1>7, FrontIsInput

(* A checksum that does not match.                                         *)
LEMMA CrcErrorKeeps == ASSUME IInv, CrcError PROVE IInv'
  <1>1. TypeOK /\ BufferIsSuffix /\ FrameBuffered
    BY DEF IInv, CrcError
  <1>2. ~IsFrame(SubSeq(input, base + 1, EndAt(base)))
    BY CandidateAtBase, <1>1, ZenonT(60) DEF CrcError
  <1>3. buffer.size >= 1 /\ RejectedAt(base)
    BY <1>1, <1>2, CandidateAtBase, Numbers DEF RejectedAt, HeaderAt
  <1>4. crc_error_count' \in Nat /\ length_error_count' \in Nat
    BY <1>1 DEF CrcError, TypeOK
  <1> QED  BY <1>3, <1>4, RejectKeeps DEF CrcError

(* drain_buffer() returns.                                                 *)
LEMMA DrainReturnsKeeps == ASSUME IInv, DrainReturns PROVE IInv'
  <1>1. buffer.size < MaxFrame
    <2>1. CASE buffer.size <= 2
      BY <2>1, Numbers DEF IInv
    <2>2. CASE /\ HeaderSeen /\ At(buffer, 2) <= kMaxPayloadLength
               /\ buffer.size < frame_size
      BY <2>2, FrontBytes, Numbers, ParserAssumption
      DEF IInv, HeaderSeen, frame_size, MaxFrame
    <2> QED  BY <2>1, <2>2, Numbers DEF DrainReturns, IInv
  <1>2. TypeOK'
    BY ZenonT(60) DEF IInv, DrainReturns, TypeOK
  <1>3. BufferIsSuffix'
    BY DEF IInv, DrainReturns, BufferIsSuffix, At
  <1>4. NoOverflow'
    BY <1>1 DEF IInv, DrainReturns, NoOverflow, MaxFrame
  <1>5. FramesAreReal'
    BY ZenonT(60) DEF IInv, DrainReturns, FramesAreReal, FrameAt, HeaderAt, EndAt, IsFrame
  <1>6. AllDecided'
    BY ZenonT(60) DEF IInv, DrainReturns, AllDecided, Covered, RejectedAt, EndAt, IsFrame
  <1> QED  BY <1>2, <1>3, <1>4, <1>5, <1>6 DEF IInv

(* take_crc_error_count() and its siblings.                                *)
LEMMA TakeCountsKeeps == ASSUME IInv, TakeCounts PROVE IInv'
  <1>1. TypeOK'
    BY DEF IInv, TakeCounts, TypeOK
  <1>2. BufferIsSuffix'
    BY DEF IInv, TakeCounts, BufferIsSuffix, At
  <1>3. NoOverflow'
    BY DEF IInv, TakeCounts, NoOverflow, MaxFrame
  <1>4. FramesAreReal'
    BY ZenonT(60) DEF IInv, TakeCounts, FramesAreReal, FrameAt, HeaderAt, EndAt, IsFrame
  <1>5. AllDecided'
    BY ZenonT(60) DEF IInv, TakeCounts, AllDecided, Covered, RejectedAt, EndAt, IsFrame
  <1> QED  BY <1>1, <1>2, <1>3, <1>4, <1>5 DEF IInv

(* A complete frame.                                                       *)
LEMMA EmitFrameKeeps == ASSUME IInv, EmitFrame PROVE IInv'
  <1> DEFINE n == frame_size
             f == [start |-> base, raw |-> CopyFront(buffer, frame_size)]
  <1>0. /\ TypeOK /\ BufferIsSuffix /\ NoOverflow /\ FramesAreReal /\ AllDecided
        /\ draining /\ FrameBuffered
    BY DEF IInv, EmitFrame
  <1>1. /\ n \in Nat /\ n >= 1 /\ n <= buffer.size
        /\ HeaderAt(base) /\ EndAt(base) = base + n
        /\ EndAt(base) <= Len(input)
        /\ f.raw \in Seq(Byte) /\ Len(f.raw) = n
        /\ f.raw = SubSeq(input, base + 1, EndAt(base))
        /\ f.start = base
    BY <1>0, CandidateAtBase, Numbers
  <1>2. FrameAt(base)
    BY <1>1, ZenonT(60) DEF FrameAt, EmitFrame
  <1>3. /\ frames' = Append(frames, f)
        /\ buffer' = Consume(buffer, n) /\ base' = base + n
        /\ input' = input /\ draining' = draining /\ mark' = mark
        /\ overflow_byte_count' = overflow_byte_count
        /\ crc_error_count' = crc_error_count /\ length_error_count' = length_error_count
    BY DEF EmitFrame, Drop
  <1>4. f \in Frames /\ frames \in Seq(Frames) /\ buffer \in Buffers
    BY <1>0, <1>1, Numbers DEF Frames, TypeOK
  <1> HIDE DEF n, f
  <1>5. /\ Consume(buffer, n) \in Buffers /\ Consume(buffer, n).size = buffer.size - n
        /\ \A i \in 0..(buffer.size - n - 1) : At(Consume(buffer, n), i) = At(buffer, i + n)
    BY <1>1, <1>4, ConsumeDrops
  <1>6. /\ frames' \in Seq(Frames) /\ DOMAIN frames' = 1..(Len(frames) + 1)
        /\ Len(frames) \in Nat /\ DOMAIN frames = 1..Len(frames)
        /\ frames'[Len(frames) + 1] = f
        /\ \A i \in DOMAIN frames : frames'[i] = frames[i]
    BY <1>3, <1>4
  <1>N. /\ n \in Nat /\ base \in Nat /\ buffer.size \in Nat /\ n <= buffer.size
        /\ buffer'.size = buffer.size - n /\ base' = base + n
        /\ base + buffer.size = Len(input) /\ n >= 1
    <2>1. buffer'.size = buffer.size - n
      BY <1>3, <1>5
    <2>2. base + buffer.size = Len(input)
      BY <1>0 DEF BufferIsSuffix
    <2> QED  BY <1>0, <1>1, <1>3, <2>1, <2>2, Numbers, ZenonT(60)
  <1>7. TypeOK'
    BY <1>0, <1>1, <1>3, <1>5, <1>6, Numbers DEF TypeOK
  <1>8. BufferIsSuffix'
    <2>1. base' + buffer'.size = Len(input')
      BY <1>N, <1>3
    <2>2. ASSUME NEW i \in 0..(buffer'.size - 1)
          PROVE  At(buffer', i) = input'[base' + i + 1]
      <3>1. i + n \in 0..(buffer.size - 1) /\ i \in 0..(buffer.size - n - 1)
        BY <1>N
      <3>2. At(buffer', i) = At(buffer, i + n)
        BY <1>3, <1>5, <3>1
      <3>3. At(buffer, i + n) = input[base + (i + n) + 1]
        BY <1>0, <3>1 DEF BufferIsSuffix
      <3>4. base + (i + n) + 1 = base' + i + 1
        BY <1>0, <1>1, <1>3, <3>1, Numbers
      <3> QED  BY <1>3, <3>2, <3>3, <3>4
    <2> QED  BY <2>1, <2>2 DEF BufferIsSuffix, At
  <1>9. NoOverflow'
    <2>1. buffer.size <= MaxFrame /\ MaxFrame \in Nat /\ overflow_byte_count = 0 /\ draining
      BY <1>0, Numbers DEF NoOverflow
    <2>2. buffer'.size <= MaxFrame
      BY <1>N, <2>1
    <2> QED  BY <1>3, <2>1, <2>2 DEF NoOverflow, MaxFrame
  <1>10. FramesAreReal'
    <2>1. ASSUME NEW i \in DOMAIN frames
          PROVE  /\ frames[i].start \in Nat /\ FrameAt(frames[i].start)
                 /\ EndAt(frames[i].start) \in Nat /\ EndAt(frames[i].start) <= base
                 /\ frames[i].raw = SubSeq(input, frames[i].start + 1, EndAt(frames[i].start))
      <3>1. frames[i] \in Frames
        BY <1>4
      <3>2. FrameAt(frames[i].start) /\ EndAt(frames[i].start) <= base
        BY <1>0 DEF FramesAreReal
      <3>3. frames[i].start \in Nat /\ frames[i].start + 3 <= Len(input)
        BY <3>1, <3>2 DEF Frames, FrameAt, HeaderAt
      <3> QED  BY <1>0, <3>2, <3>3, EndIsNumber DEF FramesAreReal
    <2>2. ASSUME NEW i \in DOMAIN frames'
          PROVE  /\ FrameAt(frames'[i].start)
                 /\ frames'[i].raw = SubSeq(input, frames'[i].start + 1, EndAt(frames'[i].start))
                 /\ EndAt(frames'[i].start) <= base'
      <3>1. CASE i \in DOMAIN frames
        <4>1. frames'[i] = frames[i]
          BY <3>1, <1>6
        <4>2. EndAt(frames[i].start) <= base'
          <5>1. EndAt(frames[i].start) \in Nat /\ EndAt(frames[i].start) <= base
            BY <2>1, <3>1
          <5> QED  BY <1>N, <5>1
        <4> QED  BY <3>1, <4>1, <4>2, <2>1
      <3>2. CASE i = Len(frames) + 1
        <4>1. base + n <= base'
          BY <1>N
        <4> QED  BY <3>2, <4>1, <1>1, <1>2, <1>6
      <3> QED  BY <3>1, <3>2, <1>6
    <2>3. ASSUME NEW i \in DOMAIN frames', NEW j \in DOMAIN frames', i < j
          PROVE  EndAt(frames'[i].start) <= frames'[j].start
      <3>1. i \in DOMAIN frames /\ frames'[i] = frames[i]
        BY <1>6, <2>3
      <3>2. CASE j \in DOMAIN frames
        BY <3>1, <3>2, <1>0, <1>6, <2>3 DEF FramesAreReal
      <3>3. CASE j = Len(frames) + 1
        BY <3>1, <3>3, <1>1, <1>6, <2>1
      <3> QED  BY <3>2, <3>3, <1>6
    <2>4. input' = input
      BY <1>3
    <2> QED  BY <2>2, <2>3, <2>4, ZenonT(60) DEF FramesAreReal, FrameAt, HeaderAt, EndAt, IsFrame
  <1>11. AllDecided'
    <2> SUFFICES ASSUME NEW p \in 0..(base' - 1)
                 PROVE  Covered(p)' \/ RejectedAt(p)'
      BY DEF AllDecided
    <2>1. CASE p \in 0..(base - 1)
      <3>1. CASE RejectedAt(p)
        BY <3>1, <1>3, ZenonT(60) DEF RejectedAt, EndAt, IsFrame
      <3>2. CASE Covered(p)
        <4>1. PICK i \in DOMAIN frames :
                 frames[i].start <= p /\ p < frames[i].start + Len(frames[i].raw)
          BY <3>2 DEF Covered, Range
        <4>2. i \in DOMAIN frames' /\ frames'[i] = frames[i]
          BY <1>6
        <4> QED  BY <4>1, <4>2 DEF Covered, Range
      <3> QED  BY <2>1, <3>1, <3>2, <1>0 DEF AllDecided
    <2>2. CASE p \in base..(base + n - 1)
      <3>1. f.start <= p /\ p < f.start + Len(f.raw)
        BY <2>2, <1>1, <1>N
      <3>2. Len(frames) + 1 \in DOMAIN frames'
        BY <1>6
      <3> QED  BY <3>1, <3>2, <1>6 DEF Covered, Range
    <2>3. p \in 0..(base - 1) \/ p \in base..(base + n - 1)
      BY <1>N
    <2> QED  BY <2>1, <2>2, <2>3
  <1> QED  BY <1>7, <1>8, <1>9, <1>10, <1>11 DEF IInv

(* A byte fed to the parser.                                               *)
LEMMA FeedKeeps == ASSUME IInv, NEW byte \in Byte, Feed(byte) PROVE IInv'
  <1>0. /\ TypeOK /\ BufferIsSuffix /\ NoOverflow /\ FramesAreReal /\ AllDecided
        /\ ~draining
    BY DEF IInv, Feed
  <1>1. buffer.size < MaxFrame /\ buffer.size < Capacity /\ ~Full(buffer)
    BY <1>0, Numbers DEF NoOverflow, Full
  <1>2. /\ buffer' = Push(Consume(buffer, 0), byte)
        /\ overflow_byte_count' = overflow_byte_count + 0 /\ base' = base + 0
        /\ draining' = TRUE /\ input' = Append(input, byte)
        /\ UNCHANGED <<frames, crc_error_count, length_error_count, mark>>
    BY <1>1 DEF Feed
  <1>3. buffer \in Buffers /\ input \in Seq(Byte) /\ overflow_byte_count = 0
    BY <1>0 DEF TypeOK, NoOverflow
  <1> DEFINE b == Consume(buffer, 0)
  <1>4. /\ b \in Buffers /\ b.size = buffer.size
        /\ \A i \in 0..(buffer.size - 1) : At(b, i) = At(buffer, i)
    <2>1. /\ b \in Buffers /\ b.size = buffer.size - 0
          /\ \A i \in 0..(buffer.size - 0 - 1) : At(b, i) = At(buffer, i + 0)
      BY <1>0, <1>3, Numbers, ConsumeDrops
    <2>2. buffer.size - 0 = buffer.size
      BY <1>0, Numbers
    <2>3. \A i \in 0..(buffer.size - 1) : i + 0 = i
      OBVIOUS
    <2> HIDE DEF b
    <2> QED  BY <2>1, <2>2, <2>3
  <1>5. /\ buffer' \in Buffers /\ buffer'.size = buffer.size + 1
        /\ At(Push(b, byte), buffer.size) = byte
        /\ \A i \in 0..(buffer.size - 1) : At(Push(b, byte), i) = At(buffer, i)
    <2>1. b.size < Capacity
      BY <1>1, <1>4
    <2> HIDE DEF b
    <2>2. /\ Push(b, byte) \in Buffers /\ Push(b, byte).size = b.size + 1
          /\ At(Push(b, byte), b.size) = byte
          /\ \A i \in 0..(b.size - 1) : At(Push(b, byte), i) = At(b, i)
      BY <1>4, <2>1, PushAppends
    <2>3. buffer' = Push(b, byte)
      BY <1>2 DEF b
    <2> QED  BY <1>4, <2>2, <2>3
  <1>6. buffer' = Push(b, byte)
    BY <1>2
  <1> HIDE DEF b
  <1>N. /\ base \in Nat /\ buffer.size \in Nat /\ base + buffer.size = Len(input)
        /\ Len(input') = Len(input) + 1 /\ base' = base
        /\ input'[Len(input) + 1] = byte
        /\ \A m \in 1..Len(input) : input'[m] = input[m]
        /\ input' \in Seq(Byte)
    BY <1>0, <1>2, <1>3, Numbers DEF BufferIsSuffix
  <1>7. TypeOK'
    BY <1>0, <1>2, <1>3, <1>5, <1>N DEF TypeOK
  <1>8. BufferIsSuffix'
    <2>1. base' + buffer'.size = Len(input')
      <3>1. buffer'.size = buffer.size + 1 /\ base' = base /\ Len(input') = Len(input) + 1
        BY <1>5, <1>N
      <3>2. base \in Nat /\ buffer.size \in Nat /\ base + buffer.size = Len(input)
        BY <1>N
      <3> QED  BY <3>1, <3>2
    <2>2. ASSUME NEW i \in 0..(buffer'.size - 1)
          PROVE  At(buffer', i) = input'[base' + i + 1]
      <3>1. CASE i \in 0..(buffer.size - 1)
        <4>1. At(buffer', i) = At(buffer, i)
          BY <3>1, <1>5, <1>6
        <4>2. At(buffer, i) = input[base + i + 1]
          BY <3>1, <1>0 DEF BufferIsSuffix
        <4>3. base + i + 1 \in 1..Len(input)
          BY <3>1, <1>N
        <4> QED  BY <4>1, <4>2, <4>3, <1>N
      <3>2. CASE i = buffer.size
        <4>1. base' + i + 1 = Len(input) + 1
          BY <3>2, <1>N
        <4> QED  BY <3>2, <4>1, <1>5, <1>6, <1>N
      <3>3. i \in 0..(buffer.size - 1) \/ i = buffer.size
        BY <1>5, <1>N
      <3> QED  BY <3>1, <3>2, <3>3
    <2> QED  BY <2>1, <2>2 DEF BufferIsSuffix, At
  <1>9. NoOverflow'
    <2>1. buffer'.size <= MaxFrame
      BY <1>0, <1>1, <1>5, Numbers
    <2> QED  BY <1>2, <1>3, <2>1 DEF NoOverflow, MaxFrame
  <1>10. FramesAreReal'
    <2> SUFFICES ASSUME NEW i \in DOMAIN frames
                 PROVE  /\ FrameAt(frames[i].start)'
                        /\ frames[i].raw = SubSeq(input, frames[i].start + 1, EndAt(frames[i].start))'
                        /\ EndAt(frames[i].start)' <= base'
                        /\ \A j \in DOMAIN frames :
                              i < j => EndAt(frames[i].start)' <= frames[j].start
      BY <1>2, ZenonT(60) DEF FramesAreReal
    <2>1. /\ FrameAt(frames[i].start)
          /\ frames[i].raw = SubSeq(input, frames[i].start + 1, EndAt(frames[i].start))
          /\ EndAt(frames[i].start) <= base
          /\ \A j \in DOMAIN frames : i < j => EndAt(frames[i].start) <= frames[j].start
      BY <1>0 DEF FramesAreReal
    <2> DEFINE p == frames[i].start
    <2>2. p \in Nat /\ frames'[i] = frames[i]
      <3>1. frames[i] \in Frames
        BY <1>0 DEF TypeOK
      <3> QED  BY <3>1, <1>2 DEF Frames
    <2>3. /\ FrameAt(p)' /\ EndAt(p)' = EndAt(p)
          /\ SubSeq(input, p + 1, EndAt(p))' = SubSeq(input, p + 1, EndAt(p))
      <3>1. ASSUME NEW q \in Nat, FrameAt(q)
            PROVE  /\ FrameAt(q)' /\ EndAt(q)' = EndAt(q)
                   /\ SubSeq(input, q + 1, EndAt(q))' = SubSeq(input, q + 1, EndAt(q))
        BY <3>1, <1>2, <1>3, InputGrows, ZenonT(60)
      <3> QED  BY <3>1, <2>1, <2>2, ZenonT(60) DEF FrameAt, HeaderAt, EndAt, IsFrame
    <2> QED  BY <2>1, <2>2, <2>3, <1>N, ZenonT(60)
  <1>11. AllDecided'
    <2> SUFFICES ASSUME NEW p \in 0..(base' - 1)
                 PROVE  Covered(p)' \/ RejectedAt(p)'
      BY DEF AllDecided
    <2>1. Covered(p) \/ RejectedAt(p)
      BY <1>0, <1>N DEF AllDecided
    <2>2. RejectedAt(p) => RejectedAt(p)'
      BY <1>2, <1>3, <1>N, InputGrows
    <2>3. Covered(p) => Covered(p)'
      BY <1>2 DEF Covered
    <2> QED  BY <2>1, <2>2, <2>3
  <1> QED  BY <1>7, <1>8, <1>9, <1>10, <1>11 DEF IInv

(* reset().                                                                *)
LEMMA resetKeeps == ASSUME IInv, reset PROVE IInv'
  <1>1. /\ buffer' \in Buffers /\ buffer'.size = 0
        /\ base' = 0 /\ input' = <<>> /\ frames' = <<>>
    <2>1. buffer \in Buffers /\ 0 \in 0..(Capacity - 1) /\ 0 \in 0..Capacity
      BY RingAssumption DEF IInv, TypeOK
    <2>2. Clear(buffer) \in Buffers /\ Clear(buffer).size = 0
      BY <2>1, ZenonT(60) DEF Clear, Buffers
    <2> QED  BY <2>2 DEF reset
  <1>2. TypeOK'
    BY <1>1 DEF IInv, TypeOK, reset
  <1>3. BufferIsSuffix' /\ AllDecided'
    BY <1>1 DEF BufferIsSuffix, AllDecided
  <1>4. NoOverflow'
    BY <1>1, Numbers DEF NoOverflow, MaxFrame, IInv, reset
  <1>5. FramesAreReal'
    BY <1>1 DEF FramesAreReal
  <1> QED  BY <1>2, <1>3, <1>4, <1>5 DEF IInv

(* A parser that has seen nothing satisfies the invariant.                 *)
LEMMA InitIInv == Init => IInv
  <1> SUFFICES ASSUME Init PROVE IInv
    OBVIOUS
  <1>1. /\ buffer \in Buffers /\ buffer.size = 0
        /\ base = 0 /\ input = <<>> /\ frames = <<>>
    BY RingAssumption DEF Init, NewBuffer, Buffers
  <1>2. TypeOK
    <2>1. <<>> \in Seq(Byte) /\ <<>> \in Seq(Frames)
      OBVIOUS
    <2>2. /\ draining \in BOOLEAN
          /\ crc_error_count \in Nat /\ length_error_count \in Nat
          /\ overflow_byte_count \in Nat /\ base \in Nat /\ mark \in Nat
      BY ZenonT(60) DEF Init
    <2> QED  BY <1>1, <2>1, <2>2 DEF TypeOK
  <1>3. BufferIsSuffix /\ AllDecided
    BY <1>1 DEF BufferIsSuffix, AllDecided
  <1>4. NoOverflow
    BY <1>1, <1>2, Numbers DEF NoOverflow, Init
  <1>5. FramesAreReal
    BY <1>1 DEF FramesAreReal
  <1> QED  BY <1>2, <1>3, <1>4, <1>5 DEF IInv

(* Every step keeps the invariant.                                         *)
LEMMA NextIInv == IInv /\ [Next]_vars => IInv'
  <1> SUFFICES ASSUME IInv, [Next]_vars PROVE IInv'
    OBVIOUS
  <1>1. CASE UNCHANGED vars
    <2>1. TypeOK' /\ NoOverflow'
      BY <1>1 DEF vars, IInv, TypeOK, NoOverflow, MaxFrame
    <2>2. BufferIsSuffix'
      BY <1>1 DEF vars, IInv, BufferIsSuffix, At
    <2>3. FramesAreReal'
      BY <1>1, ZenonT(60) DEF vars, IInv, FramesAreReal, FrameAt, HeaderAt, EndAt, IsFrame
    <2>4. AllDecided'
      BY <1>1, ZenonT(60) DEF vars, IInv, AllDecided, Covered, RejectedAt, EndAt, IsFrame
    <2> QED  BY <2>1, <2>2, <2>3, <2>4 DEF IInv
  <1>2. CASE \E byte \in Byte : Feed(byte)
    BY <1>2, FeedKeeps
  <1>3. CASE drain_buffer
    BY <1>3, SkipByteKeeps, LengthErrorKeeps, EmitFrameKeeps, CrcErrorKeeps,
       DrainReturnsKeeps DEF drain_buffer
  <1>4. CASE TakeCounts \/ reset
    BY <1>4, TakeCountsKeeps, resetKeeps
  <1> QED  BY <1>1, <1>2, <1>3, <1>4 DEF Next

(* The inductive invariant holds throughout.                               *)
THEOREM Invariance == Spec => []IInv
  BY InitIInv, NextIInv, PTL DEF Spec

(* The parser's variables keep their types; the ring's indices stay inside *)
(* storage_.                                                               *)
THEOREM TypeCorrect == Spec => []TypeOK
  <1>1. IInv => TypeOK
    BY DEF IInv
  <1> QED  BY <1>1, Invariance, PTL

(* feed() never meets a full buffer, for every capacity that holds one     *)
(* longest frame: overflow_byte_count_ stays 0.                            *)
THEOREM NeverOverflows == Spec => []NoOverflow
  <1>1. IInv => NoOverflow
    BY DEF IInv
  <1> QED  BY <1>1, Invariance, PTL

(* push(), consume() and the wrapping index implement a queue: the buffer  *)
(* is the unconsumed rest of the stream.                                   *)
THEOREM RingIsQueue == Spec => []BufferIsSuffix
  <1>1. IInv => BufferIsSuffix
    BY DEF IInv
  <1> QED  BY <1>1, Invariance, PTL

(* Only valid, disjoint frames of the stream are handed on, in order.      *)
THEOREM FramesSound == Spec => []FramesAreReal
  <1>1. IInv => FramesAreReal
    BY DEF IInv
  <1> QED  BY <1>1, Invariance, PTL

(* Skipping noise, excessive lengths and wrong checksums one byte at a     *)
(* time never skips a valid frame.                                         *)
THEOREM FramesComplete == Spec => []NoFrameLost
  <1>1. IInv => NoFrameLost
    <2> SUFFICES ASSUME IInv, NEW p \in 0..(base - 1), FrameAt(p)
                 PROVE  Covered(p)
      BY DEF NoFrameLost
    <2>1. TypeOK /\ p \in Nat /\ (Covered(p) \/ RejectedAt(p))
      BY DEF IInv, AllDecided, TypeOK
    <2>2. p + 3 <= Len(input) /\ input[p + 1] = kHeader1 /\ input[p + 2] = kHeader2
      BY DEF FrameAt, HeaderAt
    <2>3. input[p + 3] <= kMaxPayloadLength /\ input[p + 3] \in Nat
      <3> DEFINE raw == SubSeq(input, p + 1, EndAt(p))
      <3>1. EndAt(p) \in Nat /\ EndAt(p) >= p + 3 /\ EndAt(p) <= Len(input)
        BY <2>1, <2>2, EndIsNumber DEF FrameAt
      <3>2. raw[3] = input[p + 3]
        BY <2>1, <3>1 DEF TypeOK
      <3>3. input[p + 3] \in Byte
        BY <2>1, <2>2 DEF TypeOK
      <3>4. input[p + 3] \in Nat
        BY <3>3, RingAssumption, ZenonT(60)
      <3> QED  BY <3>2, <3>4, ZenonT(60) DEF FrameAt, IsFrame
    <2>4. ~RejectedAt(p)
      BY <2>2, <2>3, ParserAssumption DEF RejectedAt, FrameAt
    <2> QED  BY <2>1, <2>4
  <1> QED  BY <1>1, Invariance, PTL

-----------------------------------------------------------------------------
(* The variant of the loop in drain_buffer(): what the prover can say of   *)
(* DrainTerminates.                                                        *)

DrainShrinks == draining => ~draining' \/ buffer'.size < buffer.size

LEMMA DropShrinks ==
    ASSUME TypeOK, NEW count \in Nat \ {0}, buffer.size >= 1, Drop(count)
    PROVE  buffer'.size < buffer.size
  <1>1. buffer.size \in Nat
    BY RingAssumption DEF TypeOK, Buffers
  <1>2. buffer'.size = buffer.size - (IF count < buffer.size THEN count ELSE buffer.size)
    BY DEF TypeOK, Buffers, Drop, Consume
  <1> QED  BY <1>1, <1>2

(* Every iteration of drain_buffer() returns or leaves fewer bytes in the  *)
(* buffer, whatever the bytes are: the loop ends after at most as many     *)
(* iterations as there were bytes, and one.                                *)
THEOREM DrainVariant == Spec => [][DrainShrinks]_vars
  <1>1. ASSUME IInv, Next, draining
        PROVE  ~draining' \/ buffer'.size < buffer.size
    <2>0. TypeOK /\ BufferIsSuffix
      BY <1>1 DEF IInv
    <2>1. CASE SkipByte \/ LengthError \/ CrcError
      <3>1. buffer.size >= 1 /\ Drop(1)
        BY <2>0, <2>1, RingAssumption, ParserAssumption
           DEF SkipByte, LengthError, CrcError, Header1Missing, Header2Missing, FrameBuffered,
               HeaderSeen, TypeOK, Buffers
      <3> QED  BY <2>0, <3>1, DropShrinks
    <2>2. CASE EmitFrame
      <3>1. HeaderSeen /\ Drop(frame_size) /\ buffer.size >= 3 /\ buffer.size \in Nat
        BY <2>0, <2>2, RingAssumption DEF EmitFrame, FrameBuffered, HeaderSeen, TypeOK, Buffers
      <3>2. At(buffer, 2) \in Nat
        BY <2>0, <3>1, FrontBytes
      <3>3. frame_size \in Nat \ {0}
        BY <3>2, ParserAssumption DEF frame_size
      <3> QED  BY <2>0, <3>1, <3>3, DropShrinks
    <2>3. CASE DrainReturns
      BY <2>3 DEF DrainReturns
    <2> QED  BY <1>1, <2>1, <2>2, <2>3 DEF Next, drain_buffer, Feed, TakeCounts, reset
  <1>2. IInv /\ [Next]_vars => [DrainShrinks]_vars
    BY <1>1 DEF DrainShrinks
  <1> QED  BY <1>2, Invariance, PTL DEF Spec

-----------------------------------------------------------------------------
(* The counts.                                                             *)

LengthErrors == {p \in mark..(base - 1) : LengthErrorAt(p)}
CrcErrors == {p \in mark..(base - 1) : CrcErrorAt(p)}

(* The numbers of positions, and that the counts were taken in the past.   *)
Counted == /\ mark <= base
           /\ length_error_count = Cardinality(LengthErrors)
           /\ crc_error_count = Cardinality(CrcErrors)

LEMMA ErrorsFinite ==
    ASSUME TypeOK
    PROVE  IsFiniteSet(LengthErrors) /\ IsFiniteSet(CrcErrors)
  <1>1. IsFiniteSet(mark .. (base - 1))
    <2>1. mark \in Int /\ base - 1 \in Int
      BY DEF TypeOK
    <2> QED  BY <2>1, FS_Interval
  <1>2. LengthErrors \in SUBSET (mark .. (base - 1)) /\ CrcErrors \in SUBSET (mark .. (base - 1))
    BY DEF LengthErrors, CrcErrors
  <1> QED  BY <1>1, <1>2, FS_Subset, ZenonT(60)

(* The positions passed before are what they were; the ones that are       *)
(* passed now are no errors.                                               *)
PlacesKept ==
    /\ mark' = mark
    /\ \A p \in Nat : p < base =>
          /\ LengthErrorAt(p)' <=> LengthErrorAt(p)
          /\ CrcErrorAt(p)' <=> CrcErrorAt(p)

NonePassed ==
    /\ base' \in Nat /\ base' >= base
    /\ \A p \in Nat : base <= p /\ p < base' => ~LengthErrorAt(p)' /\ ~CrcErrorAt(p)'

LEMMA Passed ==
    ASSUME NEW m \in Nat, NEW b \in Nat
    PROVE  \A p : p \in m .. (b - 1) <=> p \in Nat /\ m <= p /\ p < b
  OBVIOUS

LEMMA NoErrorPassed ==
    ASSUME TypeOK, Counted, PlacesKept, NonePassed,
           UNCHANGED <<length_error_count, crc_error_count>>
    PROVE  Counted'
  <1>1. mark \in Nat /\ base \in Nat /\ mark' = mark /\ base' \in Nat /\ base' >= base
    BY DEF TypeOK, PlacesKept, NonePassed
  <1>2. ASSUME NEW p \in mark .. (base - 1)
        PROVE  /\ p \in mark .. (base' - 1)
               /\ LengthErrorAt(p)' <=> LengthErrorAt(p)
               /\ CrcErrorAt(p)' <=> CrcErrorAt(p)
    <2>1. p \in Nat /\ p < base /\ p \in mark .. (base' - 1)
      <3>1. p \in Nat /\ mark <= p /\ p < base
        BY <1>1, Passed
      <3>2. p < base'
        BY <1>1, <3>1
      <3> QED  BY <1>1, <3>1, <3>2, Passed, ZenonT(60)
    <2> QED  BY <2>1 DEF PlacesKept
  <1>3. ASSUME NEW p \in mark .. (base' - 1), p \notin mark .. (base - 1)
        PROVE  ~LengthErrorAt(p)' /\ ~CrcErrorAt(p)'
    <2>1. p \in Nat /\ base <= p /\ p < base'
      <3>1. p \in Nat /\ mark <= p /\ p < base' /\ ~(p < base)
        BY <1>1, <1>3, Passed, ZenonT(60)
      <3> QED  BY <1>1, <3>1
    <2> QED  BY <2>1 DEF NonePassed
  <1>4. LengthErrors' = LengthErrors /\ CrcErrors' = CrcErrors
    BY <1>1, <1>2, <1>3, ZenonT(60) DEF LengthErrors, CrcErrors
  <1> QED  BY <1>1, <1>4 DEF Counted

(* A frame handed on ends at base at the latest.                           *)
LEMMA BaseNotCovered ==
    ASSUME IInv
    PROVE  \A p \in Nat : base <= p => ~Covered(p)
  <1> SUFFICES ASSUME NEW p \in Nat, base <= p, NEW i \in DOMAIN frames,
                      frames[i].start <= p, p < frames[i].start + Len(frames[i].raw)
               PROVE  FALSE
    BY DEF Covered, Range
  <1>1. TypeOK /\ frames[i] \in Frames
    BY DEF IInv, TypeOK
  <1> DEFINE s == frames[i].start
  <1>2. /\ FrameAt(s) /\ EndAt(s) <= base /\ frames[i].raw = SubSeq(input, s + 1, EndAt(s))
    BY DEF IInv, FramesAreReal
  <1>3. s \in Nat /\ s + 3 <= Len(input) /\ base \in Nat
    BY <1>1, <1>2 DEF Frames, FrameAt, HeaderAt, TypeOK
  <1>4. EndAt(s) \in Nat /\ EndAt(s) >= s + 3 /\ EndAt(s) <= Len(input)
    BY <1>1, <1>2, <1>3, EndIsNumber DEF FrameAt
  <1>5. Len(frames[i].raw) = EndAt(s) - s
    BY <1>1, <1>2, <1>3, <1>4 DEF TypeOK
  <1> HIDE DEF s
  <1>6. p < s + Len(frames[i].raw) /\ EndAt(s) <= base
    BY <1>2, ZenonT(60) DEF s
  <1> QED  BY <1>3, <1>4, <1>5, <1>6

(* One more error, at base.                                                *)
LEMMA ErrorPassed ==
    ASSUME TypeOK, Counted, PlacesKept, NEW b \in Nat, base = b, base' = b + 1,
           \/ /\ LengthErrorAt(b)' /\ ~CrcErrorAt(b)'
              /\ length_error_count' = length_error_count + 1
              /\ crc_error_count' = crc_error_count
           \/ /\ CrcErrorAt(b)' /\ ~LengthErrorAt(b)'
              /\ crc_error_count' = crc_error_count + 1
              /\ length_error_count' = length_error_count
    PROVE  Counted'
  <1>1. mark \in Nat /\ mark' = mark /\ mark <= b
    BY DEF TypeOK, PlacesKept, Counted
  <1>2. ASSUME NEW p \in mark .. (b - 1)
        PROVE  /\ LengthErrorAt(p)' <=> LengthErrorAt(p)
               /\ CrcErrorAt(p)' <=> CrcErrorAt(p)
    <2>1. p \in Nat /\ p < base
      BY <1>1, Passed
    <2> QED  BY <2>1 DEF PlacesKept
  <1>3. mark' .. (base' - 1) = (mark .. (b - 1)) \cup {b} /\ b \notin mark .. (b - 1)
    BY <1>1
  <1>4. /\ IsFiniteSet(LengthErrors) /\ b \notin LengthErrors
        /\ IsFiniteSet(CrcErrors) /\ b \notin CrcErrors
    BY <1>3, ErrorsFinite DEF LengthErrors, CrcErrors
  <1>5. CASE /\ LengthErrorAt(b)' /\ ~CrcErrorAt(b)'
             /\ length_error_count' = length_error_count + 1
             /\ crc_error_count' = crc_error_count
    <2>1. LengthErrors' = LengthErrors \cup {b} /\ CrcErrors' = CrcErrors
      BY <1>2, <1>3, <1>5 DEF LengthErrors, CrcErrors
    <2>2. Cardinality(LengthErrors') = Cardinality(LengthErrors) + 1
      BY <1>4, <2>1, FS_AddElement, ZenonT(60)
    <2> QED  BY <1>1, <1>5, <2>1, <2>2 DEF Counted
  <1>6. CASE /\ CrcErrorAt(b)' /\ ~LengthErrorAt(b)'
             /\ crc_error_count' = crc_error_count + 1
             /\ length_error_count' = length_error_count
    <2>1. CrcErrors' = CrcErrors \cup {b} /\ LengthErrors' = LengthErrors
      BY <1>2, <1>3, <1>6 DEF LengthErrors, CrcErrors
    <2>2. Cardinality(CrcErrors') = Cardinality(CrcErrors) + 1
      BY <1>4, <2>1, FS_AddElement, ZenonT(60)
    <2> QED  BY <1>1, <1>6, <2>1, <2>2 DEF Counted
  <1> QED  BY <1>5, <1>6

LEMMA SameStream ==
    ASSUME UNCHANGED <<input, frames, mark>>
    PROVE  /\ PlacesKept
           /\ \A p \in Nat : /\ LengthErrorAt(p)' <=> LengthErrorAt(p)
                             /\ CrcErrorAt(p)' <=> CrcErrorAt(p)
  BY DEF PlacesKept, LengthErrorAt, CrcErrorAt, HeaderAt, Covered

LEMMA FeedCounts ==
    ASSUME IInv, Counted, NEW byte \in Byte, Feed(byte)
    PROVE  Counted'
  <1>1. /\ TypeOK /\ input \in Seq(Byte) /\ input' = Append(input, byte)
        /\ UNCHANGED <<frames, length_error_count, crc_error_count, mark>>
    BY DEF IInv, TypeOK, Feed
  <1>2. base' = base /\ base \in Nat
    <2>1. ~Full(buffer)
      BY <1>1, Numbers DEF IInv, NoOverflow, Feed, Full
    <2> QED  BY <1>1, <2>1 DEF Feed, TypeOK
  <1>3. ASSUME NEW p \in Nat, p < base
        PROVE  /\ LengthErrorAt(p)' <=> LengthErrorAt(p)
               /\ CrcErrorAt(p)' <=> CrcErrorAt(p)
    <2>1. Covered(p)' <=> Covered(p)
      BY <1>1 DEF Covered
    <2>2. CASE Covered(p)
      BY <2>1, <2>2 DEF LengthErrorAt, CrcErrorAt
    <2>3. CASE ~Covered(p)
      <3>1. RejectedAt(p)
        BY <1>2, <1>3, <2>3 DEF IInv, AllDecided
      <3>2. /\ Len(input') = Len(input) + 1 /\ Len(input) \in Nat
            /\ \A m \in 1 .. Len(input) : input'[m] = input[m]
        BY <1>1
      <3>3. HeaderAt(p)' <=> HeaderAt(p)
        BY <3>1, <3>2 DEF RejectedAt, HeaderAt
      <3>4. HeaderAt(p) => input'[p + 3] = input[p + 3]
        BY <3>2 DEF HeaderAt
      <3> QED  BY <2>1, <3>3, <3>4 DEF LengthErrorAt, CrcErrorAt
    <2> QED  BY <2>2, <2>3
  <1>4. PlacesKept
    BY <1>1, <1>3 DEF PlacesKept
  <1>5. NonePassed
    BY <1>2 DEF NonePassed
  <1> QED  BY <1>1, <1>4, <1>5, NoErrorPassed

LEMMA DrainCounts ==
    ASSUME IInv, Counted, drain_buffer
    PROVE  Counted'
  <1>1. TypeOK /\ BufferIsSuffix /\ base \in Nat /\ Len(input) \in Nat
    BY DEF IInv, TypeOK
  <1>2. ASSUME NEW p \in Nat, base <= p PROVE ~Covered(p)
    BY <1>2, BaseNotCovered
  <1>3. CASE SkipByte
    <2>1. /\ UNCHANGED <<input, frames, mark, length_error_count, crc_error_count>>
          /\ base' = base + 1
      BY <1>3 DEF SkipByte, Drop
    <2>2. ~HeaderAt(base)
      BY <1>1, <1>3, FrontBytes, Numbers DEF SkipByte, Header1Missing, Header2Missing, HeaderAt
    <2>3. \A p \in Nat : base <= p /\ p < base' => p = base
      BY <1>1, <2>1
    <2>4. NonePassed
      BY <1>1, <2>1, <2>2, <2>3, SameStream DEF NonePassed, LengthErrorAt, CrcErrorAt
    <2> QED  BY <1>1, <2>1, <2>4, SameStream, NoErrorPassed
  <1>4. CASE LengthError
    <2>1. /\ UNCHANGED <<input, frames, mark, crc_error_count>>
          /\ base' = base + 1 /\ length_error_count' = length_error_count + 1
      BY <1>4 DEF LengthError, Drop
    <2>2. HeaderAt(base) /\ input[base + 3] > kMaxPayloadLength /\ input[base + 3] \in Nat
      BY <1>1, <1>4, FrontBytes, Numbers DEF LengthError, HeaderSeen, HeaderAt
    <2>3. LengthErrorAt(base) /\ ~CrcErrorAt(base)
      BY <1>1, <1>2, <2>2, ParserAssumption DEF LengthErrorAt, CrcErrorAt
    <2>4. PICK b \in Nat : b = base
      BY <1>1
    <2>5. LengthErrorAt(b)' /\ ~CrcErrorAt(b)'
      BY <2>1, <2>3, <2>4, SameStream
    <2> QED  BY <1>1, <2>1, <2>4, <2>5, SameStream, ErrorPassed
  <1>5. CASE CrcError
    <2>1. /\ UNCHANGED <<input, frames, mark, length_error_count>>
          /\ base' = base + 1 /\ crc_error_count' = crc_error_count + 1
      BY <1>5 DEF CrcError, Drop
    <2>2. HeaderAt(base) /\ input[base + 3] <= kMaxPayloadLength /\ input[base + 3] \in Nat
      BY <1>1, <1>5, FrontBytes, Numbers DEF CrcError, FrameBuffered, HeaderSeen,
         HeaderAt
    <2>3. CrcErrorAt(base) /\ ~LengthErrorAt(base)
      BY <1>1, <1>2, <2>2, ParserAssumption DEF LengthErrorAt, CrcErrorAt
    <2>4. PICK b \in Nat : b = base
      BY <1>1
    <2>5. CrcErrorAt(b)' /\ ~LengthErrorAt(b)'
      BY <2>1, <2>3, <2>4, SameStream
    <2> QED  BY <1>1, <2>1, <2>4, <2>5, SameStream, ErrorPassed
  <1>6. CASE DrainReturns
    <2>1. UNCHANGED <<input, frames, mark, base, length_error_count, crc_error_count>>
      BY <1>6 DEF DrainReturns
    <2>2. NonePassed
      BY <1>1, <2>1 DEF NonePassed
    <2> QED  BY <1>1, <2>1, <2>2, SameStream, NoErrorPassed
  <1>7. CASE EmitFrame
    <2> DEFINE f == [start |-> base, raw |-> CopyFront(buffer, frame_size)]
    <2>1. /\ UNCHANGED <<input, mark, length_error_count, crc_error_count>>
          /\ base' = base + frame_size /\ frames' = Append(frames, f)
          /\ frames \in Seq(Frames) /\ FrameBuffered
      BY <1>1, <1>7 DEF EmitFrame, Drop, TypeOK
    <2>2. /\ frame_size \in Nat /\ f.start = base /\ Len(f.raw) = frame_size /\ f.raw \in Seq(Byte)
      BY <1>1, <2>1, CandidateAtBase, Numbers
    <2>3. f \in Frames
      BY <1>1, <2>2 DEF Frames
    <2> HIDE DEF f
    <2>4. /\ DOMAIN frames' = DOMAIN frames \cup {Len(frames) + 1}
          /\ frames'[Len(frames) + 1] = f
          /\ \A i \in DOMAIN frames : frames'[i] = frames[i]
      BY <2>1, <2>3
    <2>5. ASSUME NEW p \in Nat
          PROVE  Covered(p)' <=> Covered(p) \/ (base <= p /\ p < base')
      BY <2>1, <2>2, <2>4, ZenonT(60) DEF Covered, Range
    <2>6. PlacesKept
      <3>1. ASSUME NEW p \in Nat, p < base PROVE Covered(p)' <=> Covered(p)
        BY <1>1, <2>5, <3>1
      <3> QED  BY <2>1, <3>1 DEF PlacesKept, LengthErrorAt, CrcErrorAt, HeaderAt
    <2>7. NonePassed
      BY <1>1, <2>1, <2>2, <2>5 DEF NonePassed, LengthErrorAt, CrcErrorAt
    <2> QED  BY <1>1, <2>1, <2>6, <2>7, NoErrorPassed
  <1> QED  BY <1>3, <1>4, <1>5, <1>6, <1>7 DEF drain_buffer

LEMMA NothingCounted ==
    ASSUME mark \in Nat, base = mark, length_error_count = 0, crc_error_count = 0
    PROVE  Counted
  <1>1. mark .. (base - 1) = {}
    OBVIOUS
  <1>2. LengthErrors = {} /\ CrcErrors = {}
    BY <1>1 DEF LengthErrors, CrcErrors
  <1> QED  BY <1>2, FS_EmptySet DEF Counted

(* CountsExact: take_crc_error_count() and take_length_error_count()       *)
(* return the exact numbers of rejected headers outside frames, for every  *)
(* stream and however it is divided.                                       *)
THEOREM CountsAreExact == Spec => []CountsExact
  <1>1. Init => Counted
    BY NothingCounted DEF Init
  <1>2. IInv /\ Counted /\ [Next]_vars => Counted'
    <2> SUFFICES ASSUME IInv, Counted, [Next]_vars PROVE Counted'
      OBVIOUS
    <2>1. CASE UNCHANGED vars
      BY <2>1 DEF vars, Counted, LengthErrors, CrcErrors, LengthErrorAt, CrcErrorAt, HeaderAt,
         Covered
    <2>2. CASE \E byte \in Byte : Feed(byte)
      BY <2>2, FeedCounts
    <2>3. CASE drain_buffer
      BY <2>3, DrainCounts
    <2>4. CASE TakeCounts \/ reset
      <3>1. /\ mark' \in Nat /\ base' = mark' /\ length_error_count' = 0 /\ crc_error_count' = 0
        BY <2>4 DEF TakeCounts, reset, IInv, TypeOK
      <3> QED  BY <3>1, FS_EmptySet DEF Counted, LengthErrors, CrcErrors
    <2> QED  BY <2>1, <2>2, <2>3, <2>4 DEF Next
  <1>3. Counted => CountsExact
    BY DEF Counted, CountsExact, LengthErrors, CrcErrors
  <1> QED  BY <1>1, <1>2, <1>3, Invariance, PTL DEF Spec

=============================================================================

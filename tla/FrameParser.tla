----------------------------- MODULE FrameParser -----------------------------
(***************************************************************************)
(* protocol::FrameParser: finds frames in a byte stream that arrives in    *)
(* arbitrary pieces and may be corrupted.                                  *)
(*                                                                         *)
(* A frame is header1 header2 length ..., kFixedFieldSize + length bytes   *)
(* long, and its checksum has to match.  feed() pushes one byte after the  *)
(* other and drains the buffer after each: draining is the loop of         *)
(* drain_buffer(), one action per branch of its body.                      *)
(*                                                                         *)
(* input and base are history: the bytes since the last reset() and how    *)
(* many of them have left the buffer.                                      *)
(***************************************************************************)
EXTENDS ByteRingBuffer, Functions, FiniteSets

CONSTANTS kHeader1, kHeader2,
          kMaxPayloadLength,
          kFixedFieldSize,    \* bytes of a frame without payload
          ChecksumOk(_),      \* crc16_modbus over a frame equals its last bytes
          MaxInput            \* bound on the bytes of one behaviour

MaxFrame == kFixedFieldSize + kMaxPayloadLength

(* kBufferCapacity is 256, a frame has at most 7 + 64 bytes.               *)
ASSUME ParserAssumption ==
    /\ kHeader1 \in Byte /\ kHeader2 \in Byte
    /\ kMaxPayloadLength \in Nat
    /\ kFixedFieldSize \in Nat /\ kFixedFieldSize >= 3
    /\ Capacity >= MaxFrame
    /\ MaxInput \in Nat

VARIABLES
    buffer,                \* buffer_
    draining,              \* inside drain_buffer()
    frames,                \* the frames returned so far, with their offsets
    crc_error_count,
    length_error_count,
    overflow_byte_count,
    input, base, mark      \* history; mark: base when the counts were last taken

vars == <<buffer, draining, frames, crc_error_count, length_error_count,
          overflow_byte_count, input, base, mark>>

(* parse_complete_frame: does raw make up one frame?                       *)
IsFrame(raw) ==
    /\ Len(raw) >= kFixedFieldSize
    /\ raw[1] = kHeader1 /\ raw[2] = kHeader2
    /\ raw[3] <= kMaxPayloadLength
    /\ Len(raw) = kFixedFieldSize + raw[3]
    /\ ChecksumOk(raw)

-----------------------------------------------------------------------------
(* feed(), one byte: push it, after discarding the oldest byte if the      *)
(* buffer is full; then drain.                                             *)
Feed(byte) ==
    LET discarded == IF Full(buffer) THEN 1 ELSE 0
    IN  /\ ~draining
        /\ Len(input) < MaxInput
        /\ buffer' = Push(Consume(buffer, discarded), byte)
        /\ overflow_byte_count' = overflow_byte_count + discarded
        /\ base' = base + discarded
        /\ draining' = TRUE
        /\ input' = Append(input, byte)
        /\ UNCHANGED <<frames, crc_error_count, length_error_count, mark>>

(* What drain_buffer() sees at the front of the buffer.                    *)
Header1Missing == buffer.size >= 1 /\ At(buffer, 0) # kHeader1
Header2Missing == /\ buffer.size >= 2
                  /\ At(buffer, 0) = kHeader1 /\ At(buffer, 1) # kHeader2
HeaderSeen     == /\ buffer.size >= 3
                  /\ At(buffer, 0) = kHeader1 /\ At(buffer, 1) = kHeader2
frame_size     == kFixedFieldSize + At(buffer, 2)
FrameBuffered  == /\ HeaderSeen
                  /\ At(buffer, 2) <= kMaxPayloadLength
                  /\ buffer.size >= frame_size

(* buffer_.consume(count)                                                  *)
Drop(count) ==
    /\ buffer' = Consume(buffer, count)
    /\ base' = base + count

(* A faulty SkipByte: it consumes nothing.                                 *)
SkipByteStalls ==
    /\ draining
    /\ Header1Missing \/ Header2Missing
    /\ Drop(0)
    /\ UNCHANGED <<draining, frames, crc_error_count, length_error_count,
                   overflow_byte_count, input, mark>>

SkipByte ==
    /\ draining
    /\ Header1Missing \/ Header2Missing
    /\ Drop(1)
    /\ UNCHANGED <<draining, frames, crc_error_count, length_error_count,
                   overflow_byte_count, input, mark>>

LengthError ==
    /\ draining
    /\ HeaderSeen /\ At(buffer, 2) > kMaxPayloadLength
    /\ length_error_count' = length_error_count + 1
    /\ Drop(1)
    /\ UNCHANGED <<draining, frames, crc_error_count, overflow_byte_count, input, mark>>

(* A faulty EmitFrame: the checksum is not looked at.                      *)
EmitFrameUnchecked ==
    /\ draining
    /\ FrameBuffered
    /\ frames' = Append(frames, [start |-> base, raw |-> CopyFront(buffer, frame_size)])
    /\ Drop(frame_size)
    /\ UNCHANGED <<draining, crc_error_count, length_error_count, overflow_byte_count,
                   input, mark>>

EmitFrame ==
    /\ draining
    /\ FrameBuffered
    /\ IsFrame(CopyFront(buffer, frame_size))
    /\ frames' = Append(frames, [start |-> base, raw |-> CopyFront(buffer, frame_size)])
    /\ Drop(frame_size)
    /\ UNCHANGED <<draining, crc_error_count, length_error_count, overflow_byte_count,
                   input, mark>>

(* A faulty CrcError: it drops all of the rejected frame.                  *)
CrcErrorDropsFrame ==
    /\ draining
    /\ FrameBuffered
    /\ ~IsFrame(CopyFront(buffer, frame_size))
    /\ crc_error_count' = crc_error_count + 1
    /\ Drop(frame_size)
    /\ UNCHANGED <<draining, frames, length_error_count, overflow_byte_count, input, mark>>

CrcError ==
    /\ draining
    /\ FrameBuffered
    /\ ~IsFrame(CopyFront(buffer, frame_size))
    /\ crc_error_count' = crc_error_count + 1
    /\ Drop(1)
    /\ UNCHANGED <<draining, frames, length_error_count, overflow_byte_count, input, mark>>

(* A faulty DrainReturns: it waits for the rest of a frame of excessive    *)
(* length.                                                                 *)
DrainWaitsOnExcess ==
    /\ draining
    /\ \/ buffer.size = 0
       \/ buffer.size = 1 /\ At(buffer, 0) = kHeader1
       \/ buffer.size = 2 /\ At(buffer, 0) = kHeader1 /\ At(buffer, 1) = kHeader2
       \/ /\ HeaderSeen
          /\ buffer.size < frame_size
    /\ draining' = FALSE
    /\ UNCHANGED <<buffer, frames, crc_error_count, length_error_count,
                   overflow_byte_count, input, base, mark>>

(* drain_buffer() returns: the buffer is empty or holds the beginning of   *)
(* what may become a frame.                                                *)
DrainReturns ==
    /\ draining
    /\ \/ buffer.size = 0
       \/ buffer.size = 1 /\ At(buffer, 0) = kHeader1
       \/ buffer.size = 2 /\ At(buffer, 0) = kHeader1 /\ At(buffer, 1) = kHeader2
       \/ /\ HeaderSeen
          /\ At(buffer, 2) <= kMaxPayloadLength
          /\ buffer.size < frame_size
    /\ draining' = FALSE
    /\ UNCHANGED <<buffer, frames, crc_error_count, length_error_count,
                   overflow_byte_count, input, base, mark>>

drain_buffer == SkipByte \/ LengthError \/ EmitFrame \/ CrcError \/ DrainReturns

(* take_crc_error_count() and its two siblings, called together after      *)
(* feed().                                                                 *)
TakeCounts ==
    /\ ~draining
    /\ crc_error_count' = 0 /\ length_error_count' = 0 /\ overflow_byte_count' = 0
    /\ mark' = base
    /\ UNCHANGED <<buffer, draining, frames, input, base>>

(* A faulty reset: the error counts survive.                               *)
resetKeepsCounts ==
    /\ ~draining
    /\ buffer' = Clear(buffer)
    /\ UNCHANGED <<crc_error_count, length_error_count, overflow_byte_count>>
    /\ input' = <<>> /\ base' = 0 /\ mark' = 0 /\ frames' = <<>>
    /\ UNCHANGED draining

(* reset(), when the port is opened again: a new stream begins.            *)
reset ==
    /\ ~draining
    /\ buffer' = Clear(buffer)
    /\ crc_error_count' = 0 /\ length_error_count' = 0 /\ overflow_byte_count' = 0
    /\ input' = <<>> /\ base' = 0 /\ mark' = 0 /\ frames' = <<>>
    /\ UNCHANGED draining

Init ==
    /\ buffer = NewBuffer
    /\ draining = FALSE
    /\ frames = <<>>
    /\ crc_error_count = 0 /\ length_error_count = 0 /\ overflow_byte_count = 0
    /\ input = <<>> /\ base = 0 /\ mark = 0

Next == \/ \E byte \in Byte : Feed(byte)
        \/ drain_buffer
        \/ TakeCounts
        \/ reset

Spec == Init /\ [][Next]_vars
FairSpec == Spec /\ WF_vars(drain_buffer)

-----------------------------------------------------------------------------
Frames == [start : Nat, raw : Seq(Byte)]

TypeOK ==
    /\ buffer \in Buffers
    /\ draining \in BOOLEAN
    /\ frames \in Seq(Frames)
    /\ crc_error_count \in Nat /\ length_error_count \in Nat
    /\ overflow_byte_count \in Nat
    /\ input \in Seq(Byte)
    /\ base \in Nat /\ mark \in Nat

(* The stream, by offset.                                                  *)
HeaderAt(p) == /\ p + 3 <= Len(input)
               /\ input[p + 1] = kHeader1 /\ input[p + 2] = kHeader2
EndAt(p) == p + kFixedFieldSize + input[p + 3]
FrameAt(p) == /\ HeaderAt(p)
              /\ EndAt(p) <= Len(input)
              /\ IsFrame(SubSeq(input, p + 1, EndAt(p)))
Covered(p) == \E f \in Range(frames) : f.start <= p /\ p < f.start + Len(f.raw)

(* Whatever its position in the ring, the buffer holds exactly the bytes   *)
(* of the stream that have not been consumed, in order.                    *)
BufferIsSuffix ==
    /\ base + buffer.size = Len(input)
    /\ \A i \in 0..(buffer.size - 1) : At(buffer, i) = input[base + i + 1]

(* Between two bytes the buffer holds less than one longest frame, so it   *)
(* is never full when the next byte arrives and feed() never discards one. *)
NoOverflow == /\ buffer.size <= MaxFrame
              /\ ~draining => buffer.size < MaxFrame
              /\ overflow_byte_count = 0

(* Every frame handed on is a valid frame of the stream at its offset, the *)
(* frames are in stream order and do not overlap.                          *)
FramesAreReal ==
    \A i \in DOMAIN frames :
        /\ FrameAt(frames[i].start)
        /\ frames[i].raw = SubSeq(input, frames[i].start + 1, EndAt(frames[i].start))
        /\ EndAt(frames[i].start) <= base
        /\ \A j \in DOMAIN frames :
              i < j => EndAt(frames[i].start) <= frames[j].start

(* Resynchronisation loses nothing: a valid frame the parser has moved     *)
(* past was handed on, unless it begins inside one that was.               *)
NoFrameLost == \A p \in 0..(base - 1) : FrameAt(p) => Covered(p)

(* The inductive form of NoFrameLost: no byte yet to come can turn a       *)
(* position the parser moved past into the beginning of a frame.           *)
RejectedAt(p) ==
    \/ p + 1 <= Len(input) /\ input[p + 1] # kHeader1
    \/ p + 2 <= Len(input) /\ input[p + 2] # kHeader2
    \/ /\ p + 3 <= Len(input)
       /\ \/ input[p + 3] > kMaxPayloadLength
          \/ /\ EndAt(p) <= Len(input)
             /\ ~IsFrame(SubSeq(input, p + 1, EndAt(p)))
AllDecided == \A p \in 0..(base - 1) : Covered(p) \/ RejectedAt(p)

IInv == /\ TypeOK
        /\ BufferIsSuffix
        /\ NoOverflow
        /\ FramesAreReal
        /\ AllDecided

(* The places, outside frames, where a header is followed by an excessive  *)
(* length, and where it is followed by anything else.                      *)
LengthErrorAt(p) == HeaderAt(p) /\ ~Covered(p) /\ input[p + 3] > kMaxPayloadLength
CrcErrorAt(p) == HeaderAt(p) /\ ~Covered(p) /\ input[p + 3] <= kMaxPayloadLength

(* The counts reported since they were last taken are the numbers of       *)
(* places, outside frames, where a header was followed by an excessive     *)
(* length or by a complete frame with a wrong checksum.                    *)
CountsExact ==
    /\ length_error_count = Cardinality({p \in mark..(base - 1) : LengthErrorAt(p)})
    /\ crc_error_count = Cardinality({p \in mark..(base - 1) : CrcErrorAt(p)})

(* drain_buffer() returns after every byte.                                *)
DrainTerminates == draining ~> ~draining
=============================================================================

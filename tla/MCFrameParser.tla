---------------------------- MODULE MCFrameParser ----------------------------
(* FrameParser over four byte values: 3 and 2 are the header, 0 and 1 are  *)
(* lengths, 2 and 3 excessive lengths; one checksum byte.                  *)
EXTENDS FrameParser

MCByte == 0..3
SumTo[raw \in Seq(MCByte), n \in 0..6] ==
    IF n < 3 THEN 0 ELSE raw[n] + SumTo[raw, n - 1]

MCChecksumOk(raw) == Len(raw) > 3 /\ raw[Len(raw)] = SumTo[raw, Len(raw) - 1] % 4
=============================================================================

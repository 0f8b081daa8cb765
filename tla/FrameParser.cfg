CONSTANTS
  Byte <- MCByte
  Capacity = 6
  kHeader1 = 3
  kHeader2 = 2
  kMaxPayloadLength = 1
  kFixedFieldSize = 4
  ChecksumOk <- MCChecksumOk
  MaxInput = 8
SPECIFICATION FairSpec
INVARIANTS BufferIsSuffix NoOverflow FramesAreReal NoFrameLost CountsExact
PROPERTY DrainTerminates

CONSTANTS
  Files <- MCFiles
  Arguments <- MCArguments
  IPv4 <- MCIPv4
  Unreadable = unreadable
  NotMap = notmap
  Null = null
  Scalar = scalar
  Mismatch = mismatch
  NotSequence = notsequence
SPECIFICATION Spec
INVARIANTS ComponentsAsConfigured RejectedForCause

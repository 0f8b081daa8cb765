CONSTANTS
  PollInterval = 3
  ResponseTimeout = 1
  ReadTimeout = 2
  ReconnectInterval = 1
  Second = 2
  HeartbeatTimeout = 3
  Latency = 1
  MaxPreempt = 1
  MaxSteps = 1
SPECIFICATION Spec
INVARIANT OnlyErrorsCounted

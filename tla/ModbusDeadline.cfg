CONSTANTS
  PollInterval = 5
  ResponseTimeout = 1
  ReadTimeout = 2
  ReconnectInterval = 1
  Second = 2
  HeartbeatTimeout = 5
  Latency = 2
  MaxPreempt = 2
  MaxSteps = 0
SPECIFICATION FairSpec
PROPERTY TimeoutRecorded

CONSTANTS
  u = u
  m = m
  Main = main
  None = none
  Devices <- UartModbus
  Uart <- OnlyUart
  Modbus <- OnlyModbus
  Fds <- MCFds
SPECIFICATION FairSpec
INVARIANTS OwnPorts QuiescentAfterStop PortsClosedAtExit
PROPERTIES StopReturns DevicesReopen

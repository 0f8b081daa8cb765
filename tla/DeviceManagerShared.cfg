CONSTANTS
  u = u
  m = m
  Main = main
  None = none
  Devices <- UartModbus
  Uart <- OnlyUart
  Modbus <- OnlyModbus
  Fds <- MCFds
SPECIFICATION Spec
INVARIANT DescriptorsNotShared

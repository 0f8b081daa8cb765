--------------------------- MODULE MCDeviceManager ---------------------------
(* DeviceManager for a UART device u and a Modbus device m.  A CAN device  *)
(* takes a subset of the steps of a UART device.                           *)
EXTENDS DeviceManager, TLC

CONSTANTS u, m

UartModbus == {u, m}
OnlyUart == {u}
OnlyModbus == {m}
MCFds == 1..3

=============================================================================

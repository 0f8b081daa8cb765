----------------------------- MODULE MCDataPath -----------------------------
(* DataPath for model checking: a UART, a Modbus and a CAN worker, with    *)
(* what the wire formats make of seven readings and of frames altered in   *)
(* any one byte.                                                           *)
EXTENDS DataPath, Sensors, TLC

CONSTANTS uart, modbus, can

MCWorkers == {uart, modbus, can}

MCRequest == [slave_id |-> 7, function |-> 3, start_address |-> 300, register_count |-> 6]

Reading(t, h, g, b, s, n) ==
    [cmd |-> 1, device_id |-> 7, temperature |-> t, humidity |-> h, gas_ppm |-> g,
     battery_mv |-> b, status |-> s, sequence |-> n]

(* Below zero, at the limits, and outside by one in each field.            *)
MCReadings ==
    {Reading(-105, 553, 300, 3725, 8, 65535), Reading(850, 1000, 5000, 4200, 0, 0),
     Reading(-401, 0, 0, 3000, 0, 1), Reading(0, 1001, 0, 3000, 0, 1),
     Reading(0, 0, 5001, 3000, 0, 1), Reading(0, 0, 0, 2999, 0, 1),
     Reading(0, 0, 0, 3000, 2, 1)}

MCMasks == {1, 16, 255}

MCReads == (uart :> UartReads) @@ (modbus :> ModbusReads) @@ (can :> CanReads)
MCDataSheet == {r \in MCReadings \cup {OverCan(r) : r \in MCReadings} : InRange(r)}
=============================================================================

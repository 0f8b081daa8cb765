---------------------------- MODULE SensorCodec ----------------------------
(***************************************************************************)
(* How the three adapters turn what came over the wire into SensorData:    *)
(* the UART frame and its payload, the Modbus RTU response and its         *)
(* registers, the CAN frame.  Bytes are 0..255 and sequences are indexed   *)
(* from 1.  Temperature and humidity are in tenths, the unit of the wire,  *)
(* which the single decimal of the JSON text shows exactly.                *)
(***************************************************************************)
EXTENDS Crc16

(* read_u16_be(data, offset), and the conversion to int16_t.               *)
U16(data, offset) == data[offset + 1] * 256 + data[offset + 2]
I16(word) == IF word >= 32768 THEN word - 65536 ELSE word

BigEndian(word) == <<word \div 256, word % 256>>
LittleEndian(word) == <<word % 256, word \div 256>>

BitSet(word, k) == (word \div 2^k) % 2 = 1

(* A faulty Valid: gas and battery are not looked at.                      *)
ValidClimate(d) ==
    /\ d.temperature \in -400..850
    /\ d.humidity \in 0..1000
    /\ ~BitSet(d.status, 0) /\ ~BitSet(d.status, 1) /\ ~BitSet(d.status, 2)

(* validate_sensor_data_impl(): no warning is added.                       *)
Valid(d) ==
    /\ d.temperature \in -400..850
    /\ d.humidity \in 0..1000
    /\ d.gas_ppm <= 5000
    /\ d.battery_mv \in 3000..4200
    /\ ~BitSet(d.status, 0) /\ ~BitSet(d.status, 1) /\ ~BitSet(d.status, 2)

-----------------------------------------------------------------------------
(* UART: AA 55, length, cmd, device id, payload, checksum.                 *)
kFixedFieldSize == 7
kSensorPayloadSize == 11

(* The checksum test of parse_complete_frame() and of has_valid_crc().     *)
ChecksumMatches(bytes, first) ==
    LET n == Len(bytes) - 2
    IN  LittleEndian(crc16_modbus(SubSeq(bytes, first, n))) = SubSeq(bytes, n + 1, n + 2)

(* parse_complete_frame() accepts the bytes.                               *)
IsUartFrame(bytes) ==
    /\ Len(bytes) >= kFixedFieldSize
    /\ bytes[1] = 170 /\ bytes[2] = 85
    /\ bytes[3] <= 64
    /\ Len(bytes) = kFixedFieldSize + bytes[3]
    /\ ChecksumMatches(bytes, 3)

(* parse_sensor_data(): the fields of a payload of the right size.         *)
UartData(bytes) ==
    LET payload == SubSeq(bytes, 6, Len(bytes) - 2)
    IN  [cmd |-> bytes[4], device_id |-> bytes[5],
         temperature |-> I16(U16(payload, 0)), humidity |-> U16(payload, 2),
         gas_ppm |-> U16(payload, 4), battery_mv |-> U16(payload, 6),
         status |-> payload[9], sequence |-> U16(payload, 9)]

IsSensorFrame(bytes) == bytes[3] = kSensorPayloadSize /\ Valid(UartData(bytes))

-----------------------------------------------------------------------------
(* Modbus RTU.  A request is [slave_id, function, start_address,           *)
(* register_count].                                                        *)
WithChecksum(bytes) == bytes \o LittleEndian(crc16_modbus(bytes))

build_read_request(r) ==
    WithChecksum(<<r.slave_id, r.function>> \o BigEndian(r.start_address)
                    \o BigEndian(r.register_count))

(* parse_read_response(): the status of the response, the first test that  *)
(* fails deciding.                                                         *)
ResponseStatus(bytes, r) ==
    CASE Len(bytes) < 5 -> "LengthError"
      [] ~ChecksumMatches(bytes, 1) -> "CrcError"
      [] bytes[1] # r.slave_id -> "AddressMismatch"
      [] bytes[2] = r.function + 128 ->
            IF Len(bytes) = 5 THEN "ExceptionResponse" ELSE "LengthError"
      [] bytes[2] # r.function -> "FunctionMismatch"
      [] bytes[3] # 2 * r.register_count \/ Len(bytes) # bytes[3] + 5 -> "LengthError"
      [] OTHER -> "Ok"

Registers(bytes) == [i \in 1..(bytes[3] \div 2) |-> U16(bytes, 2 * i + 1)]

(* registers_to_device_data() and to_sensor_data(), given six registers.   *)
RegistersData(registers, id) ==
    [cmd |-> 1, device_id |-> id,
     temperature |-> I16(registers[1]), humidity |-> registers[2],
     gas_ppm |-> registers[3], battery_mv |-> registers[4],
     status |-> registers[5] % 256, sequence |-> registers[6]]

-----------------------------------------------------------------------------
(* CAN: a kernel frame is [id, rtr, err, extended, dlc, data].             *)

(* read_frame() hands it on.                                               *)
IsDataFrame(frame) == ~frame.rtr /\ ~frame.err

(* parse_sensor_frame() accepts it; read_frame() has masked an identifier  *)
(* that is not extended to 11 bits.                                        *)
IsCanSensorFrame(frame) == IsDataFrame(frame) /\ ~frame.extended /\ frame.dlc = 8

(* parse_sensor_frame() and to_sensor_data().                              *)
CanData(frame) ==
    [cmd |-> 1, device_id |-> frame.id % 256,
     temperature |-> I16(U16(frame.data, 0)), humidity |-> U16(frame.data, 2),
     gas_ppm |-> U16(frame.data, 4), battery_mv |-> frame.data[7] * 100,
     status |-> frame.data[8], sequence |-> 0]
=============================================================================

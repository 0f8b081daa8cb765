------------------------------ MODULE Sensors ------------------------------
(***************************************************************************)
(* What the sensors and their lines can make a read() return.  The sensors *)
(* are the environment: they encode as the protocol documents say, with    *)
(* the checksum of the standard (a remainder of polynomials), not with the *)
(* code's.  A line may alter bytes.  Results are those of the three read() *)
(* functions: data (a sequence, for UART), error_stats, and whether the    *)
(* code is ProtocolError; frames and good count what was on the line.      *)
(***************************************************************************)
EXTENDS SensorCodec, FiniteSets, SequencesExt

CONSTANTS Readings,     \* what a sensor may measure
          Masks,        \* how a byte may be altered
          Request,      \* the Modbus request of the configuration
          Damaged       \* in place of a reading: there is none, or it is altered

(* The ranges of the data sheet, and a status without fault bits.          *)
InRange(r) ==
    /\ -400 <= r.temperature /\ r.temperature <= 850
    /\ r.humidity <= 1000 /\ r.gas_ppm <= 5000
    /\ 3000 <= r.battery_mv /\ r.battery_mv <= 4200
    /\ r.status % 8 = 0

Sample == CHOOSE r \in Readings : InRange(r)

-----------------------------------------------------------------------------
(* The sensors.                                                            *)
Sealed(bytes) == bytes \o LittleEndian(RemainderCrc(bytes))

Climate(r) == BigEndian(r.temperature % 65536) \o BigEndian(r.humidity) \o BigEndian(r.gas_ppm)

UartPayload(r) == Climate(r) \o BigEndian(r.battery_mv) \o <<r.status>> \o BigEndian(r.sequence)

UartFrame(payload, id) == <<170, 85>> \o Sealed(<<Len(payload), 1, id>> \o payload)

(* A slave that understands the request answers with its registers, as     *)
(* many as are asked for, six of them in use.                              *)
SlaveAnswer(request, r) ==
    LET n == U16(request, 4)
        registers == Climate(r) \o BigEndian(r.battery_mv) \o BigEndian(r.status)
                        \o BigEndian(r.sequence) \o [i \in 1..250 |-> 0]
    IN  IF /\ Sealed(SubSeq(request, 1, 6)) = request
           /\ request[1] = r.device_id
        THEN Sealed(<<request[1], request[2], 2 * n>> \o SubSeq(registers, 1, 2 * n))
        ELSE <<>>

SensorCanFrame(r) ==
    [id |-> r.device_id, rtr |-> FALSE, err |-> FALSE, extended |-> FALSE, dlc |-> 8,
     data |-> Climate(r) \o <<r.battery_mv \div 100, r.status>>]

(* What of a reading the CAN payload can say.                              *)
OverCan(r) == [r EXCEPT !.battery_mv = (@ \div 100) * 100, !.sequence = 0]

-----------------------------------------------------------------------------
(* What is on a line: bytes, and the reading they carry when they are      *)
(* undamaged.                                                              *)
Item(bytes, origin) == [bytes |-> bytes, origin |-> origin]

Altered(bytes, first) ==
    {Item([bytes EXCEPT ![i] = Xor[@, mask]], Damaged) : i \in first..Len(bytes), mask \in Masks}

(* A header altered is a matter of module FrameParser.  The other frames   *)
(* are one of another kind and one with an impossible length.              *)
IntactUart == {Item(UartFrame(UartPayload(r), r.device_id), r) : r \in Readings}
OtherUart == {Item(UartFrame(<<1, 2>>, 1), Damaged), Item(<<170, 85, 65>>, Damaged)}

UartLine ==
    {<<i>> : i \in IntactUart \cup OtherUart
                      \cup Altered(UartFrame(UartPayload(Sample), Sample.device_id), 4)}
      \cup {<<i, j>> : i \in IntactUart \cup OtherUart, j \in IntactUart}

(* An answer altered, one cut short, an exception, and answers that do not *)
(* belong to the request.                                                  *)
ModbusLine ==
    LET answer == SlaveAnswer(build_read_request(Request), Sample)
        id == Request.slave_id
        fn == Request.function
    IN  {Item(SlaveAnswer(build_read_request(Request), r), r) : r \in Readings}
          \cup Altered(answer, 1)
          \cup {Item(b, Damaged) : b \in {SubSeq(answer, 1, Len(answer) - 1), Sealed(<<id, fn>>),
                   Sealed(<<id, fn + 128, 2>>), Sealed(<<id, fn + 128, 2, 0>>),
                   Sealed(<<id + 1, fn, 2, 0, 1>>), Sealed(<<id, 7 - fn, 2, 0, 1>>),
                   Sealed(<<id, fn, 2, 0, 1>>)}}

CanLine ==
    LET frame == SensorCanFrame(Sample)
    IN  {Item(SensorCanFrame(r), OverCan(r)) : r \in Readings}
          \cup {Item(f, Damaged) : f \in {[frame EXCEPT !.rtr = TRUE], [frame EXCEPT !.err = TRUE],
                                      [frame EXCEPT !.extended = TRUE], [frame EXCEPT !.dlc = 7]}}

-----------------------------------------------------------------------------
(* What read() makes of it.                                                *)
Data(item, value) == [value |-> value, valid |-> Valid(value), origin |-> item.origin]

Good(items) ==
    Cardinality({k \in DOMAIN items : items[k].origin # Damaged /\ InRange(items[k].origin)})

(* UartDevice::read().                                                     *)
UartRead(items) ==
    LET kind == [k \in DOMAIN items |->
                    CASE items[k].bytes[3] > 64 -> "length"
                      [] ~IsUartFrame(items[k].bytes) -> "crc"
                      [] ~IsSensorFrame(items[k].bytes) -> "generic"
                      [] OTHER -> "reading"]
        Number(kd) == Cardinality({k \in DOMAIN items : kind[k] = kd})
        readings == FlattenSeq([k \in DOMAIN items |->
                       IF kind[k] = "reading"
                       THEN <<Data(items[k], UartData(items[k].bytes))>> ELSE <<>>])
    IN  [data |-> readings,
         errors |-> [e \in {"crc", "length", "generic"} |-> Number(e)],
         rejected |-> readings = <<>>, frames |-> Len(items), good |-> Good(items)]

(* The result of a read() that takes one frame.                            *)
Single(item, accepted, Value(_)) ==
    [data |-> IF accepted THEN <<Data(item, Value(item.bytes))>> ELSE <<>>,
     errors |-> [crc |-> 0, length |-> 0, generic |-> 0],
     rejected |-> ~accepted, frames |-> 1, good |-> Good(<<item>>)]

(* The end of ModbusDevice::read(): registers_to_device_data() needs an Ok *)
(* response with six registers.                                            *)
ModbusRead(item) ==
    Single(item, /\ ResponseStatus(item.bytes, Request) = "Ok"
                 /\ Len(Registers(item.bytes)) >= 6,
           LAMBDA bytes : RegistersData(Registers(bytes), Request.slave_id))

(* CanDevice::read().                                                      *)
CanRead(item) == Single(item, IsCanSensorFrame(item.bytes), CanData)

UartReads == {UartRead(items) : items \in UartLine}
ModbusReads == {ModbusRead(item) : item \in ModbusLine}
CanReads == {CanRead(item) : item \in CanLine}
=============================================================================

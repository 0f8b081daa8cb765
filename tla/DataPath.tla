------------------------------ MODULE DataPath ------------------------------
(***************************************************************************)
(* The way of a reading from an adapter to the publishers: run_device()    *)
(* hands the result of a read() to the data handler and to the error       *)
(* handler of run_gateway(); the data handler publishes the valid readings *)
(* (module TcpPublisher); both count in RuntimeMetrics, one atomic         *)
(* addition at a time, while GET /metrics reads the counters one by one.   *)
(*                                                                         *)
(* What a read() can return is a parameter, computed from the bytes on the *)
(* wire by modules SensorCodec and Sensors.  Ports and reconnection are    *)
(* the subject of DeviceManager, framing of FrameParser, the timing of a   *)
(* poll of ModbusDevice.                                                   *)
(***************************************************************************)
EXTENDS TcpPublisher

CONSTANTS Uart, Modbus, Can,   \* the workers of the three adapters
          Reads,               \* worker |-> what its read() can return
          DataSheet,           \* the readings the data sheet allows
          MaxReads             \* bound on the reads of one behaviour

(* Every reading a read() can return.                                      *)
AllData == UNION {UNION {{r.data[i] : i \in DOMAIN r.data} : r \in Reads[w]} : w \in Workers}

ErrorStats == [crc : Nat, length : Nat, generic : Nat]

NoErrors == [crc |-> 0, length |-> 0, generic |-> 0]

ASSUME DataPathAssumption ==
    /\ Workers = {Uart, Modbus, Can} /\ Uart # Modbus /\ Uart # Can /\ Modbus # Can
    /\ MaxReads \in Nat

(* The shape of what a read() returns.  UartDevice::read() makes of every  *)
(* frame a reading or an error, and says ProtocolError only where there is *)
(* an error; ModbusDevice::read() and CanDevice::read() take one frame and *)
(* return its reading or ProtocolError, without statistics.                *)
ASSUME ReadsAssumption ==
    /\ \A w \in Workers : \A r \in Reads[w] :
          /\ r.data \in Seq(AllData) /\ r.errors \in ErrorStats
          /\ r.frames \in Nat /\ r.good \in Nat /\ r.rejected \in BOOLEAN
          /\ w = Uart =>
                /\ r.frames = Len(r.data) + r.errors.crc + r.errors.length + r.errors.generic
                /\ r.rejected => r.errors # NoErrors
          /\ w # Uart =>
                /\ r.frames = 1 /\ Len(r.data) <= 1 /\ r.errors = NoErrors
                /\ r.rejected <=> Len(r.data) = 0
    /\ None \notin AllData
    /\ \A d \in AllData : d.valid \in BOOLEAN

VARIABLES
    stage,      \* per worker: where it is in run_device() and the handlers
    result,     \* per worker: the DeviceReadResult it handles, or None
    pending,    \* UartDevice::pending_
    todo,       \* per worker: the additions its handler has still to make
    metrics,    \* the counters of RuntimeMetrics but the TCP outcomes
    scrape,     \* the values render_prometheus() has loaded so far
    received    \* history: reads, and the frames and faults they returned

dataVars == <<stage, result, pending, todo, metrics, scrape, received>>
allVars == <<vars, dataVars>>

Counters == {"frames_parsed", "frames_invalid", "crc_errors", "length_errors",
             "protocol_error", "modbus_error", "can_error"}

(* A faulty invalid_frame_count: frames of another kind do not count.      *)
invalid_frame_count_line(errors) == errors.crc + errors.length

(* ProtocolErrorStats::invalid_frame_count(), and total(): bytes never     *)
(* overflow (module FrameParser).                                          *)
invalid_frame_count(errors) == errors.crc + errors.length + errors.generic

To(w, where) == stage' = [stage EXCEPT ![w] = where]

(* The read() of w ends with the data d, or None, the error statistics,    *)
(* and whether run_device() is to call the error handler.                  *)
Returns(w, d, errors, report) ==
    /\ result' = [result EXCEPT ![w] = [data |-> d, errors |-> errors, report |-> report]]
    /\ To(w, "handle")

-----------------------------------------------------------------------------
(* run_device() calls read() while running_ is set.                        *)
BeginRead(w) ==
    /\ stage[w] = "loop" /\ main = "running"
    /\ received.reads < MaxReads
    /\ received' = [received EXCEPT !.reads = @ + 1]
    /\ To(w, "read")
    /\ UNCHANGED <<vars, result, pending, todo, metrics, scrape>>

(* A UART adapter first returns the readings it still has.                 *)
ReadPending(w) ==
    /\ stage[w] = "read" /\ w = Uart /\ pending # <<>>
    /\ pending' = Tail(pending)
    /\ Returns(w, Head(pending), NoErrors, FALSE)
    /\ UNCHANGED <<vars, todo, metrics, scrape, received>>

(* Otherwise the line has nothing in time, which run_device() reports for  *)
(* a Modbus device only, or fails.  To a Modbus device a poll without an   *)
(* answer and the wait for the next poll are the same here: the handler    *)
(* gets a Timeout without statistics for either, and adds one error.       *)
ReadNothing(w) ==
    /\ stage[w] = "read" /\ (w = Uart => pending = <<>>)
    /\ \E failed \in BOOLEAN :
          /\ Returns(w, None, NoErrors, failed \/ w = Modbus)
          /\ received' = IF failed \/ w = Modbus
                         THEN [received EXCEPT !.faults[w] = @ + 1] ELSE received
    /\ UNCHANGED <<vars, pending, todo, metrics, scrape>>

(* or frames: the first reading is returned, the others are kept.          *)
ReadFrames(w) ==
    /\ stage[w] = "read" /\ (w = Uart => pending = <<>>)
    /\ \E r \in Reads[w] :
          /\ Returns(w, IF r.data = <<>> THEN None ELSE Head(r.data), r.errors,
                     r.rejected \/ r.errors # NoErrors)
          /\ pending' = IF w = Uart /\ r.data # <<>> THEN Tail(r.data) ELSE pending
          /\ received' = [received EXCEPT !.frames = @ + r.frames, !.good = @ + r.good,
                                          !.generic = @ + r.errors.generic]
    /\ UNCHANGED <<vars, todo, metrics, scrape>>

-----------------------------------------------------------------------------
(* The handlers.  An addition is <<counter, amount>>; where the code makes *)
(* none because the amount is zero or the protocol another one, there is   *)
(* an addition of zero.                                                    *)

(* The data handler, up to the publication.                                *)
DataAdditions(d) ==
    <<<<"frames_parsed", 1>>, <<"protocol_error", IF d.valid THEN 0 ELSE 1>>>>

ProtocolErrors(errors) == IF errors = NoErrors THEN 1 ELSE invalid_frame_count(errors)

(* A faulty ErrorAdditions: the sum is counted before its parts.           *)
ErrorAdditionsSumFirst(w, errors) ==
    <<<<"frames_invalid", invalid_frame_count(errors)>>,
      <<"crc_errors", errors.crc>>, <<"length_errors", errors.length>>,
      <<"protocol_error", ProtocolErrors(errors)>>,
      <<"modbus_error", IF w = Modbus THEN ProtocolErrors(errors) ELSE 0>>,
      <<"can_error", IF w = Can THEN ProtocolErrors(errors) ELSE 0>>>>

(* The error handler.                                                      *)
ErrorAdditions(w, errors) ==
    <<<<"crc_errors", errors.crc>>, <<"length_errors", errors.length>>,
      <<"frames_invalid", invalid_frame_count(errors)>>,
      <<"protocol_error", ProtocolErrors(errors)>>,
      <<"modbus_error", IF w = Modbus THEN ProtocolErrors(errors) ELSE 0>>,
      <<"can_error", IF w = Can THEN ProtocolErrors(errors) ELSE 0>>>>

(* run_device() has the result: the data handler is called when there are  *)
(* data,                                                                   *)
HandleData(w) ==
    /\ stage[w] = "handle" /\ result[w].data # None
    /\ todo' = [todo EXCEPT ![w] = DataAdditions(result[w].data)]
    /\ To(w, "data")
    /\ UNCHANGED <<vars, result, pending, metrics, scrape, received>>

(* then the error handler when there is something to report, whether or    *)
(* not there were data;                                                    *)
HandleError(w) ==
    /\ \/ stage[w] = "handle" /\ result[w].data = None
       \/ stage[w] = "handled"
    /\ result[w].report
    /\ todo' = [todo EXCEPT ![w] = ErrorAdditions(w, result[w].errors)]
    /\ To(w, "errors")
    /\ UNCHANGED <<vars, result, pending, metrics, scrape, received>>

(* and the loop goes round.                                                *)
EndIteration(w) ==
    /\ \/ stage[w] = "handle" /\ result[w].data = None /\ ~result[w].report
       \/ stage[w] = "handled" /\ ~result[w].report
       \/ stage[w] = "errors" /\ todo[w] = <<>>
    /\ result' = [result EXCEPT ![w] = None]
    /\ To(w, "loop")
    /\ UNCHANGED <<vars, pending, todo, metrics, scrape, received>>

(* One fetch_add().                                                        *)
Add(w) ==
    /\ todo[w] # <<>>
    /\ metrics' = [metrics EXCEPT ![Head(todo[w])[1]] = @ + Head(todo[w])[2]]
    /\ todo' = [todo EXCEPT ![w] = Tail(@)]
    /\ UNCHANGED <<vars, stage, result, pending, scrape, received>>

(* publish_sensor_data() publishes a valid reading; messages are numbered  *)
(* in the order in which they come up.                                     *)
publish_sensor_data(w) ==
    /\ stage[w] = "data" /\ todo[w] = <<>>
    /\ IF result[w].data.valid
       THEN /\ \E k \in Messages :
                  /\ \A j \in 1..(k - 1) : outcome[j] # None \/ \E v \in Workers : message[v] = j
                  /\ publish(w, k)
            /\ To(w, "publish")
       ELSE To(w, "handled") /\ UNCHANGED vars
    /\ UNCHANGED <<result, pending, todo, metrics, scrape, received>>

(* Its steps inside PublisherGroup and TcpPublisher, the last one the      *)
(* count of the outcome.                                                   *)
Publishing(w) ==
    /\ stage[w] = "publish"
    /\ \/ (MqttDone(w) \/ Lock(w) \/ Connect(w) \/ ConnectFails(w) \/ Send(w)
             \/ SendFails(w) \/ SendDone(w)) /\ UNCHANGED stage
       \/ Record(w) /\ To(w, "handled")
    /\ UNCHANGED <<result, pending, todo, metrics, scrape, received>>

-----------------------------------------------------------------------------
(* The counters a property compares, in the order in which                 *)
(* render_prometheus() loads them.                                         *)
RenderOrder == <<"frames_invalid", "crc_errors", "length_errors">>

(* One load() of render_prometheus(), on the HTTP thread; a response is    *)
(* forgotten when the next one is begun.                                   *)
render_prometheus ==
    /\ main = "running"
    /\ scrape' = IF Len(scrape) = Len(RenderOrder) THEN <<>>
                 ELSE Append(scrape, metrics[RenderOrder[Len(scrape) + 1]])
    /\ UNCHANGED <<vars, stage, result, pending, todo, metrics, received>>

-----------------------------------------------------------------------------
(* The end of run_gateway(): http_server->stop() and device_manager.stop() *)
Shutdown ==
    /\ StopDevices
    /\ scrape' = <<>>
    /\ UNCHANGED <<stage, result, pending, todo, metrics, received>>

(* A faulty JoinWorkers: the workers are not waited for.                   *)
JoinWorkersEarly ==
    /\ main = "joining"
    /\ main' = "joined"
    /\ UNCHANGED <<mutex, pc, message, sent, socket_fd, streams, outcome, counted>>
    /\ UNCHANGED dataVars

(* which joins the workers, each after the iteration it is in.             *)
JoinWorkers ==
    /\ Join /\ \A w \in Workers : stage[w] = "loop"
    /\ UNCHANGED dataVars

CloseConnection == disconnect /\ UNCHANGED dataVars

DataInit ==
    /\ Init
    /\ stage = [w \in Workers |-> "loop"]
    /\ result = [w \in Workers |-> None]
    /\ pending = <<>>
    /\ todo = [w \in Workers |-> <<>>]
    /\ metrics = [c \in Counters |-> 0]
    /\ scrape = <<>>
    /\ received = [reads |-> 0, frames |-> 0, good |-> 0, generic |-> 0,
                   faults |-> [w \in Workers |-> 0]]

DataWorker(w) ==
    \/ BeginRead(w) \/ ReadPending(w) \/ ReadNothing(w) \/ ReadFrames(w)
    \/ HandleData(w) \/ HandleError(w) \/ EndIteration(w) \/ Add(w)
    \/ publish_sensor_data(w) \/ Publishing(w)

DataNext ==
    \/ \E w \in Workers : DataWorker(w)
    \/ render_prometheus
    \/ Shutdown \/ JoinWorkers \/ CloseConnection
    \/ Finished /\ UNCHANGED dataVars

DataSpec == DataInit /\ [][DataNext]_allVars

-----------------------------------------------------------------------------
(* What is being published is what an undamaged frame of a sensor said,    *)
(* as far as its protocol can say it, and within the ranges of the data    *)
(* sheet: publish_sensor_data() is reached by nothing else, whatever was   *)
(* altered on a line and whatever other readings wait in pending_.         *)
PublishedAsMeasured ==
    \A w \in Workers : message[w] # None =>
        LET d == result[w].data IN d.origin \in DataSheet /\ d.value = d.origin

Rest == \A w \in Workers : stage[w] = "loop"

Outcomes == counted["Published"] + counted["Failed"]

(* Between two iterations of run_device() every undamaged frame with a     *)
(* reading in range has been published once, or waits in pending_, and     *)
(* the two TCP counters are the numbers of messages with each outcome.     *)
GoodFramesPublished ==
    Rest => /\ Outcomes + Len(pending) = received.good
            /\ \A s \in {"Published", "Failed"} :
                  counted[s] = Cardinality({k \in Messages : outcome[k] = s})

(* Nothing falls between the counters of /metrics and nothing is counted   *)
(* twice: between two iterations a frame received has been counted as      *)
(* parsed, as invalid or as an error of its protocol, a Timeout of Modbus  *)
(* (a wait between two polls is one too) and a lost port of Modbus or CAN  *)
(* as an error of the protocol, and everything that was not published is   *)
(* one protocol error.                                                     *)
EveryFrameCounted ==
    Rest =>
      /\ metrics["frames_parsed"] + metrics["frames_invalid"] + metrics["modbus_error"]
            + metrics["can_error"] + Len(pending)
           = received.frames + received.faults[Modbus] + received.faults[Can]
      /\ metrics["protocol_error"] + Outcomes + Len(pending)
           = received.frames + received.faults[Uart] + received.faults[Modbus]
                + received.faults[Can]

(* A response of GET /metrics never shows an invalid frame without its     *)
(* cause: a checksum or length error in the same response, or a frame of   *)
(* another kind or out of range.  The handler adds the causes first and    *)
(* render_prometheus() loads them last, and both orders are needed.        *)
ScrapeExplained ==
    Len(scrape) = Len(RenderOrder) =>
        scrape[1] <= scrape[2] + scrape[3] + received.generic

-----------------------------------------------------------------------------
(* The inductive invariant behind them, with TcpIInv.                      *)

Results == [data : AllData \cup {None}, errors : ErrorStats, report : BOOLEAN]

Receipts == [reads : Nat, frames : Nat, good : Nat, generic : Nat, faults : [Workers -> Nat]]

Stages == {"loop", "read", "handle", "data", "publish", "handled", "errors"}

DataTypeOK ==
    /\ stage \in [Workers -> Stages]
    /\ \A w \in Workers : stage[w] \notin {"loop", "read"} => result[w] \in Results
    /\ DOMAIN result = Workers
    /\ pending \in Seq(AllData)
    /\ todo \in [Workers -> Seq(Counters \X Nat)]
    /\ metrics \in [Counters -> Nat]
    /\ scrape \in Seq(Nat)
    /\ received \in Receipts

(* What is left to do is the end of the handler's additions.               *)
Remaining(left, additions) ==
    /\ Len(left) <= Len(additions)
    /\ \A i \in 1..Len(left) : left[i] = additions[Len(additions) - Len(left) + i]

(* Where a worker is in the handlers says what it has, and whether it is   *)
(* in the publisher.                                                       *)
WorkerSound(w) ==
    /\ stage[w] = "publish" <=> pc[w] # "idle"
    /\ stage[w] \notin {"data", "errors"} => todo[w] = <<>>
    /\ stage[w] \in {"data", "publish", "handled"} => result[w].data # None
    /\ stage[w] = "data" => Remaining(todo[w], DataAdditions(result[w].data))
    /\ stage[w] = "publish" => result[w].data.valid
    /\ stage[w] = "errors" => /\ result[w].report
                              /\ Remaining(todo[w], ErrorAdditions(w, result[w].errors))
    /\ stage[w] \notin {"loop", "read"} =>
          /\ ~result[w].report => result[w].errors = NoErrors
          /\ w # Uart => /\ result[w].errors = NoErrors
                         /\ result[w].report => result[w].data = None

(* The additions the two handlers have still to make of the result at hand.*)
DataLeft(w) ==
    CASE stage[w] = "handle" /\ result[w].data # None -> 2
      [] stage[w] = "data" -> Len(todo[w])
      [] OTHER -> 0

ErrorsLeft(w) ==
    CASE stage[w] \in {"handle", "data", "publish", "handled"} /\ result[w].report -> 6
      [] stage[w] = "errors" -> Len(todo[w])
      [] OTHER -> 0

If(condition, amount) == IF condition THEN amount ELSE 0

(* What they come to, for each of the sums that are in balance: the        *)
(* invalid frames over their causes; the frames and faults as they are     *)
(* counted; the readings on their way to an outcome; and the frames and    *)
(* faults as they end, in an error or in an outcome.                       *)
ExcessDue == [w \in Workers |->
    If(ErrorsLeft(w) >= 4,
       invalid_frame_count(result[w].errors) - If(ErrorsLeft(w) >= 6, result[w].errors.crc)
         - If(ErrorsLeft(w) >= 5, result[w].errors.length))]

CountDue == [w \in Workers |->
    If(DataLeft(w) = 2, 1)
      + If(ErrorsLeft(w) >= 4, invalid_frame_count(result[w].errors))
      + If(w = Modbus /\ ErrorsLeft(w) >= 2, ProtocolErrors(result[w].errors))
      + If(w = Can /\ ErrorsLeft(w) >= 1, ProtocolErrors(result[w].errors))]

OutcomeDue == [w \in Workers |->
    If(stage[w] \in {"handle", "data", "publish"} /\ result[w].data # None
         /\ result[w].data.valid, 1)]

EndDue == [w \in Workers |->
    If(DataLeft(w) >= 1 /\ ~result[w].data.valid, 1)
      + If(ErrorsLeft(w) >= 3, ProtocolErrors(result[w].errors)) + OutcomeDue[w]]

Total(f) == f[Uart] + f[Modbus] + f[Can]

(* The properties at every step, with what is due.                         *)
FramesCounted == metrics["frames_parsed"] + metrics["frames_invalid"] + metrics["modbus_error"]
                   + metrics["can_error"] + Len(pending)

FramesReceived == received.frames + received.faults[Modbus] + received.faults[Can]

FramesBalance == FramesCounted + Total(CountDue) = FramesReceived

Ended == metrics["protocol_error"] + Outcomes + Len(pending)

EndsReceived == received.frames + Total(received.faults)

EndsBalance == Ended + Total(EndDue) = EndsReceived

Causes == metrics["crc_errors"] + metrics["length_errors"] + received.generic

Invalid == metrics["frames_invalid"]

CausesBalance == Invalid + Total(ExcessDue) = Causes

(* A scrape is behind the counters it has still to load.                   *)
ScrapeSound ==
    /\ Len(scrape) <= 3
    /\ Len(scrape) = 1 => scrape[1] <= Causes
    /\ Len(scrape) = 2 => scrape[1] <= scrape[2] + metrics["length_errors"] + received.generic
    /\ Len(scrape) = 3 => scrape[1] <= scrape[2] + scrape[3] + received.generic

DataIInv == /\ TcpIInv /\ DataTypeOK /\ \A w \in Workers : WorkerSound(w)
            /\ FramesBalance /\ EndsBalance /\ CausesBalance /\ ScrapeSound

(* What the codecs promise: a valid reading is what the sensor measured,   *)
(* the UART adapter returns valid readings only, and every undamaged frame *)
(* with a reading in range gives one.                                      *)
CodecSound ==
    /\ \A d \in AllData : d.valid => d.origin \in DataSheet /\ d.value = d.origin
    /\ \A r \in Reads[Uart] : /\ r.good = Len(r.data)
                              /\ \A i \in DOMAIN r.data : r.data[i].valid
    /\ \A w \in Workers \ {Uart} : \A r \in Reads[w] :
          r.good = If(Len(r.data) = 1 /\ r.data[1].valid, 1)

(* Then the good frames are in balance as well.                            *)
GoodReceived == received.good

GoodCounted == Outcomes + Len(pending)

GoodBalance ==
    /\ \A i \in DOMAIN pending : pending[i].valid
    /\ GoodCounted + Total(OutcomeDue) = GoodReceived
=============================================================================

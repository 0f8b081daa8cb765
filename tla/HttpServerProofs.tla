--------------------------- MODULE HttpServerProofs ---------------------------
(***************************************************************************)
(* The HTTP server and the life of the process, proved for any number of   *)
(* clients and of input devices.                                           *)
(***************************************************************************)
EXTENDS HttpServer, TLAPS

(* Most leaves need SMT; each is tried again with more time where the      *)
(* first attempts find no proof.                                           *)
USE SMTT(15), SMTT(30), ZenonT(20), SMTT(60)

(* A response of which nothing has been read yet.                          *)
LEMMA NothingRead ==
    /\ NoResponse \in [code : {None, 200, 404, 503}, ready : Bool, started : Bool,
                       total : 0..(2 * Inputs) \cup {None}, online : Number,
                       offline : Number, statuses : Number]
    /\ \A field \in {"code", "ready", "started", "total", "online", "offline", "statuses"} :
          NoResponse[field] = None
  BY DEF NoResponse, Bool, Number

-----------------------------------------------------------------------------
(* The main thread.                                                        *)

(* While a request is handled main may set the flag and the counts: the    *)
(* histories record it, and what has been read so far stays valid for as   *)
(* long as overlap is FALSE.                                               *)
LEMMA StatusKept ==
    ASSUME IInv, UNCHANGED <<running, listening, serverVars, clientVars>>,
           server # "none", TypeOK', LifeSound', CountsSound', HistorySound',
           wasUp => wasUp', wasDown => wasDown',
           overlap' \/ UNCHANGED <<online, offline, total, statuses, overlap>>
    PROVE  IInv'
  <1>1. ClientSound'
    BY DEF IInv, ClientSound, serverVars, clientVars
  <1>2. ResponseSound'
    BY DEF IInv, ResponseSound, HealthResponseSound, ReadyResponseSound, Has, serverVars,
           clientVars
  <1> QED  BY <1>1, <1>2 DEF IInv

LEMMA StartServerKeeps == ASSUME IInv, StartServer PROVE IInv'
  <1> USE DEF IInv, StartServer, MainStep, statusVars, clientVars
  <1>1. server = "none" /\ client = None /\ response = NoResponse
    BY DEF LifeSound, ClientSound, ResponseSound
  <1>2. TypeOK'
    BY DEF TypeOK
  <1>3. ClientSound' /\ ResponseSound'
    BY <1>1 DEF ClientSound, ResponseSound
  <1>4. LifeSound' /\ CountsSound' /\ HistorySound'
    BY DEF LifeSound, CountsSound, HistorySound, Updating
  <1> QED  BY <1>2, <1>3, <1>4

LEMMA StartFailsKeeps == ASSUME IInv, StartFails PROVE IInv'
  <1> USE DEF IInv, StartFails, MainStep, statusVars, serverVars, clientVars
  <1>1. TypeOK' /\ LifeSound' /\ ClientSound'
    BY DEF TypeOK, LifeSound, ClientSound
  <1>2. CountsSound' /\ HistorySound' /\ ResponseSound'
    BY DEF CountsSound, HistorySound, Updating, LifeSound, ResponseSound
  <1> QED  BY <1>1, <1>2

(* Between the start of the server and stop() the steps of main are about  *)
(* the device status only.                                                 *)
LEMMA StatusStepsKeep ==
    ASSUME IInv,
           \/ StartDevices \/ SetOnline \/ SetOffline \/ SetTotal \/ SetStatuses
           \/ WorkersStarted \/ IntervalOver \/ WorkersStopped
    PROVE  IInv'
  <1> USE DEF MainStep, statusVars
  <1>1. /\ server # "none"
        /\ UNCHANGED <<running, listening, serverVars, clientVars>>
    BY DEF IInv, LifeSound, StartDevices, SetOnline, SetOffline, SetTotal, SetStatuses,
           WorkersStarted, IntervalOver, WorkersStopped, SetStarted
  <1>2. TypeOK'
    <2>1. /\ UNCHANGED <<shutdown_flag, running, listening, server, client, response,
                         conn, request>>
          /\ main' \in {"online", "offline", "total", "statuses", "started", "loop", "stop"}
      BY <1>1 DEF StartDevices, SetOnline, SetOffline, SetTotal, SetStatuses,
           WorkersStarted, IntervalOver, WorkersStopped, SetStarted, serverVars, clientVars
    <2>2. /\ online' \in 0..Inputs /\ offline' \in 0..Inputs
          /\ statuses' \in 0..Inputs /\ total' \in 0..(2 * Inputs)
      BY HttpAssumption DEF IInv, TypeOK, StartDevices, SetOnline, SetOffline, SetTotal,
           SetStatuses, WorkersStarted, IntervalOver, WorkersStopped, SetStarted
    <2>3. /\ workers_started' \in BOOLEAN /\ wasUp' \in BOOLEAN /\ wasDown' \in BOOLEAN
          /\ overlap' \in BOOLEAN
      BY ZenonT(60) DEF IInv, TypeOK, StartDevices, SetOnline, SetOffline, SetTotal,
           SetStatuses, WorkersStarted, IntervalOver, WorkersStopped, SetStarted
    <2> QED  BY <2>1, <2>2, <2>3 DEF IInv, TypeOK
  <1>3. LifeSound'
    BY <1>1, ZenonT(60) DEF IInv, LifeSound, StartDevices, SetOnline, SetOffline, SetTotal, SetStatuses,
           WorkersStarted, IntervalOver, WorkersStopped, serverVars
  <1>4. CountsSound'
    BY HttpAssumption DEF IInv, CountsSound, TypeOK, Updating, StartDevices, SetOnline,
           SetOffline, SetTotal, SetStatuses, WorkersStarted, IntervalOver, WorkersStopped,
           SetStarted
  <1>5. /\ HistorySound' /\ (wasUp => wasUp') /\ (wasDown => wasDown')
        /\ overlap' \/ UNCHANGED <<online, offline, total, statuses, overlap>>
    BY <1>1 DEF IInv, HistorySound, TypeOK, Updating, StartDevices, SetOnline, SetOffline,
           SetTotal, SetStatuses, WorkersStarted, IntervalOver, WorkersStopped, SetStarted,
           serverVars
  <1> QED  BY <1>1, <1>2, <1>3, <1>4, <1>5, StatusKept

(* HttpServer::stop(), and the signal: neither touches the status or what  *)
(* the server thread works on.                                             *)
LEMMA StopKeeps ==
    ASSUME IInv, StopRunning \/ StopClose \/ StopJoin \/ handle_shutdown_signal
    PROVE  IInv'
  <1> USE DEF MainStep, statusVars, serverVars, clientVars
  <1>1. /\ UNCHANGED <<statusVars, serverVars, clientVars>>
        /\ main' \in {"close", "join", "exit"} \/ UNCHANGED main
        /\ Updating' = Updating
    BY DEF StopRunning, StopClose, StopJoin, handle_shutdown_signal, Updating
  <1>2. TypeOK'
    <2>1. CASE StopRunning
      <3>1. running' \in BOOLEAN
        BY <2>1, ZenonT(60) DEF StopRunning
      <3> QED  BY <2>1, <1>1, <3>1 DEF IInv, TypeOK, StopRunning
    <2>2. CASE StopClose
      <3>1. listening' \in BOOLEAN
        BY <2>2, ZenonT(60) DEF StopClose
      <3> QED  BY <2>2, <1>1, <3>1 DEF IInv, TypeOK, StopClose
    <2>3. CASE StopJoin
      BY <2>3, <1>1 DEF IInv, TypeOK, StopJoin
    <2>4. CASE handle_shutdown_signal
      BY <2>4, <1>1 DEF IInv, TypeOK, handle_shutdown_signal
    <2> QED  BY <2>1, <2>2, <2>3, <2>4
  <1>3. LifeSound'
    BY DEF IInv, LifeSound, TypeOK, StopRunning, StopClose, StopJoin, handle_shutdown_signal
  <1>4. ClientSound' /\ HistorySound' /\ CountsSound'
    BY <1>1 DEF IInv, ClientSound, HistorySound, CountsSound, Updating
  <1>5. ResponseSound'
    BY <1>1 DEF IInv, ResponseSound, HealthResponseSound, ReadyResponseSound, Has
  <1> QED  BY <1>2, <1>3, <1>4, <1>5 DEF IInv

-----------------------------------------------------------------------------
(* The server thread.                                                      *)

(* A step of its loop or of the wait that touches no connection.           *)
LEMMA LoopKeeps ==
    ASSUME IInv,
           \/ Check \/ AcceptFails \/ AcceptClosed \/ Wait \/ PollReady \/ PollTimeout
    PROVE  IInv'
  <1>1. /\ UNCHANGED <<mainVars, running, listening, client, response, clientVars>>
        /\ \/ /\ server \in {"check", "accept"}
              /\ server' \in {"check", "accept", "exited"}
           \/ server \in {"wait", "poll"} /\ server' \in {"wait", "poll", "recv"}
        /\ main = "exit" => FALSE
    BY DEF Check, AcceptFails, AcceptClosed, Wait, PollReady, PollTimeout, ServerStep, IInv,
           LifeSound
  <1> USE <1>1 DEF IInv, mainVars, statusVars, clientVars
  <1>2. TypeOK' /\ LifeSound' /\ ClientSound'
    BY DEF TypeOK, LifeSound, ClientSound
  <1>3. CountsSound' /\ HistorySound' /\ ResponseSound'
    BY DEF CountsSound, HistorySound, Updating, ResponseSound
  <1> QED  BY <1>2, <1>3

LEMMA AcceptKeeps == ASSUME IInv, NEW c \in Clients, Accept(c) PROVE IInv'
  <1> USE HttpAssumption DEF IInv, Accept, ServerStep, mainVars, statusVars
  <1>1. TypeOK' /\ LifeSound'
    BY DEF TypeOK, LifeSound
  <1>2. ClientSound'
    BY DEF ClientSound, TypeOK
  <1>3. CountsSound' /\ HistorySound' /\ ResponseSound'
    BY DEF CountsSound, HistorySound, Updating, ResponseSound
  <1> QED  BY <1>1, <1>2, <1>3

(* Whichever way handle_client() ends, the connection is closed and the    *)
(* response forgotten.                                                     *)
LEMMA CloseKeeps == ASSUME IInv, PollFails \/ Drop \/ SendResponse PROVE IInv'
  <1> USE HttpAssumption DEF IInv, mainVars, statusVars
  <1>1. CloseClient /\ server \in {"poll", "recv", "send"} /\ server' = "check"
    BY DEF PollFails, Drop, SendResponse, ServerStep
  <1>2. TypeOK'
    <2>1. response' = NoResponse /\ client' = None
          /\ UNCHANGED <<mainVars, running, listening, request>>
      BY <1>1 DEF CloseClient
    <2>2. conn' \in [Clients -> {"none", "queued", "open", "closed"}]
      BY <1>1, ZenonT(60) DEF CloseClient, TypeOK
    <2> QED  BY <1>1, <2>1, <2>2, NothingRead DEF TypeOK
  <1>3. LifeSound' /\ ClientSound'
    BY <1>1 DEF LifeSound, ClientSound, TypeOK, CloseClient
  <1>4. CountsSound' /\ HistorySound' /\ ResponseSound'
    BY <1>1 DEF CountsSound, HistorySound, Updating, ResponseSound, CloseClient
  <1> QED  BY <1>2, <1>3, <1>4

(* With the request the histories begin anew, and no field has been read.  *)
LEMMA ReceiveKeeps == ASSUME IInv, Receive PROVE IInv'
  <1> USE DEF IInv, Receive, ServerStep, clientVars
  <1>1. TypeOK' /\ LifeSound' /\ ClientSound'
    BY DEF TypeOK, LifeSound, ClientSound
  <1>2. CountsSound' /\ HistorySound'
    BY ZenonT(60) DEF CountsSound, HistorySound, Updating
  <1>3. response' = NoResponse /\ server' = "read"
    BY DEF ResponseSound
  <1>4. ResponseSound'
    BY <1>3, NothingRead, HttpAssumption
       DEF ResponseSound, HealthResponseSound, ReadyResponseSound, Has
  <1> QED  BY <1>1, <1>2, <1>4

(* A read of the status changes the response and nothing else.             *)
LEMMA ReadKeeps ==
    ASSUME IInv, server = "read", server' \in {"read", "send"}, TypeOK',
           UNCHANGED <<mainVars, running, listening, client, clientVars>>,
           request[client] = "/health" => HealthResponseSound',
           request[client] = "/ready" => ReadyResponseSound'
    PROVE  IInv'
  <1> USE DEF IInv, mainVars, statusVars, clientVars
  <1>1. LifeSound' /\ ClientSound'
    BY DEF LifeSound, ClientSound
  <1>2. CountsSound' /\ HistorySound'
    BY DEF CountsSound, HistorySound, Updating
  <1>3. ResponseSound'
    BY DEF ResponseSound
  <1> QED  BY <1>1, <1>2, <1>3

(* Each field of /health is read after the one before it, from the status  *)
(* as it is.                                                               *)
LEMMA ReadHealthKeeps == ASSUME IInv, ReadHealth PROVE IInv'
  <1> USE HttpAssumption DEF ReadHealth, Requested, Read, ServerStep
  <1>1. /\ server = "read" /\ server' \in {"read", "send"}
        /\ request[client] = "/health"
        /\ UNCHANGED <<mainVars, running, listening, client, clientVars>>
    OBVIOUS
  <1>2. TypeOK'
    BY DEF IInv, TypeOK, Bool, Number, mainVars, statusVars, clientVars
  <1>3. HealthResponseSound'
    BY DEF IInv, TypeOK, ResponseSound, HealthResponseSound, Has, mainVars, statusVars
  <1> QED  BY <1>1, <1>2, <1>3, ReadKeeps

(* The code of /ready is taken from the flag while the histories cover it. *)
LEMMA ReadReadyKeeps == ASSUME IInv, ReadReady PROVE IInv'
  <1> USE HttpAssumption DEF ReadReady, Requested, Read, ServerStep
  <1>1. /\ server = "read" /\ server' \in {"read", "send"}
        /\ request[client] = "/ready"
        /\ UNCHANGED <<mainVars, running, listening, client, clientVars>>
    OBVIOUS
  <1>2. TypeOK'
    BY DEF IInv, TypeOK, Bool, Number, mainVars, statusVars, clientVars
  <1>3. ReadyResponseSound'
    BY DEF IInv, TypeOK, ResponseSound, ReadyResponseSound, HistorySound, Has, mainVars,
           statusVars
  <1> QED  BY <1>1, <1>2, <1>3, ReadKeeps

LEMMA ReadOtherKeeps == ASSUME IInv, ReadOther PROVE IInv'
  <1> USE HttpAssumption DEF ReadOther, Requested, Read, ServerStep
  <1>1. /\ server = "read" /\ server' \in {"read", "send"}
        /\ request[client] = "other"
        /\ UNCHANGED <<mainVars, running, listening, client, clientVars>>
    OBVIOUS
  <1>2. TypeOK'
    BY DEF IInv, TypeOK, Bool, Number, mainVars, statusVars, clientVars
  <1> QED  BY <1>1, <1>2, ReadKeeps

-----------------------------------------------------------------------------
(* The clients: they never touch a connection that is being handled, other *)
(* than to send what it waits for.                                         *)
LEMMA ClientsKeep ==
    ASSUME IInv, NEW c \in Clients, ClientConnects(c) \/ ClientSends(c)
    PROVE  IInv'
  <1> USE HttpAssumption DEF IInv, ClientConnects, ClientSends, mainVars, statusVars, serverVars
  <1>1. TypeOK'
    BY DEF TypeOK, Paths
  <1>2. LifeSound' /\ CountsSound' /\ HistorySound'
    BY DEF LifeSound, CountsSound, HistorySound, Updating
  <1>3. ClientSound'
    BY DEF ClientSound, TypeOK
  <1>4. server \in {"read", "send"} => request'[client] = request[client]
    BY DEF ClientSound, TypeOK, Paths
  <1>5. ResponseSound'
    BY <1>4 DEF ResponseSound, HealthResponseSound, ReadyResponseSound, Has
  <1> QED  BY <1>1, <1>2, <1>3, <1>5

LEMMA InitIInv == Init => IInv
  <1> SUFFICES ASSUME Init PROVE IInv
    OBVIOUS
  <1> USE HttpAssumption DEF Init
  <1>1. TypeOK
    <2>1. /\ FALSE \in BOOLEAN /\ TRUE \in BOOLEAN
          /\ 0 \in 0..Inputs /\ 0 \in 0..(2 * Inputs)
      OBVIOUS
    <2>2. /\ conn \in [Clients -> {"none", "queued", "open", "closed"}]
          /\ request \in [Clients -> Paths \cup {None, "eof"}]
      OBVIOUS
    <2> QED  BY <2>1, <2>2, NothingRead, ZenonT(60) DEF TypeOK
  <1>2. LifeSound /\ ClientSound /\ CountsSound /\ HistorySound /\ ResponseSound
    BY DEF LifeSound, ClientSound, CountsSound, HistorySound, Updating, ResponseSound
  <1> QED  BY <1>1, <1>2 DEF IInv

LEMMA NextIInv == IInv /\ [Next]_vars => IInv'
  <1> SUFFICES ASSUME IInv, [Next]_vars PROVE IInv'
    OBVIOUS
  <1>1. CASE UNCHANGED vars
    BY <1>1 DEF vars, mainVars, statusVars, serverVars, clientVars, IInv, TypeOK, LifeSound,
           ClientSound, CountsSound, HistorySound, Updating, ResponseSound,
           HealthResponseSound, ReadyResponseSound, Has
  <1>2. CASE MainThread
    BY <1>2, StartServerKeeps, StartFailsKeeps, StatusStepsKeep, StopKeeps DEF MainThread
  <1>3. CASE handle_shutdown_signal
    BY <1>3, StopKeeps
  <1>4. CASE Server
    BY <1>4, LoopKeeps, AcceptKeeps, CloseKeeps, ReceiveKeeps, ReadHealthKeeps,
       ReadReadyKeeps, ReadOtherKeeps DEF Server
  <1>5. CASE \E c \in Clients : ClientConnects(c) \/ ClientSends(c)
    BY <1>5, ClientsKeep
  <1> QED  BY <1>1, <1>2, <1>3, <1>4, <1>5 DEF Next, Finished

-----------------------------------------------------------------------------
(* The invariant holds in every state of the process.                      *)
THEOREM Invariance == Spec => []IInv
  BY InitIInv, NextIInv, PTL DEF Spec

(* The variables of the server and of RuntimeStatus keep their types.      *)
THEOREM TypeCorrect == Spec => []TypeOK
  <1>1. IInv => TypeOK
    BY DEF IInv
  <1> QED  BY <1>1, Invariance, PTL

(* The code of a /ready response was true at a moment of its handling.     *)
THEOREM ReadinessCurrent == Spec => []ReadyCurrent
  <1>1. IInv => ReadyCurrent
    BY HttpAssumption
       DEF IInv, ReadyCurrent, Sending, ResponseSound, ReadyResponseSound, Has
  <1> QED  BY <1>1, Invariance, PTL

(* A /health response that no update of the device status overlaps has     *)
(* fields that agree with each other.                                      *)
THEOREM HealthAgrees == Spec => []HealthConsistent
  <1>1. IInv => HealthConsistent
    BY DEF IInv, HealthConsistent, Sending, ResponseSound, HealthResponseSound, Has,
           HistorySound, CountsSound
  <1> QED  BY <1>1, Invariance, PTL

(* The server closes every connection it accepts, and nothing of it is     *)
(* left when the process exits.                                            *)
THEOREM NoConnectionLeaks == Spec => []ConnectionsClosed
  <1>1. IInv => ConnectionsClosed
    BY DEF IInv, ConnectionsClosed, ClientSound, LifeSound
  <1> QED  BY <1>1, Invariance, PTL
=============================================================================

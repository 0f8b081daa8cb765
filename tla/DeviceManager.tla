---------------------------- MODULE DeviceManager ----------------------------
(***************************************************************************)
(* device::DeviceManager: one worker thread per input device, and the main *)
(* thread that starts and stops them.                                      *)
(*                                                                         *)
(* A device is what the three adapters have in common: a descriptor fd_    *)
(* that start() opens, read() polls and reads, and stop() closes.  fd_ is  *)
(* a plain int, and during shutdown the main thread calls stop() on a      *)
(* device whose worker may be anywhere in run_device(): the load and the   *)
(* store of close_port() are steps of their own, for both threads.         *)
(*                                                                         *)
(* port is the kernel's descriptor table: the device whose port a          *)
(* descriptor refers to.                                                   *)
(***************************************************************************)
EXTENDS Naturals, FiniteSets

CONSTANTS Devices,          \* devices_, one worker each
          Uart, Modbus,     \* the UART and the Modbus RTU devices; the others are CAN
          Fds,              \* the descriptors the process may open
          Main, None

ASSUME DeviceAssumption == /\ Uart \subseteq Devices /\ Modbus \subseteq Devices
                           /\ Uart \cap Modbus = {}
                           /\ Main \notin Devices
                           /\ None \notin Devices \cup Fds

Threads == Devices \cup {Main}

VARIABLES
    running,     \* running_
    pc,          \* where each thread is
    started,     \* run_device's local, per worker
    code,        \* the result a worker is handling: of start() or of read()
    fd,          \* fd_ of each device's port
    port,        \* the kernel's table
    online,      \* status_.online
    pending,     \* pending_ of a UART device holds parsed frames
    stopping,    \* devices whose stop() the main thread has still to call
    target       \* the device whose stop() it is in

vars == <<running, pc, started, code, fd, port, online, pending, stopping, target>>

WorkerStates == {"none", "check", "open", "configure", "read", "poll",
                 "untimed", "ignored", "receive", "handle",
                 "sleep", "close", "store", "offline", "exited"}
MainStates == {"idle", "serve", "next", "close", "store", "offline", "join", "stopped"}
(* Data, ProtocolError, Timeout and TransportError of read(); a transport  *)
(* error that has been handled; a failed start(); the exit from the loop.  *)
Codes == {"none", "data", "protocol", "timeout", "transport", "lost", "start", "exit"}

Goto(t, state) == pc' = [pc EXCEPT ![t] = state]
(* The result a worker has got, and where it goes with it.                 *)
Got(d, c, state) == /\ code' = [code EXCEPT ![d] = c]
                    /\ Goto(d, state)

(* The device a thread's stop() is about.                                  *)
Dev(t) == IF t = Main THEN target ELSE t

Closed(table, f) == IF f = None THEN table ELSE [table EXCEPT ![f] = None]

-----------------------------------------------------------------------------
(* stop() of an adapter: close_port(), then the status.  Both threads run  *)
(* it; t is the thread.                                                    *)
CloseFd(t) ==
    /\ pc[t] = "close"
    /\ port' = Closed(port, fd[Dev(t)])
    /\ Goto(t, IF fd[Dev(t)] = None THEN "offline" ELSE "store")
    /\ UNCHANGED <<running, started, code, fd, online, pending, stopping, target>>

StoreFd(t) ==
    /\ pc[t] = "store"
    /\ fd' = [fd EXCEPT ![Dev(t)] = None]
    /\ Goto(t, IF t # Main /\ code[t] = "start" THEN "handle" ELSE "offline")
    /\ UNCHANGED <<running, started, code, port, online, pending, stopping, target>>

(* The end of stop().  A worker leaves its loop, or has a transport error  *)
(* to handle, or has handled it; the adapters' read() and run_device()     *)
(* both call stop(), and the second call finds the port closed.            *)
Offline(t) ==
    /\ pc[t] = "offline"
    /\ online' = [online EXCEPT ![Dev(t)] = FALSE]
    /\ \/ /\ t = Main
          /\ Goto(t, "next")
          /\ UNCHANGED <<started, code>>
       \/ /\ t # Main /\ code[t] = "exit"
          /\ Goto(t, "exited")
          /\ UNCHANGED <<started, code>>
       \/ /\ t # Main /\ code[t] = "transport"
          /\ Goto(t, "handle")
          /\ UNCHANGED <<started, code>>
       \/ /\ t # Main /\ code[t] = "lost"
          /\ started' = [started EXCEPT ![t] = FALSE]
          /\ Goto(t, "check")
          /\ UNCHANGED code
    /\ UNCHANGED <<running, fd, port, pending, stopping, target>>

Stop(t) == CloseFd(t) \/ StoreFd(t) \/ Offline(t)

-----------------------------------------------------------------------------
(* run_device(d)                                                           *)

(* A faulty Check: the worker ends without its last stop().                *)
CheckExitsAtOnce(d) ==
    /\ pc[d] = "check"
    /\ IF running
       THEN Got(d, "none", IF started[d] THEN "read" ELSE "open")
       ELSE Got(d, "exit", "exited")
    /\ UNCHANGED <<running, started, fd, port, online, pending, stopping, target>>

Check(d) ==
    /\ pc[d] = "check"
    /\ IF running
       THEN Got(d, "none", IF started[d] THEN "read" ELSE "open")
       ELSE Got(d, "exit", "close")
    /\ UNCHANGED <<running, started, fd, port, online, pending, stopping, target>>

(* start(): open_port() closes what is open and opens the device,          *)
OpenFails(d) ==
    /\ pc[d] = "open"
    /\ port' = Closed(port, fd[d])
    /\ fd' = [fd EXCEPT ![d] = None]
    /\ Got(d, "start", "handle")
    /\ UNCHANGED <<running, started, online, pending, stopping, target>>

Open(d) ==
    /\ pc[d] = "open"
    /\ \E f \in Fds :
          /\ Closed(port, fd[d])[f] = None
          /\ port' = [Closed(port, fd[d]) EXCEPT ![f] = d]
          /\ fd' = [fd EXCEPT ![d] = f]
    /\ Goto(d, "configure")
    /\ UNCHANGED <<running, started, code, online, pending, stopping, target>>

(* then sets it up, closing it again when that fails.                      *)
Configure(d) ==
    /\ pc[d] = "configure"
    /\ fd[d] # None /\ port[fd[d]] # None
    /\ online' = [online EXCEPT ![d] = TRUE]
    /\ started' = [started EXCEPT ![d] = TRUE]
    /\ Goto(d, "read")
    /\ UNCHANGED <<running, code, fd, port, pending, stopping, target>>

(* A faulty ConfigureFails: fd_ is reset without close().                  *)
ConfigureFailsLeaks(d) ==
    /\ pc[d] = "configure"
    /\ fd' = [fd EXCEPT ![d] = None]
    /\ Got(d, "start", "handle")
    /\ UNCHANGED <<running, started, port, online, pending, stopping, target>>

ConfigureFails(d) ==
    /\ pc[d] = "configure"
    /\ port' = Closed(port, fd[d])
    /\ Got(d, "start", IF fd[d] = None THEN "handle" ELSE "store")
    /\ UNCHANGED <<running, started, fd, online, pending, stopping, target>>

(* read(): a UART device first hands on the frames it has already parsed.  *)
ReadPending(d) ==
    /\ pc[d] = "read" /\ pending[d]
    /\ Got(d, "data", "handle")
    /\ \E more \in BOOLEAN : pending' = [pending EXCEPT ![d] = more]
    /\ UNCHANGED <<running, started, fd, port, online, stopping, target>>

(* A Modbus device waits until its next poll is due,                       *)
AwaitPoll(d) ==
    /\ pc[d] = "read" /\ d \in Modbus
    /\ Got(d, "timeout", "handle")
    /\ UNCHANGED <<running, started, fd, port, online, pending, stopping, target>>

(* or fails to send its request, always so when the port is closed; the    *)
(* adapter stops itself.                                                   *)
RequestFails(d) ==
    /\ pc[d] = "read" /\ d \in Modbus
    /\ Got(d, "transport", "close")
    /\ UNCHANGED <<running, started, fd, port, online, pending, stopping, target>>

(* poll() on fd_; a negative descriptor is ignored until the timeout.      *)
BeginPoll(d) ==
    /\ pc[d] = "read" /\ ~pending[d]
    /\ d \in Modbus => fd[d] # None
    /\ Goto(d, IF fd[d] = None THEN "ignored" ELSE "poll")
    /\ UNCHANGED <<running, started, code, fd, port, online, pending, stopping, target>>

(* The deadline of a Modbus poll may pass between the test of the loop and *)
(* the computation of what remains: poll() then gets a negative timeout,   *)
(* and has none.  It may do so after some rounds, which change nothing     *)
(* here, and that round is the last.                                       *)
PollUntimed(d) ==
    /\ pc[d] = "read" /\ d \in Modbus
    /\ fd[d] # None
    /\ Goto(d, "untimed")
    /\ UNCHANGED <<running, started, code, fd, port, online, pending, stopping, target>>

(* A faulty PollTimeout: read() polls again instead of returning.          *)
PollTimeoutRetries(d) ==
    /\ pc[d] \in {"poll", "ignored"}
    /\ Got(d, "timeout", "read")
    /\ online' = [online EXCEPT ![d] = @ /\ d \notin Modbus]
    /\ UNCHANGED <<running, started, fd, port, pending, stopping, target>>

(* No input in time; a Modbus device that does not answer is offline.      *)
PollTimeout(d) ==
    /\ pc[d] \in {"poll", "ignored"}
    /\ Got(d, "timeout", IF d \in Modbus THEN "handle" ELSE "check")
    /\ online' = [online EXCEPT ![d] = @ /\ d \notin Modbus]
    /\ UNCHANGED <<running, started, fd, port, pending, stopping, target>>

(* poll() fails, or reports an error or a hangup.                          *)
PollFails(d) ==
    /\ pc[d] \in {"poll", "untimed"}
    /\ Got(d, "transport", "close")
    /\ UNCHANGED <<running, started, fd, port, online, pending, stopping, target>>

PollReady(d) ==
    /\ pc[d] \in {"poll", "untimed"}
    /\ Goto(d, "receive")
    /\ UNCHANGED <<running, started, code, fd, port, online, pending, stopping, target>>

(* ::read() on what fd_ is now: a frame, or from a UART several, something *)
(* to reject, or no complete frame yet.                                    *)
Receive(d) ==
    /\ pc[d] = "receive" /\ d \notin Modbus
    /\ fd[d] # None /\ port[fd[d]] # None
    /\ \/ /\ Got(d, "data", "handle")
          /\ online' = [online EXCEPT ![d] = TRUE]
          /\ \E more \in BOOLEAN :
                /\ more => d \in Uart
                /\ pending' = [pending EXCEPT ![d] = more]
       \/ /\ Got(d, "protocol", "handle")
          /\ UNCHANGED <<online, pending>>
       \/ /\ d \in Uart
          /\ Got(d, "timeout", "check")
          /\ UNCHANGED <<online, pending>>
    /\ UNCHANGED <<running, started, fd, port, stopping, target>>

(* The response to a Modbus request, the rounds that collect it taken      *)
(* together: registers, something to reject, or nothing at all.            *)
ReceiveResponse(d) ==
    /\ pc[d] = "receive" /\ d \in Modbus
    /\ fd[d] # None /\ port[fd[d]] # None
    /\ \/ /\ Got(d, "data", "handle")
          /\ online' = [online EXCEPT ![d] = TRUE]
       \/ /\ Got(d, "protocol", "handle")
          /\ UNCHANGED online
       \/ /\ Got(d, "timeout", "handle")
          /\ online' = [online EXCEPT ![d] = FALSE]
    /\ UNCHANGED <<running, started, fd, port, pending, stopping, target>>

ReceiveFails(d) ==
    /\ pc[d] = "receive"
    /\ Got(d, "transport", "close")
    /\ UNCHANGED <<running, started, fd, port, online, pending, stopping, target>>

(* A faulty HandlerReturns: a device that could not be started is given    *)
(* up.                                                                     *)
HandlerGivesUp(d) ==
    /\ pc[d] = "handle"
    /\ \/ code[d] = "transport" /\ Got(d, "lost", "close")
       \/ code[d] = "start" /\ Got(d, "exit", "close")
       \/ code[d] \notin {"transport", "start"} /\ Got(d, "none", "check")
    /\ UNCHANGED <<running, started, fd, port, online, pending, stopping, target>>

(* The data or error handler returns; a transport error has the device     *)
(* stopped, a failed start() is followed by the reconnect interval.        *)
HandlerReturns(d) ==
    /\ pc[d] = "handle"
    /\ \/ code[d] = "transport" /\ Got(d, "lost", "close")
       \/ code[d] = "start" /\ Got(d, "none", "sleep")
       \/ code[d] \notin {"transport", "start"} /\ Got(d, "none", "check")
    /\ UNCHANGED <<running, started, fd, port, online, pending, stopping, target>>

(* sleep_for(reconnect_interval_) is over.                                 *)
IntervalOver(d) ==
    /\ pc[d] = "sleep"
    /\ Goto(d, "check")
    /\ UNCHANGED <<running, started, code, fd, port, online, pending, stopping, target>>

run_device(d) ==
    \/ Check(d) \/ OpenFails(d) \/ Open(d) \/ Configure(d) \/ ConfigureFails(d)
    \/ ReadPending(d) \/ AwaitPoll(d) \/ RequestFails(d)
    \/ BeginPoll(d) \/ PollUntimed(d) \/ PollTimeout(d) \/ PollFails(d)
    \/ PollReady(d) \/ Receive(d) \/ ReceiveResponse(d) \/ ReceiveFails(d)
    \/ HandlerReturns(d) \/ IntervalOver(d) \/ Stop(d)

-----------------------------------------------------------------------------
(* start() and stop() of the manager, on the main thread.                  *)

Start ==
    /\ pc[Main] = "idle"
    /\ running' = TRUE
    /\ pc' = [t \in Threads |-> IF t = Main THEN "serve" ELSE "check"]
    /\ UNCHANGED <<started, code, fd, port, online, pending, stopping, target>>

StopBegin ==
    /\ pc[Main] = "serve"
    /\ running' = FALSE
    /\ stopping' = Devices
    /\ Goto(Main, "next")
    /\ UNCHANGED <<started, code, fd, port, online, pending, target>>

StopDevice ==
    /\ pc[Main] = "next"
    /\ \E d \in stopping :
          /\ target' = d
          /\ stopping' = stopping \ {d}
    /\ Goto(Main, "close")
    /\ UNCHANGED <<running, started, code, fd, port, online, pending>>

JoinBegin ==
    /\ pc[Main] = "next" /\ stopping = {}
    /\ target' = None
    /\ Goto(Main, "join")
    /\ UNCHANGED <<running, started, code, fd, port, online, pending, stopping>>

(* A faulty Joined: it does not wait for the workers.                      *)
JoinedEarly ==
    /\ pc[Main] = "join"
    /\ Goto(Main, "stopped")
    /\ UNCHANGED <<running, started, code, fd, port, online, pending, stopping, target>>

Joined ==
    /\ pc[Main] = "join"
    /\ \A d \in Devices : pc[d] = "exited"
    /\ Goto(Main, "stopped")
    /\ UNCHANGED <<running, started, code, fd, port, online, pending, stopping, target>>

MainThread == Start \/ StopBegin \/ StopDevice \/ JoinBegin \/ Joined \/ Stop(Main)

Init ==
    /\ running = FALSE
    /\ pc = [t \in Threads |-> IF t = Main THEN "idle" ELSE "none"]
    /\ started = [d \in Devices |-> FALSE]
    /\ code = [d \in Devices |-> "none"]
    /\ fd = [d \in Devices |-> None]
    /\ port = [f \in Fds |-> None]
    /\ online = [d \in Devices |-> FALSE]
    /\ pending = [d \in Devices |-> FALSE]
    /\ stopping = {} /\ target = None

Finished == pc[Main] = "stopped" /\ UNCHANGED vars

Next == MainThread \/ (\E d \in Devices : run_device(d)) \/ Finished

Spec == Init /\ [][Next]_vars

(* Where a worker may stay for ever: in a poll() without a timeout, and in *)
(* the data handler, whose connect() and send() to the TCP receiver have   *)
(* none either.                                                            *)
Blocked(d) == \/ pc[d] = "untimed"
              \/ pc[d] = "handle" /\ code[d] = "data"

(* Every thread is scheduled: a poll() with a timeout, the error handler   *)
(* and the sleep return; the calls of Blocked need not.  Nothing makes the *)
(* main thread be told to stop.                                            *)
ShutdownFairness == /\ \A d \in Devices : WF_vars(~Blocked(d) /\ run_device(d))
                    /\ WF_vars(StopDevice \/ JoinBegin \/ Joined \/ Stop(Main))
FairSpec == Spec /\ ShutdownFairness

(* The port of d, tried again and again, can be opened in the end.         *)
ReopenFairness(d) == SF_vars(Open(d)) /\ SF_vars(Configure(d))

-----------------------------------------------------------------------------
TypeOK ==
    /\ running \in BOOLEAN
    /\ pc \in [Threads -> WorkerStates \cup MainStates]
    /\ pc[Main] \in MainStates
    /\ \A d \in Devices : pc[d] \in WorkerStates
    /\ started \in [Devices -> BOOLEAN]
    /\ code \in [Devices -> Codes]
    /\ fd \in [Devices -> Fds \cup {None}]
    /\ port \in [Fds -> Devices \cup {None}]
    /\ online \in [Devices -> BOOLEAN]
    /\ pending \in [Devices -> BOOLEAN]
    /\ stopping \subseteq Devices
    /\ target \in Devices \cup {None}

(* While the manager runs, the descriptor a worker uses is its own         *)
(* device's, no two share one, and none is left open by the worker that    *)
(* opened it: through every sequence of failures and reconnects.           *)
OwnPorts ==
    running => \A d \in Devices :
        /\ fd[d] # None /\ pc[d] # "store" => port[fd[d]] = d
        /\ \A f \in Fds : port[f] = d => fd[d] = f /\ pc[d] # "store"

(* While the manager runs, a device its status shows online has an open    *)
(* port, unless its worker is just closing it.                             *)
OnlineIsOpen ==
    running => \A d \in Devices :
        online[d] => fd[d] # None \/ pc[d] \in {"store", "offline"}

(* When stop() has returned no worker is in a handler (they refer to the   *)
(* publishers the main thread goes on to close), no port is in use and no  *)
(* device is shown online, whatever the workers were doing.                *)
QuiescentAfterStop ==
    pc[Main] = "stopped" => \A d \in Devices :
        pc[d] = "exited" /\ fd[d] = None /\ ~online[d]

(* stop() waits for nothing but the calls of Blocked: if none of them      *)
(* lasts for ever, all the workers leave their loops, from wherever the    *)
(* flag and the closed port find them, and stop() joins them and returns.  *)
StopReturns ==
    (\A d \in Devices : []<>~Blocked(d))
        => (pc[Main] = "next" ~> pc[Main] = "stopped")

(* A device whose port was lost, or could not be opened, is started again, *)
(* if its port can be opened at all and however the other devices fare,    *)
(* unless the manager is stopped.                                          *)
DevicesReopen ==
    \A d \in Devices : ReopenFairness(d) =>
        (~started[d] /\ running ~> started[d] \/ ~running)

(* The gateway closes its descriptors: although both threads may close a   *)
(* port, and a worker may open one after the main thread's stop(), none is *)
(* left open when the manager has stopped.                                 *)
PortsClosedAtExit == pc[Main] = "stopped" => \A f \in Fds : port[f] = None

-----------------------------------------------------------------------------
(* The inductive invariant.                                                *)

(* The main thread's place; it has a store to fd_ outstanding only while   *)
(* the device's worker is not about to open the port.                      *)
ThreadsSound ==
    /\ running = (pc[Main] = "serve")
    /\ pc[Main] = "idle" => \A d \in Devices : pc[d] = "none"
    /\ pc[Main] \in {"close", "store", "offline"} => target \in Devices
    /\ pc[Main] = "store" => pc[target] # "open"
    /\ pc[Main] = "stopped" => \A d \in Devices : pc[d] = "exited"

(* started says whether start() succeeded since the last stop.             *)
StartedSound ==
    \A d \in Devices :
        /\ \/ pc[d] \in {"read", "poll", "untimed", "ignored", "receive"}
           \/ pc[d] = "handle" /\ code[d] # "start"
           \/ /\ pc[d] \in {"close", "store", "offline"}
              /\ code[d] \notin {"start", "exit"}
           => started[d]
        /\ \/ pc[d] \in {"none", "open", "configure", "sleep"}
           \/ pc[d] \in {"store", "handle"} /\ code[d] = "start"
           => ~started[d]
        /\ pc[d] = "close" => code[d] # "start"

(* Where a worker has closed its port.                                     *)
PortClosed(d) == \/ pc[d] \in {"none", "open", "sleep", "offline", "exited"}
                 \/ pc[d] = "check" /\ ~started[d]
                 \/ pc[d] = "handle" /\ code[d] = "start"

(* No port is open that its device's fd_ does not refer to, and none that  *)
(* a thread is about to forget.                                            *)
DescriptorsSound ==
    /\ \A d \in Devices : PortClosed(d) => fd[d] = None
    /\ \A d \in Devices, f \in Fds : port[f] = d => fd[d] = f
    /\ \A t \in Threads, f \in Fds : pc[t] = "store" => port[f] # Dev(t)

StatusSound ==
    /\ \A d \in Devices : pc[d] \in {"none", "exited"} => ~online[d]
    /\ running => \A d \in Devices : ~started[d] => ~online[d]
    /\ OnlineIsOpen

IInv == /\ TypeOK /\ ThreadsSound /\ StartedSound
        /\ DescriptorsSound /\ OwnPorts /\ StatusSound

-----------------------------------------------------------------------------
(* What the documentation says.                                            *)

(* "Every worker thread owns its file descriptor": a thread about to use   *)
(* or to close a device's fd_ never meets another device's port there.     *)
DescriptorsNotShared ==
    \A t \in Threads :
        pc[t] \in {"configure", "read", "receive", "close"} /\ fd[Dev(t)] # None
           => port[fd[Dev(t)]] \in {Dev(t), None}
=============================================================================

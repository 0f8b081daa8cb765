------------------------- MODULE DeviceManagerProofs -------------------------
(***************************************************************************)
(* The device manager, proved for any number of devices and descriptors.   *)
(***************************************************************************)
EXTENDS DeviceManager, TLAPS

(* Most leaves need SMT; each is tried again with more time where the      *)
(* first attempts find no proof.                                           *)
USE SMTT(15), SMTT(30), ZenonT(20), SMTT(60)

-----------------------------------------------------------------------------
(* Steps of a worker that leave fd_, the descriptor table and started      *)
(* alone.                                                                  *)

(* What such a step has to establish about its own device.                 *)
MoveOK(d, s, c, on) ==
    /\ s = "open" => running
    /\ \/ s \in {"read", "poll", "untimed", "ignored", "receive"}
       \/ s = "handle" /\ c # "start"
       \/ /\ s \in {"close", "store", "offline"}
          /\ c \notin {"start", "exit"}
       => started[d]
    /\ \/ s \in {"none", "open", "configure", "sleep"}
       \/ s \in {"store", "handle"} /\ c = "start"
       => ~started[d]
    /\ \/ s \in {"none", "open", "sleep", "offline", "exited"}
       \/ s = "check" /\ ~started[d]
       \/ s = "handle" /\ c = "start"
       => fd[d] = None
    /\ s = "close" => c # "start"
    /\ s = "exited" => ~on
    /\ running => /\ ~started[d] => ~on
                  /\ on => fd[d] # None \/ s \in {"store", "offline"}

(* Such a step keeps the invariant.                                        *)
LEMMA WorkerMoves ==
    ASSUME IInv, NEW d \in Devices, NEW s \in WorkerStates, NEW c \in Codes,
           pc[d] \notin {"none", "exited", "store"}, s \notin {"none", "store"},
           pc' = [pc EXCEPT ![d] = s], code' = [code EXCEPT ![d] = c],
           online' \in [Devices -> BOOLEAN],
           \A e \in Devices : e # d => online'[e] = online[e],
           pending' \in [Devices -> BOOLEAN],
           UNCHANGED <<running, started, fd, port, stopping, target>>,
           MoveOK(d, s, c, online'[d])
    PROVE  IInv'
  <1>0. /\ TypeOK /\ ThreadsSound /\ StartedSound
        /\ DescriptorsSound /\ OwnPorts /\ StatusSound
    BY DEF IInv
  <1>1. /\ d # Main /\ d \in Threads /\ Main \in Threads
        /\ pc \in [Threads -> WorkerStates \cup MainStates]
        /\ code \in [Devices -> Codes]
    BY <1>0, DeviceAssumption DEF TypeOK, Threads
  <1>2. /\ pc'[d] = s /\ code'[d] = c /\ pc'[Main] = pc[Main]
        /\ \A e \in Devices : e # d => pc'[e] = pc[e] /\ code'[e] = code[e]
    BY <1>1 DEF Threads
  <1>3. TypeOK'
    BY <1>0, <1>1, <1>2 DEF TypeOK, Threads
  <1>4. ThreadsSound'
    BY <1>0, <1>1, <1>2 DEF ThreadsSound, MoveOK, TypeOK
  <1>5. StartedSound'
    BY <1>0, <1>2 DEF StartedSound, MoveOK
  <1>6. DescriptorsSound'
    <2>1. ASSUME NEW e \in Devices, PortClosed(e)' PROVE fd'[e] = None
      BY <1>0, <1>2, <2>1 DEF DescriptorsSound, PortClosed, MoveOK
    <2>2. ASSUME NEW t \in Threads, NEW f \in Fds, pc'[t] = "store"
          PROVE  port'[f] # Dev(t)'
      BY <1>0, <1>1, <1>2, <2>2 DEF DescriptorsSound, Dev, Threads
    <2> QED  BY <1>0, <2>1, <2>2 DEF DescriptorsSound
  <1>7. OwnPorts'
    BY <1>0, <1>2 DEF OwnPorts
  <1>8. StatusSound'
    BY <1>0, <1>2 DEF StatusSound, OnlineIsOpen, MoveOK
  <1> QED  BY <1>3, <1>4, <1>5, <1>6, <1>7, <1>8 DEF IInv

(* The same for a step that leaves the status alone as well.               *)
LEMMA QuietMoves ==
    ASSUME IInv, NEW d \in Devices, NEW s \in WorkerStates, NEW c \in Codes,
           pc[d] \notin {"none", "exited", "store"}, s \notin {"none", "store"},
           Got(d, c, s),
           UNCHANGED <<running, started, fd, port, online, stopping, target>>,
           pending' \in [Devices -> BOOLEAN],
           MoveOK(d, s, c, online[d])
    PROVE  IInv'
  <1>1. online' \in [Devices -> BOOLEAN] /\ \A e \in Devices : online'[e] = online[e]
    BY DEF IInv, TypeOK
  <1>2. pc' = [pc EXCEPT ![d] = s] /\ code' = [code EXCEPT ![d] = c]
    BY DEF Got, Goto
  <1>3. MoveOK(d, s, c, online'[d])
    BY <1>1
  <1> QED  BY <1>1, <1>2, <1>3, WorkerMoves, ZenonT(60)

(* What the invariant says about one worker.                               *)
LEMMA WorkerFacts ==
    ASSUME IInv, NEW d \in Devices
    PROVE  /\ \/ pc[d] \in {"read", "poll", "untimed", "ignored", "receive"}
              \/ pc[d] = "handle" /\ code[d] # "start"
              \/ /\ pc[d] \in {"close", "store", "offline"}
                 /\ code[d] \notin {"start", "exit"}
              => started[d]
           /\ \/ pc[d] \in {"none", "open", "configure", "sleep"}
              \/ pc[d] \in {"store", "handle"} /\ code[d] = "start"
              => ~started[d]
           /\ PortClosed(d) => fd[d] = None
           /\ running => /\ ~started[d] => ~online[d]
                         /\ online[d] => fd[d] # None \/ pc[d] \in {"store", "offline"}
           /\ pending' = pending => pending' \in [Devices -> BOOLEAN]
           /\ code[d] \in Codes /\ code = [code EXCEPT ![d] = code[d]]
  BY DEF IInv, TypeOK, StartedSound, DescriptorsSound, StatusSound, OnlineIsOpen

(* The test of running_ in the loop.                                       *)
LEMMA CheckKeeps == ASSUME IInv, NEW d \in Devices, Check(d) PROVE IInv'
  <1>1. CASE running
    <2> DEFINE s == IF started[d] THEN "read" ELSE "open"
    <2>1. s \in WorkerStates /\ s \notin {"none", "store"} /\ "none" \in Codes
      BY DEF WorkerStates, Codes
    <2>2. MoveOK(d, s, "none", online[d])
      BY <1>1, WorkerFacts DEF MoveOK, Check, PortClosed
    <2> HIDE DEF s
    <2> QED  BY <1>1, <2>1, <2>2, WorkerFacts, QuietMoves DEF Check, s
  <1>2. CASE ~running
    <2>1. "close" \in WorkerStates /\ "exit" \in Codes
      BY DEF WorkerStates, Codes
    <2>2. MoveOK(d, "close", "exit", online[d])
      BY <1>2 DEF MoveOK
    <2> QED  BY <1>2, <2>1, <2>2, WorkerFacts, QuietMoves DEF Check
  <1> QED  BY <1>1, <1>2

(* A parsed frame handed on.                                               *)
LEMMA ReadPendingKeeps == ASSUME IInv, NEW d \in Devices, ReadPending(d) PROVE IInv'
  <1>1. "handle" \in WorkerStates /\ "data" \in Codes
    BY DEF WorkerStates, Codes
  <1>2. MoveOK(d, "handle", "data", online[d])
    BY WorkerFacts DEF MoveOK, ReadPending, PortClosed
  <1>3. pending' \in [Devices -> BOOLEAN]
    BY DEF ReadPending, IInv, TypeOK
  <1> QED  BY <1>1, <1>2, <1>3, QuietMoves DEF ReadPending

(* The wait for the next Modbus poll.                                      *)
LEMMA AwaitPollKeeps == ASSUME IInv, NEW d \in Devices, AwaitPoll(d) PROVE IInv'
  <1>1. "handle" \in WorkerStates /\ "timeout" \in Codes
    BY DEF WorkerStates, Codes
  <1>2. MoveOK(d, "handle", "timeout", online[d])
    BY WorkerFacts DEF MoveOK, AwaitPoll, PortClosed
  <1> QED  BY <1>1, <1>2, WorkerFacts, QuietMoves DEF AwaitPoll

(* A Modbus request that is not sent.                                      *)
LEMMA RequestFailsKeeps == ASSUME IInv, NEW d \in Devices, RequestFails(d) PROVE IInv'
  <1>1. "close" \in WorkerStates /\ "transport" \in Codes
    BY DEF WorkerStates, Codes
  <1>2. MoveOK(d, "close", "transport", online[d])
    BY WorkerFacts DEF MoveOK, RequestFails, PortClosed
  <1> QED  BY <1>1, <1>2, WorkerFacts, QuietMoves DEF RequestFails

(* An error or a hangup reported by poll().                                *)
LEMMA PollFailsKeeps == ASSUME IInv, NEW d \in Devices, PollFails(d) PROVE IInv'
  <1>1. "close" \in WorkerStates /\ "transport" \in Codes
    BY DEF WorkerStates, Codes
  <1>2. MoveOK(d, "close", "transport", online[d])
    BY WorkerFacts DEF MoveOK, PollFails, PortClosed
  <1> QED  BY <1>1, <1>2, WorkerFacts, QuietMoves DEF PollFails

(* A failed ::read().                                                      *)
LEMMA ReceiveFailsKeeps == ASSUME IInv, NEW d \in Devices, ReceiveFails(d) PROVE IInv'
  <1>1. "close" \in WorkerStates /\ "transport" \in Codes
    BY DEF WorkerStates, Codes
  <1>2. MoveOK(d, "close", "transport", online[d])
    BY WorkerFacts DEF MoveOK, ReceiveFails, PortClosed
  <1> QED  BY <1>1, <1>2, WorkerFacts, QuietMoves DEF ReceiveFails

(* The call of poll().                                                     *)
LEMMA BeginPollKeeps == ASSUME IInv, NEW d \in Devices, BeginPoll(d) PROVE IInv'
  <1> DEFINE s == IF fd[d] = None THEN "ignored" ELSE "poll"
  <1>1. s \in WorkerStates /\ s \notin {"none", "store"}
    BY DEF WorkerStates
  <1>2. MoveOK(d, s, code[d], online[d])
    BY WorkerFacts DEF MoveOK, BeginPoll, PortClosed
  <1>3. Got(d, code[d], s)
    BY WorkerFacts DEF BeginPoll, Got
  <1> HIDE DEF s
  <1> QED  BY <1>1, <1>2, <1>3, WorkerFacts, QuietMoves DEF BeginPoll

(* The call of poll() without a timeout.                                   *)
LEMMA PollUntimedKeeps == ASSUME IInv, NEW d \in Devices, PollUntimed(d) PROVE IInv'
  <1>1. "untimed" \in WorkerStates
    BY DEF WorkerStates
  <1>2. MoveOK(d, "untimed", code[d], online[d])
    BY WorkerFacts DEF MoveOK, PollUntimed, PortClosed
  <1>3. Got(d, code[d], "untimed")
    BY WorkerFacts DEF PollUntimed, Got
  <1> QED  BY <1>1, <1>2, <1>3, WorkerFacts, QuietMoves DEF PollUntimed

(* Input reported by poll().                                               *)
LEMMA PollReadyKeeps == ASSUME IInv, NEW d \in Devices, PollReady(d) PROVE IInv'
  <1>1. "receive" \in WorkerStates
    BY DEF WorkerStates
  <1>2. MoveOK(d, "receive", code[d], online[d])
    BY WorkerFacts DEF MoveOK, PollReady, PortClosed
  <1>3. Got(d, code[d], "receive")
    BY WorkerFacts DEF PollReady, Got
  <1> QED  BY <1>1, <1>2, <1>3, WorkerFacts, QuietMoves DEF PollReady

(* The end of the reconnect interval.                                      *)
LEMMA IntervalOverKeeps == ASSUME IInv, NEW d \in Devices, IntervalOver(d) PROVE IInv'
  <1>1. "check" \in WorkerStates
    BY DEF WorkerStates
  <1>2. MoveOK(d, "check", code[d], online[d])
    BY WorkerFacts DEF MoveOK, IntervalOver, PortClosed
  <1>3. Got(d, code[d], "check")
    BY WorkerFacts DEF IntervalOver, Got
  <1> QED  BY <1>1, <1>2, <1>3, WorkerFacts, QuietMoves DEF IntervalOver

(* The return of a handler.                                                *)
LEMMA HandlerReturnsKeeps == ASSUME IInv, NEW d \in Devices, HandlerReturns(d) PROVE IInv'
  <1>0. /\ "close" \in WorkerStates /\ "sleep" \in WorkerStates /\ "check" \in WorkerStates
        /\ "lost" \in Codes /\ "none" \in Codes
    BY DEF WorkerStates, Codes
  <1>1. CASE code[d] = "transport" /\ Got(d, "lost", "close")
    <2>1. MoveOK(d, "close", "lost", online[d])
      BY <1>1, WorkerFacts DEF MoveOK, HandlerReturns, PortClosed
    <2> QED  BY <1>0, <1>1, <2>1, WorkerFacts, QuietMoves DEF HandlerReturns
  <1>2. CASE code[d] = "start" /\ Got(d, "none", "sleep")
    <2>1. MoveOK(d, "sleep", "none", online[d])
      BY <1>2, WorkerFacts DEF MoveOK, HandlerReturns, PortClosed
    <2> QED  BY <1>0, <1>2, <2>1, WorkerFacts, QuietMoves DEF HandlerReturns
  <1>3. CASE code[d] \notin {"transport", "start"} /\ Got(d, "none", "check")
    <2>1. MoveOK(d, "check", "none", online[d])
      BY <1>3, WorkerFacts DEF MoveOK, HandlerReturns, PortClosed
    <2> QED  BY <1>0, <1>3, <2>1, WorkerFacts, QuietMoves DEF HandlerReturns
  <1> QED  BY <1>1, <1>2, <1>3 DEF HandlerReturns

(* An update of the status of one device.                                  *)
LEMMA StatusUpdate ==
    ASSUME IInv, NEW d \in Devices, NEW on \in BOOLEAN, online' = [online EXCEPT ![d] = on]
    PROVE  /\ online' \in [Devices -> BOOLEAN] /\ online'[d] = on
           /\ \A e \in Devices : e # d => online'[e] = online[e]
  BY DEF IInv, TypeOK

(* A poll() that times out.                                                *)
LEMMA PollTimeoutKeeps == ASSUME IInv, NEW d \in Devices, PollTimeout(d) PROVE IInv'
  <1> DEFINE s == IF d \in Modbus THEN "handle" ELSE "check"
             on == online[d] /\ d \notin Modbus
  <1>1. s \in WorkerStates /\ s \notin {"none", "store"} /\ "timeout" \in Codes
    BY DEF WorkerStates, Codes
  <1>2. on \in BOOLEAN /\ (on => online[d])
    OBVIOUS
  <1>3. online' = [online EXCEPT ![d] = on]
    BY DEF PollTimeout
  <1> HIDE DEF on
  <1>4. /\ online' \in [Devices -> BOOLEAN] /\ online'[d] = on
        /\ \A e \in Devices : e # d => online'[e] = online[e]
    BY <1>2, <1>3, StatusUpdate, ZenonT(60)
  <1>5. MoveOK(d, s, "timeout", on)
    BY <1>2, WorkerFacts DEF MoveOK, PollTimeout, PortClosed
  <1>6. MoveOK(d, s, "timeout", online'[d])
    BY <1>4, <1>5
  <1>7. pc' = [pc EXCEPT ![d] = s] /\ code' = [code EXCEPT ![d] = "timeout"]
    BY DEF PollTimeout, Got, Goto
  <1> HIDE DEF s
  <1> QED  BY <1>1, <1>4, <1>6, <1>7, WorkerFacts, WorkerMoves, ZenonT(60) DEF PollTimeout

(* Input of a UART or CAN device.                                          *)
LEMMA ReceiveKeeps == ASSUME IInv, NEW d \in Devices, Receive(d) PROVE IInv'
  <1>0. /\ "handle" \in WorkerStates /\ "check" \in WorkerStates
        /\ "data" \in Codes /\ "protocol" \in Codes /\ "timeout" \in Codes
    BY DEF WorkerStates, Codes
  <1>1. CASE Got(d, "protocol", "handle") /\ UNCHANGED <<online, pending>>
    <2>1. MoveOK(d, "handle", "protocol", online[d])
      BY WorkerFacts DEF MoveOK, Receive, PortClosed
    <2> QED  BY <1>0, <1>1, <2>1, WorkerFacts, QuietMoves DEF Receive
  <1>2. CASE Got(d, "timeout", "check") /\ UNCHANGED <<online, pending>>
    <2>1. MoveOK(d, "check", "timeout", online[d])
      BY WorkerFacts DEF MoveOK, Receive, PortClosed
    <2> QED  BY <1>0, <1>2, <2>1, WorkerFacts, QuietMoves DEF Receive
  <1>3. CASE /\ Got(d, "data", "handle")
             /\ online' = [online EXCEPT ![d] = TRUE]
             /\ \E more \in BOOLEAN : /\ more => d \in Uart
                                      /\ pending' = [pending EXCEPT ![d] = more]
    <2>1. /\ online' \in [Devices -> BOOLEAN] /\ online'[d] = TRUE
          /\ \A e \in Devices : e # d => online'[e] = online[e]
      BY <1>3, StatusUpdate, ZenonT(60)
    <2>2. pending' \in [Devices -> BOOLEAN]
      BY <1>3 DEF IInv, TypeOK
    <2>3. MoveOK(d, "handle", "data", TRUE)
      BY WorkerFacts DEF MoveOK, Receive, PortClosed
    <2>4. MoveOK(d, "handle", "data", online'[d])
      BY <2>1, <2>3, ZenonT(60)
    <2>5. pc' = [pc EXCEPT ![d] = "handle"] /\ code' = [code EXCEPT ![d] = "data"]
      BY <1>3 DEF Got, Goto
    <2> QED  BY <1>0, <2>1, <2>2, <2>4, <2>5, WorkerMoves, ZenonT(60) DEF Receive
  <1> QED  BY <1>1, <1>2, <1>3 DEF Receive

(* The response to a Modbus request, or its absence.                       *)
LEMMA ReceiveResponseKeeps ==
    ASSUME IInv, NEW d \in Devices, ReceiveResponse(d)
    PROVE  IInv'
  <1>0. /\ "handle" \in WorkerStates
        /\ "data" \in Codes /\ "protocol" \in Codes /\ "timeout" \in Codes
    BY DEF WorkerStates, Codes
  <1>1. CASE Got(d, "protocol", "handle") /\ UNCHANGED online
    <2>1. MoveOK(d, "handle", "protocol", online[d])
      BY WorkerFacts DEF MoveOK, ReceiveResponse, PortClosed
    <2> QED  BY <1>0, <1>1, <2>1, WorkerFacts, QuietMoves DEF ReceiveResponse
  <1>2. ASSUME NEW c \in {"data", "timeout"}, NEW on \in BOOLEAN,
               Got(d, c, "handle"), online' = [online EXCEPT ![d] = on]
        PROVE  IInv'
    <2>1. /\ online' \in [Devices -> BOOLEAN] /\ online'[d] = on
          /\ \A e \in Devices : e # d => online'[e] = online[e]
      BY <1>2, StatusUpdate, ZenonT(60)
    <2>2. pending' \in [Devices -> BOOLEAN]
      BY DEF IInv, TypeOK, ReceiveResponse
    <2>3. MoveOK(d, "handle", c, on)
      BY <1>2, WorkerFacts DEF MoveOK, ReceiveResponse, PortClosed
    <2>4. MoveOK(d, "handle", c, online'[d])
      BY <2>1, <2>3
    <2>5. pc' = [pc EXCEPT ![d] = "handle"] /\ code' = [code EXCEPT ![d] = c]
      BY <1>2 DEF Got, Goto
    <2>6. c \in Codes
      BY <1>0
    <2> QED  BY <1>0, <2>1, <2>2, <2>4, <2>5, <2>6, WorkerMoves, ZenonT(60) DEF ReceiveResponse
  <1> QED  BY <1>1, <1>2, ZenonT(60) DEF ReceiveResponse

-----------------------------------------------------------------------------
(* Steps that touch started, fd_ or the descriptor table.                  *)

(* The end of a stop() called by a worker.                                 *)
LEMMA WorkerStops ==
    ASSUME IInv, NEW d \in Devices, Offline(d) PROVE IInv'
  <1>0. /\ pc[d] = "offline" /\ d # Main /\ fd[d] = None
        /\ online' = [online EXCEPT ![d] = FALSE]
        /\ UNCHANGED <<running, fd, port, pending, stopping, target>>
        /\ "handle" \in WorkerStates /\ "exited" \in WorkerStates /\ "check" \in WorkerStates
    BY DeviceAssumption, WorkerFacts, ZenonT(60) DEF Offline, Dev, PortClosed, WorkerStates
  <1>1. /\ online' \in [Devices -> BOOLEAN] /\ online'[d] = FALSE
        /\ \A e \in Devices : e # d => online'[e] = online[e]
    BY <1>0, StatusUpdate, ZenonT(60)
  <1>2. CASE code[d] = "exit" /\ Goto(d, "exited") /\ UNCHANGED <<started, code>>
    <2>1. MoveOK(d, "exited", code[d], online'[d])
      BY <1>0, <1>1, <1>2 DEF MoveOK
    <2> QED  BY <1>0, <1>1, <1>2, <2>1, WorkerFacts, WorkerMoves, ZenonT(60) DEF Goto
  <1>3. CASE code[d] = "transport" /\ Goto(d, "handle") /\ UNCHANGED <<started, code>>
    <2>1. MoveOK(d, "handle", code[d], online'[d])
      BY <1>0, <1>1, <1>3, WorkerFacts DEF MoveOK
    <2> QED  BY <1>0, <1>1, <1>3, <2>1, WorkerFacts, WorkerMoves, ZenonT(60) DEF Goto
  <1>4. CASE /\ code[d] = "lost" /\ started' = [started EXCEPT ![d] = FALSE]
             /\ Goto(d, "check") /\ UNCHANGED code
    <2>0. /\ TypeOK /\ ThreadsSound /\ StartedSound
          /\ DescriptorsSound /\ OwnPorts /\ StatusSound
      BY DEF IInv
    <2>1. /\ pc'[d] = "check" /\ pc'[Main] = pc[Main] /\ started'[d] = FALSE
          /\ \A e \in Devices : e # d => pc'[e] = pc[e] /\ started'[e] = started[e]
          /\ pc' \in [Threads -> WorkerStates \cup MainStates]
          /\ started' \in [Devices -> BOOLEAN]
      BY <1>0, <1>4, <2>0 DEF Goto, TypeOK, Threads
    <2>2. TypeOK'
      BY <1>0, <1>1, <1>4, <2>0, <2>1 DEF TypeOK
    <2>3. ThreadsSound'
      BY <1>0, <2>0, <2>1 DEF ThreadsSound, TypeOK
    <2>4. StartedSound'
      BY <1>4, <2>0, <2>1 DEF StartedSound
    <2>5. DescriptorsSound'
      <3>1. ASSUME NEW e \in Devices, PortClosed(e)' PROVE fd'[e] = None
        BY <1>0, <1>4, <2>0, <2>1, <3>1 DEF DescriptorsSound, PortClosed
      <3>2. ASSUME NEW t \in Threads, NEW f \in Fds, pc'[t] = "store"
            PROVE  port'[f] # Dev(t)'
        BY <1>0, <2>0, <2>1, <3>2 DEF DescriptorsSound, Dev, Threads
      <3> QED  BY <1>0, <2>0, <3>1, <3>2 DEF DescriptorsSound
    <2>6. OwnPorts'
      BY <1>0, <2>0, <2>1 DEF OwnPorts
    <2>7. StatusSound'
      BY <1>0, <1>1, <2>0, <2>1 DEF StatusSound, OnlineIsOpen
    <2> QED  BY <2>2, <2>3, <2>4, <2>5, <2>6, <2>7 DEF IInv
  <1> QED  BY <1>0, <1>2, <1>3, <1>4 DEF Offline

(* ::close() frees one descriptor.                                         *)
LEMMA CloseFrees ==
    ASSUME TypeOK, NEW h \in Fds \cup {None}
    PROVE  /\ Closed(port, h) \in [Fds -> Devices \cup {None}]
           /\ \A f \in Fds : Closed(port, h)[f] = IF f = h THEN None ELSE port[f]
           /\ h = None => Closed(port, h) = port
  BY DeviceAssumption DEF TypeOK, Closed

(* The parts of the invariant, and the types needed below.                 *)
LEMMA Parts ==
    ASSUME IInv
    PROVE  /\ TypeOK /\ ThreadsSound /\ StartedSound
           /\ DescriptorsSound /\ OwnPorts /\ StatusSound
           /\ Main \in Threads /\ Main \notin Devices
           /\ None \notin Devices /\ None \notin Fds
           /\ \A d \in Devices : d \in Threads /\ d # Main /\ fd[d] \in Fds \cup {None}
           /\ pc \in [Threads -> WorkerStates \cup MainStates]
  BY DeviceAssumption DEF IInv, TypeOK, Threads

(* close() called by a worker.                                             *)
LEMMA WorkerCloses == ASSUME IInv, NEW d \in Devices, CloseFd(d) PROVE IInv'
  <1> DEFINE s == IF fd[d] = None THEN "offline" ELSE "store"
  <1>0. /\ pc[d] = "close" /\ port' = Closed(port, fd[d]) /\ pc' = [pc EXCEPT ![d] = s]
        /\ UNCHANGED <<running, started, code, fd, online, pending, stopping, target>>
    BY Parts, ZenonT(60) DEF CloseFd, Dev, Goto
  <1>1. /\ port' \in [Fds -> Devices \cup {None}]
        /\ \A f \in Fds : port'[f] = IF f = fd[d] THEN None ELSE port[f]
    BY <1>0, Parts, CloseFrees
  <1>2. /\ pc'[d] = s /\ pc'[Main] = pc[Main]
        /\ \A e \in Devices : e # d => pc'[e] = pc[e]
        /\ pc' \in [Threads -> WorkerStates \cup MainStates] /\ s \in WorkerStates
    BY <1>0, Parts DEF WorkerStates
  <1>3. TypeOK'
    BY <1>0, <1>1, <1>2, Parts DEF TypeOK
  <1>4. ThreadsSound'
    BY <1>0, <1>2, Parts DEF ThreadsSound
  <1>5. StartedSound'
    <2>1. pc[d] = "close" /\ code[d] \notin {"start", "exit"} => started[d]
      BY Parts DEF StartedSound
    <2>2. code[d] # "start"
      BY <1>0, Parts DEF StartedSound
    <2> QED  BY <1>0, <1>2, <2>1, <2>2, Parts DEF StartedSound
  <1>6. DescriptorsSound'
    <2>1. ASSUME NEW e \in Devices, PortClosed(e)' PROVE fd'[e] = None
      BY <1>0, <1>2, <2>1, Parts DEF DescriptorsSound, PortClosed
    <2>2. ASSUME NEW e \in Devices, NEW f \in Fds, port'[f] = e PROVE fd'[e] = f
      BY <1>0, <1>1, <2>2, Parts DEF DescriptorsSound
    <2>3. ASSUME NEW t \in Threads, NEW f \in Fds, pc'[t] = "store"
          PROVE  port'[f] # Dev(t)'
      <3>1. CASE t = d
        BY <1>0, <1>1, <1>2, <3>1, Parts DEF DescriptorsSound, Dev
      <3>2. CASE t # d
        <4>1. pc[t] = "store" /\ Dev(t)' = Dev(t)
          BY <1>0, <1>2, <2>3, <3>2 DEF Threads, Dev
        <4>2. port[f] # Dev(t) /\ Dev(t) \in Devices
          BY <4>1, <2>3, Parts DEF DescriptorsSound, ThreadsSound, Dev, Threads
        <4> QED  BY <1>1, <4>1, <4>2, Parts
      <3> QED  BY <3>1, <3>2
    <2> QED  BY <2>1, <2>2, <2>3 DEF DescriptorsSound
  <1>7. OwnPorts'
    BY <1>0, <1>1, <1>2, Parts DEF OwnPorts
  <1>8. StatusSound'
    BY <1>0, <1>2, Parts DEF StatusSound, OnlineIsOpen
  <1> QED  BY <1>3, <1>4, <1>5, <1>6, <1>7, <1>8 DEF IInv

(* A worker's store to fd_.                                                *)
LEMMA WorkerStores == ASSUME IInv, NEW d \in Devices, StoreFd(d) PROVE IInv'
  <1> DEFINE s == IF code[d] = "start" THEN "handle" ELSE "offline"
  <1>0. /\ pc[d] = "store" /\ fd' = [fd EXCEPT ![d] = None] /\ pc' = [pc EXCEPT ![d] = s]
        /\ UNCHANGED <<running, started, code, port, online, pending, stopping, target>>
    BY Parts, ZenonT(60) DEF StoreFd, Dev, Goto
  <1>1. /\ fd' \in [Devices -> Fds \cup {None}] /\ fd'[d] = None
        /\ \A e \in Devices : e # d => fd'[e] = fd[e]
    BY <1>0, Parts DEF TypeOK
  <1>2. /\ pc'[d] = s /\ pc'[Main] = pc[Main]
        /\ \A e \in Devices : e # d => pc'[e] = pc[e]
        /\ pc' \in [Threads -> WorkerStates \cup MainStates] /\ s \in WorkerStates
    BY <1>0, Parts DEF WorkerStates
  <1>3. TypeOK'
    BY <1>0, <1>1, <1>2, Parts DEF TypeOK
  <1>4. ThreadsSound'
    BY <1>0, <1>2, Parts DEF ThreadsSound
  <1>5. StartedSound'
    BY <1>0, <1>2, Parts DEF StartedSound
  <1>6. DescriptorsSound'
    <2>1. ASSUME NEW e \in Devices, PortClosed(e)' PROVE fd'[e] = None
      BY <1>0, <1>1, <1>2, <2>1, Parts DEF DescriptorsSound, PortClosed
    <2>2. ASSUME NEW e \in Devices, NEW f \in Fds, port'[f] = e PROVE fd'[e] = f
      BY <1>0, <1>1, <2>2, Parts DEF DescriptorsSound, Dev
    <2>3. ASSUME NEW t \in Threads, NEW f \in Fds, pc'[t] = "store"
          PROVE  port'[f] # Dev(t)'
      BY <1>0, <1>2, <2>3, Parts DEF DescriptorsSound, Dev, Threads
    <2> QED  BY <2>1, <2>2, <2>3 DEF DescriptorsSound
  <1>7. OwnPorts'
    <2> SUFFICES ASSUME running, NEW e \in Devices
                 PROVE  /\ fd'[e] # None /\ pc'[e] # "store" => port[fd'[e]] = e
                        /\ \A f \in Fds : port[f] = e => fd'[e] = f /\ pc'[e] # "store"
      BY <1>0 DEF OwnPorts
    <2>1. CASE e = d
      BY <1>0, <1>1, <2>1, Parts DEF OwnPorts
    <2>2. CASE e # d
      BY <1>1, <1>2, <2>2, Parts DEF OwnPorts
    <2> QED  BY <2>1, <2>2
  <1>8. StatusSound'
    BY <1>0, <1>1, <1>2, Parts DEF StatusSound, OnlineIsOpen, StartedSound
  <1> QED  BY <1>3, <1>4, <1>5, <1>6, <1>7, <1>8 DEF IInv

(* A port that cannot be set up.                                           *)
LEMMA ConfigureFailsKeeps == ASSUME IInv, NEW d \in Devices, ConfigureFails(d) PROVE IInv'
  <1> DEFINE s == IF fd[d] = None THEN "handle" ELSE "store"
  <1>0. /\ pc[d] = "configure" /\ port' = Closed(port, fd[d]) /\ pc' = [pc EXCEPT ![d] = s]
        /\ code' = [code EXCEPT ![d] = "start"]
        /\ UNCHANGED <<running, started, fd, online, pending, stopping, target>>
    BY DEF ConfigureFails, Got, Goto
  <1>1. /\ port' \in [Fds -> Devices \cup {None}]
        /\ \A f \in Fds : port'[f] = IF f = fd[d] THEN None ELSE port[f]
    BY <1>0, Parts, CloseFrees
  <1>2. /\ pc'[d] = s /\ pc'[Main] = pc[Main] /\ code'[d] = "start"
        /\ \A e \in Devices : e # d => pc'[e] = pc[e] /\ code'[e] = code[e]
        /\ pc' \in [Threads -> WorkerStates \cup MainStates] /\ s \in WorkerStates
        /\ code' \in [Devices -> Codes]
    BY <1>0, Parts DEF WorkerStates, TypeOK, Codes
  <1>3. TypeOK'
    BY <1>0, <1>1, <1>2, Parts DEF TypeOK
  <1>4. ThreadsSound'
    BY <1>0, <1>2, Parts DEF ThreadsSound
  <1>5. StartedSound'
    BY <1>0, <1>2, Parts DEF StartedSound
  <1>6. DescriptorsSound'
    <2>1. ASSUME NEW e \in Devices, PortClosed(e)' PROVE fd'[e] = None
      BY <1>0, <1>2, <2>1, Parts DEF DescriptorsSound, PortClosed
    <2>2. ASSUME NEW e \in Devices, NEW f \in Fds, port'[f] = e PROVE fd'[e] = f
      BY <1>0, <1>1, <2>2, Parts DEF DescriptorsSound
    <2>3. ASSUME NEW t \in Threads, NEW f \in Fds, pc'[t] = "store"
          PROVE  port'[f] # Dev(t)'
      <3>1. CASE t = d
        BY <1>0, <1>1, <1>2, <3>1, Parts DEF DescriptorsSound, Dev
      <3>2. CASE t # d
        <4>1. pc[t] = "store" /\ Dev(t)' = Dev(t)
          BY <1>0, <1>2, <2>3, <3>2 DEF Threads, Dev
        <4>2. port[f] # Dev(t) /\ Dev(t) \in Devices
          BY <4>1, <2>3, Parts DEF DescriptorsSound, ThreadsSound, Dev, Threads
        <4> QED  BY <1>1, <4>1, <4>2, Parts
      <3> QED  BY <3>1, <3>2
    <2> QED  BY <2>1, <2>2, <2>3 DEF DescriptorsSound
  <1>7. OwnPorts'
    BY <1>0, <1>1, <1>2, Parts DEF OwnPorts
  <1>8. StatusSound'
    BY <1>0, <1>2, Parts DEF StatusSound, OnlineIsOpen
  <1> QED  BY <1>3, <1>4, <1>5, <1>6, <1>7, <1>8 DEF IInv

(* A port that cannot be opened.                                           *)
LEMMA OpenFailsKeeps == ASSUME IInv, NEW d \in Devices, OpenFails(d) PROVE IInv'
  <1>1. fd[d] = None /\ port' = port /\ fd' = fd
    <2>1. fd[d] = None
      BY WorkerFacts DEF OpenFails, PortClosed
    <2> QED  BY <2>1, Parts DEF OpenFails, Closed, TypeOK
  <1>2. "handle" \in WorkerStates /\ "start" \in Codes
    BY DEF WorkerStates, Codes
  <1>3. MoveOK(d, "handle", "start", online[d])
    BY <1>1, WorkerFacts DEF MoveOK, OpenFails
  <1> QED  BY <1>1, <1>2, <1>3, WorkerFacts, QuietMoves DEF OpenFails

(* A port opened by a worker.                                              *)
LEMMA OpenKeeps == ASSUME IInv, NEW d \in Devices, Open(d) PROVE IInv'
  <1>0. fd[d] = None /\ pc[d] = "open"
    BY WorkerFacts DEF Open, PortClosed
  <1>1. PICK h \in Fds : /\ port[h] = None
                         /\ port' = [port EXCEPT ![h] = d]
                         /\ fd' = [fd EXCEPT ![d] = h]
    BY <1>0, ZenonT(60) DEF Open, Closed
  <1>2. /\ pc' = [pc EXCEPT ![d] = "configure"]
        /\ UNCHANGED <<running, started, code, online, pending, stopping, target>>
    BY DEF Open, Goto
  <1>3. /\ port' \in [Fds -> Devices \cup {None}] /\ fd' \in [Devices -> Fds \cup {None}]
        /\ \A f \in Fds : port'[f] = IF f = h THEN d ELSE port[f]
        /\ fd'[d] = h /\ \A e \in Devices : e # d => fd'[e] = fd[e]
        /\ pc'[d] = "configure" /\ pc'[Main] = pc[Main]
        /\ \A e \in Devices : e # d => pc'[e] = pc[e]
        /\ pc' \in [Threads -> WorkerStates \cup MainStates]
    BY <1>1, <1>2, Parts DEF TypeOK, WorkerStates
  <1>4. TypeOK'
    BY <1>2, <1>3, Parts DEF TypeOK, WorkerStates
  <1>5. ThreadsSound'
    BY <1>0, <1>2, <1>3, Parts DEF ThreadsSound
  <1>6. StartedSound'
    BY <1>0, <1>2, <1>3, Parts DEF StartedSound
  <1>7. DescriptorsSound'
    <2>1. ASSUME NEW e \in Devices, PortClosed(e)' PROVE fd'[e] = None
      BY <1>2, <1>3, <2>1, Parts DEF DescriptorsSound, PortClosed
    <2>2. ASSUME NEW e \in Devices, NEW f \in Fds, port'[f] = e PROVE fd'[e] = f
      BY <1>0, <1>3, <2>2, Parts DEF DescriptorsSound
    <2>3. ASSUME NEW t \in Threads, NEW f \in Fds, pc'[t] = "store"
          PROVE  port'[f] # Dev(t)'
      <3>1. t # d /\ pc[t] = "store" /\ Dev(t)' = Dev(t)
        BY <1>2, <1>3, <2>3 DEF Threads, Dev
      <3>2. port[f] # Dev(t) /\ Dev(t) # d
        BY <1>0, <3>1, Parts DEF DescriptorsSound, ThreadsSound, Dev
      <3> QED  BY <1>3, <3>1, <3>2
    <2> QED  BY <2>1, <2>2, <2>3 DEF DescriptorsSound
  <1>8. OwnPorts'
    <2> SUFFICES ASSUME running, NEW e \in Devices
                 PROVE  /\ fd'[e] # None /\ pc'[e] # "store" => port'[fd'[e]] = e
                        /\ \A f \in Fds : port'[f] = e => fd'[e] = f /\ pc'[e] # "store"
      BY <1>2 DEF OwnPorts
    <2>1. CASE e = d
      BY <1>0, <1>3, <2>1, Parts DEF OwnPorts
    <2>2. CASE e # d
      BY <1>1, <1>3, <2>2, Parts DEF OwnPorts
    <2> QED  BY <2>1, <2>2
  <1>9. StatusSound'
    BY <1>2, <1>3, Parts DEF StatusSound, OnlineIsOpen
  <1> QED  BY <1>4, <1>5, <1>6, <1>7, <1>8, <1>9 DEF IInv

(* A port set up: the device is online.                                    *)
LEMMA ConfigureKeeps == ASSUME IInv, NEW d \in Devices, Configure(d) PROVE IInv'
  <1>0. /\ pc[d] = "configure" /\ fd[d] # None
        /\ online' = [online EXCEPT ![d] = TRUE] /\ started' = [started EXCEPT ![d] = TRUE]
        /\ pc' = [pc EXCEPT ![d] = "read"]
        /\ UNCHANGED <<running, code, fd, port, pending, stopping, target>>
    BY DEF Configure, Goto
  <1>1. /\ online' \in [Devices -> BOOLEAN] /\ online'[d] = TRUE
        /\ \A e \in Devices : e # d => online'[e] = online[e]
    BY <1>0, StatusUpdate, ZenonT(60)
  <1>2. /\ pc'[d] = "read" /\ pc'[Main] = pc[Main] /\ started'[d] = TRUE
        /\ \A e \in Devices : e # d => pc'[e] = pc[e] /\ started'[e] = started[e]
        /\ pc' \in [Threads -> WorkerStates \cup MainStates]
        /\ started' \in [Devices -> BOOLEAN]
    BY <1>0, Parts DEF TypeOK, WorkerStates
  <1>3. TypeOK'
    BY <1>0, <1>1, <1>2, Parts DEF TypeOK, WorkerStates
  <1>4. ThreadsSound'
    BY <1>0, <1>2, Parts DEF ThreadsSound
  <1>5. StartedSound'
    BY <1>0, <1>2, Parts DEF StartedSound
  <1>6. DescriptorsSound'
    <2>1. ASSUME NEW e \in Devices, PortClosed(e)' PROVE fd'[e] = None
      BY <1>0, <1>2, <2>1, Parts DEF DescriptorsSound, PortClosed
    <2>2. ASSUME NEW t \in Threads, NEW f \in Fds, pc'[t] = "store"
          PROVE  port'[f] # Dev(t)'
      BY <1>0, <1>2, <2>2, Parts DEF DescriptorsSound, Dev, Threads
    <2> QED  BY <1>0, <2>1, <2>2, Parts DEF DescriptorsSound
  <1>7. OwnPorts'
    BY <1>0, <1>2, Parts DEF OwnPorts
  <1>8. StatusSound'
    BY <1>0, <1>1, <1>2, Parts DEF StatusSound, OnlineIsOpen
  <1> QED  BY <1>3, <1>4, <1>5, <1>6, <1>7, <1>8 DEF IInv

-----------------------------------------------------------------------------
(* Steps of the main thread.                                               *)

(* close() called by the main thread.                                      *)
LEMMA MainCloses == ASSUME IInv, CloseFd(Main) PROVE IInv'
  <1> DEFINE s == IF fd[target] = None THEN "offline" ELSE "store"
  <1>0. /\ pc[Main] = "close" /\ port' = Closed(port, fd[target])
        /\ pc' = [pc EXCEPT ![Main] = s] /\ target \in Devices /\ ~running
        /\ UNCHANGED <<running, started, code, fd, online, pending, stopping, target>>
    BY Parts, ZenonT(60) DEF CloseFd, Dev, Goto, ThreadsSound
  <1>1. /\ port' \in [Fds -> Devices \cup {None}]
        /\ \A f \in Fds : port'[f] = IF f = fd[target] THEN None ELSE port[f]
    BY <1>0, Parts, CloseFrees
  <1>2. /\ pc'[Main] = s /\ \A e \in Devices : pc'[e] = pc[e]
        /\ pc' \in [Threads -> WorkerStates \cup MainStates] /\ s \in MainStates
    BY <1>0, Parts DEF MainStates
  <1>3. TypeOK'
    BY <1>0, <1>1, <1>2, Parts DEF TypeOK
  <1>4. ThreadsSound'
    BY <1>0, <1>2, Parts DEF ThreadsSound, DescriptorsSound, PortClosed
  <1>5. StartedSound'
    BY <1>0, <1>2, Parts DEF StartedSound
  <1>6. DescriptorsSound'
    <2>1. ASSUME NEW e \in Devices, PortClosed(e)' PROVE fd'[e] = None
      BY <1>0, <1>2, <2>1, Parts DEF DescriptorsSound, PortClosed
    <2>2. ASSUME NEW e \in Devices, NEW f \in Fds, port'[f] = e PROVE fd'[e] = f
      BY <1>0, <1>1, <2>2, Parts DEF DescriptorsSound
    <2>3. ASSUME NEW t \in Threads, NEW f \in Fds, pc'[t] = "store"
          PROVE  port'[f] # Dev(t)'
      <3>1. CASE t = Main
        BY <1>0, <1>1, <1>2, <3>1, Parts DEF DescriptorsSound, Dev
      <3>2. CASE t # Main
        BY <1>0, <1>1, <1>2, <2>3, <3>2, Parts DEF DescriptorsSound, Dev, Threads
      <3> QED  BY <3>1, <3>2
    <2> QED  BY <2>1, <2>2, <2>3 DEF DescriptorsSound
  <1>7. OwnPorts' /\ StatusSound'
    BY <1>0, <1>2, Parts DEF OwnPorts, StatusSound, OnlineIsOpen
  <1> QED  BY <1>3, <1>4, <1>5, <1>6, <1>7 DEF IInv

(* The main thread's store to fd_.                                         *)
LEMMA MainStores == ASSUME IInv, StoreFd(Main) PROVE IInv'
  <1>0. /\ pc[Main] = "store" /\ fd' = [fd EXCEPT ![target] = None]
        /\ pc' = [pc EXCEPT ![Main] = "offline"] /\ target \in Devices /\ ~running
        /\ UNCHANGED <<running, started, code, port, online, pending, stopping, target>>
    BY Parts, ZenonT(60) DEF StoreFd, Dev, Goto, ThreadsSound
  <1>1. /\ fd' \in [Devices -> Fds \cup {None}] /\ fd'[target] = None
        /\ \A e \in Devices : e # target => fd'[e] = fd[e]
    BY <1>0, Parts DEF TypeOK
  <1>2. /\ pc'[Main] = "offline" /\ \A e \in Devices : pc'[e] = pc[e]
        /\ pc' \in [Threads -> WorkerStates \cup MainStates]
    BY <1>0, Parts DEF MainStates
  <1>3. TypeOK'
    BY <1>0, <1>1, <1>2, Parts DEF TypeOK, MainStates
  <1>4. ThreadsSound'
    BY <1>0, <1>2, Parts DEF ThreadsSound
  <1>5. StartedSound'
    BY <1>0, <1>2, Parts DEF StartedSound
  <1>6. DescriptorsSound'
    <2>1. ASSUME NEW e \in Devices, PortClosed(e)' PROVE fd'[e] = None
      BY <1>0, <1>1, <1>2, <2>1, Parts DEF DescriptorsSound, PortClosed
    <2>2. ASSUME NEW e \in Devices, NEW f \in Fds, port'[f] = e PROVE fd'[e] = f
      BY <1>0, <1>1, <2>2, Parts DEF DescriptorsSound, Dev
    <2>3. ASSUME NEW t \in Threads, NEW f \in Fds, pc'[t] = "store"
          PROVE  port'[f] # Dev(t)'
      BY <1>0, <1>2, <2>3, Parts DEF DescriptorsSound, Dev, Threads
    <2> QED  BY <2>1, <2>2, <2>3 DEF DescriptorsSound
  <1>7. OwnPorts' /\ StatusSound'
    BY <1>0, <1>2, Parts DEF OwnPorts, StatusSound, OnlineIsOpen
  <1> QED  BY <1>3, <1>4, <1>5, <1>6, <1>7 DEF IInv

(* Steps of the main thread after which the manager is not running and     *)
(* that touch no port.                                                     *)
LEMMA MainMoves ==
    ASSUME IInv, NEW s \in MainStates \ {"idle", "serve", "store"},
           pc' = [pc EXCEPT ![Main] = s], running' = FALSE,
           online' \in [Devices -> BOOLEAN],
           \A d \in Devices : online'[d] => online[d],
           UNCHANGED <<started, code, fd, port, pending>>,
           stopping' \subseteq Devices, target' \in Devices \cup {None},
           s \in {"close", "offline"} => target' \in Devices,
           s = "stopped" => \A d \in Devices : pc[d] = "exited"
    PROVE  IInv'
  <1>1. /\ pc'[Main] = s /\ \A e \in Devices : pc'[e] = pc[e]
        /\ pc' \in [Threads -> WorkerStates \cup MainStates]
    BY Parts
  <1>2. TypeOK'
    BY <1>1, Parts, ZenonT(60) DEF TypeOK
  <1>3. ThreadsSound'
    BY <1>1, Parts, ZenonT(60) DEF ThreadsSound
  <1>4. StartedSound'
    BY <1>1, Parts DEF StartedSound
  <1>5. DescriptorsSound'
    <2>1. ASSUME NEW e \in Devices, PortClosed(e)' PROVE fd'[e] = None
      BY <1>1, <2>1, Parts DEF DescriptorsSound, PortClosed
    <2>2. ASSUME NEW t \in Threads, NEW f \in Fds, pc'[t] = "store"
          PROVE  port'[f] # Dev(t)'
      BY <1>1, <2>2, Parts DEF DescriptorsSound, Dev, Threads
    <2> QED  BY <2>1, <2>2, Parts DEF DescriptorsSound
  <1>6. OwnPorts' /\ StatusSound'
    BY <1>1, Parts DEF OwnPorts, StatusSound, OnlineIsOpen
  <1> QED  BY <1>2, <1>3, <1>4, <1>5, <1>6 DEF IInv

(* Every step of the main thread.                                          *)
LEMMA MainThreadKeeps == ASSUME IInv, MainThread PROVE IInv'
  <1>0. /\ {"next", "close", "join", "stopped", "offline"}
              \subseteq MainStates \ {"idle", "serve", "store"}
        /\ online \in [Devices -> BOOLEAN] /\ stopping \subseteq Devices
        /\ target \in Devices \cup {None}
        /\ running = (pc[Main] = "serve")
    BY Parts DEF MainStates, TypeOK, ThreadsSound
  <1>1. CASE Start
    <2>1. /\ pc[Main] = "idle" /\ running' = TRUE
          /\ pc'[Main] = "serve" /\ \A d \in Devices : pc'[d] = "check" /\ pc[d] = "none"
          /\ pc' \in [Threads -> WorkerStates \cup MainStates]
          /\ UNCHANGED <<started, code, fd, port, online, pending, stopping, target>>
      BY <1>1, Parts DEF Start, ThreadsSound, WorkerStates, MainStates, Threads
    <2>2. \A d \in Devices : fd[d] = None /\ ~started[d] /\ \A f \in Fds : port[f] # d
      BY <2>1, Parts DEF DescriptorsSound, PortClosed, StartedSound
    <2>3. TypeOK'
      BY <2>1, Parts DEF TypeOK, WorkerStates, MainStates
    <2>4. ThreadsSound' /\ StartedSound'
      BY <2>1, <2>2, ZenonT(60) DEF ThreadsSound, StartedSound
    <2>5. DescriptorsSound'
      BY <2>1, <2>2, Parts DEF DescriptorsSound, PortClosed, Threads
    <2>6. OwnPorts'
      BY <2>1, <2>2 DEF OwnPorts
    <2>7. StatusSound'
      BY <2>1, Parts DEF StatusSound, OnlineIsOpen
    <2> QED  BY <2>3, <2>4, <2>5, <2>6, <2>7 DEF IInv
  <1>2. CASE StopBegin
    BY <1>0, <1>2, MainMoves, ZenonT(60) DEF StopBegin, Goto
  <1>3. CASE StopDevice
    BY <1>0, <1>3, MainMoves, ZenonT(60) DEF StopDevice, Goto
  <1>4. CASE JoinBegin
    BY <1>0, <1>4, MainMoves, ZenonT(60) DEF JoinBegin, Goto
  <1>5. CASE Joined
    BY <1>0, <1>5, MainMoves, ZenonT(60) DEF Joined, Goto
  <1>6. CASE Offline(Main)
    <2>1. /\ pc[Main] = "offline" /\ target \in Devices
          /\ online' = [online EXCEPT ![target] = FALSE]
          /\ pc' = [pc EXCEPT ![Main] = "next"]
          /\ UNCHANGED <<running, started, code, fd, port, pending, stopping, target>>
      BY <1>6, Parts DEF Offline, Dev, Goto, ThreadsSound
    <2>2. /\ online' \in [Devices -> BOOLEAN]
          /\ \A d \in Devices : online'[d] => online[d]
      BY <1>0, <2>1, StatusUpdate
    <2> QED  BY <1>0, <2>1, <2>2, MainMoves, ZenonT(60)
  <1> QED  BY <1>1, <1>2, <1>3, <1>4, <1>5, <1>6, MainCloses, MainStores
           DEF MainThread, Stop

-----------------------------------------------------------------------------
(* A process that has started nothing satisfies the invariant.             *)
LEMMA InitIInv == Init => IInv
  <1> SUFFICES ASSUME Init PROVE IInv
    OBVIOUS
  <1>1. Main \in Threads /\ Main \notin Devices /\ None \notin Devices
    BY DeviceAssumption DEF Threads
  <1>2. /\ pc[Main] = "idle" /\ \A d \in Devices : pc[d] = "none"
        /\ pc \in [Threads -> WorkerStates \cup MainStates]
    BY <1>1 DEF Init, Threads, WorkerStates, MainStates
  <1>3. running = FALSE /\ \A d \in Devices : started[d] = FALSE /\ online[d] = FALSE
    BY DEF Init
  <1>4. TypeOK
    BY <1>2, ZenonT(60) DEF Init, TypeOK, WorkerStates, MainStates, Codes
  <1>5. ThreadsSound
    BY <1>2, <1>3, ZenonT(60) DEF ThreadsSound
  <1>6. StartedSound
    BY <1>2, <1>3 DEF StartedSound
  <1>7. DescriptorsSound
    BY <1>1, <1>2 DEF Init, DescriptorsSound, Threads
  <1>8. OwnPorts /\ StatusSound
    BY <1>2, <1>3 DEF OwnPorts, StatusSound, OnlineIsOpen
  <1> QED  BY <1>4, <1>5, <1>6, <1>7, <1>8 DEF IInv

(* Every step of every thread keeps the invariant.                         *)
LEMMA NextIInv == IInv /\ [Next]_vars => IInv'
  <1> SUFFICES ASSUME IInv, [Next]_vars PROVE IInv'
    OBVIOUS
  <1>1. CASE UNCHANGED vars
    <2> USE <1>1, Parts DEF vars
    <2>1. TypeOK'
      BY DEF TypeOK
    <2>2. ThreadsSound' /\ StartedSound'
      BY DEF ThreadsSound, StartedSound, PortClosed, Dev
    <2>3. DescriptorsSound' /\ OwnPorts'
      BY DEF DescriptorsSound, OwnPorts, PortClosed, Dev
    <2>4. StatusSound'
      BY DEF StatusSound, OnlineIsOpen, PortClosed, Dev
    <2> QED  BY <2>1, <2>2, <2>3, <2>4 DEF IInv
  <1>2. CASE MainThread
    BY <1>2, MainThreadKeeps
  <1>3. ASSUME NEW d \in Devices, run_device(d) PROVE IInv'
    BY <1>3, CheckKeeps, OpenFailsKeeps, OpenKeeps, ConfigureKeeps, ConfigureFailsKeeps,
       ReadPendingKeeps, AwaitPollKeeps, RequestFailsKeeps, BeginPollKeeps, PollUntimedKeeps,
       PollTimeoutKeeps, PollFailsKeeps, PollReadyKeeps, ReceiveKeeps,
       ReceiveResponseKeeps, ReceiveFailsKeeps,
       HandlerReturnsKeeps, IntervalOverKeeps, WorkerCloses, WorkerStores, WorkerStops
    DEF run_device, Stop
  <1> QED  BY <1>1, <1>2, <1>3 DEF Next, Finished

(* The inductive invariant holds throughout.                               *)
THEOREM Invariance == Spec => []IInv
  BY InitIInv, NextIInv, PTL DEF Spec

(* fd_, the status and the program counters keep their types.              *)
THEOREM TypeCorrect == Spec => []TypeOK
  <1>1. IInv => TypeOK
    BY DEF IInv
  <1> QED  BY <1>1, Invariance, PTL

(* In normal operation every worker uses its own port, through all         *)
(* failures and reconnects.                                                *)
THEOREM PortsOwned == Spec => []OwnPorts
  <1>1. IInv => OwnPorts
    BY DEF IInv
  <1> QED  BY <1>1, Invariance, PTL

(* In normal operation a device shown online has an open port.             *)
THEOREM StatusHonest == Spec => []OnlineIsOpen
  <1>1. IInv => OnlineIsOpen
    BY DEF IInv, StatusSound
  <1> QED  BY <1>1, Invariance, PTL

(* When stop() returns the workers are gone, so nothing uses the handlers  *)
(* or the ports any more.                                                  *)
THEOREM StopQuiesces == Spec => []QuiescentAfterStop
  <1>1. IInv => QuiescentAfterStop
    BY Parts DEF QuiescentAfterStop, ThreadsSound, DescriptorsSound, PortClosed, StatusSound
  <1> QED  BY <1>1, Invariance, PTL

(* When stop() returns no descriptor is left open, although two threads    *)
(* close and store fd_ without synchronisation.                            *)
THEOREM NoDescriptorLeaks == Spec => []PortsClosedAtExit
  <1>1. IInv => PortsClosedAtExit
    <2> SUFFICES ASSUME IInv, pc[Main] = "stopped", NEW f \in Fds
                 PROVE  port[f] = None
      BY DEF PortsClosedAtExit
    <2>1. port[f] \in Devices \cup {None}
      BY Parts DEF TypeOK
    <2>2. port[f] \notin Devices
      BY Parts DEF ThreadsSound, DescriptorsSound, PortClosed
    <2> QED  BY <2>1, <2>2
  <1> QED  BY <1>1, Invariance, PTL
=============================================================================

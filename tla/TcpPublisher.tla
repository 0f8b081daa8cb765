---------------------------- MODULE TcpPublisher ----------------------------
(***************************************************************************)
(* The publication of one reading by a device worker: PublisherGroup calls *)
(* the MQTT channel (module ReliablePublisher, here a step with any        *)
(* outcome) and then TcpPublisher, which sends the reading as one line     *)
(* over TcpClient's connection under a mutex, reconnecting when needed.    *)
(* publish_sensor_data() counts the outcome, and run_gateway() closes the  *)
(* connection, without the mutex, once the workers are joined.             *)
(*                                                                         *)
(* A line is sent in Pieces pieces, send() being free to take any part of  *)
(* what it is offered; the last piece ends with the newline.               *)
(***************************************************************************)
EXTENDS Naturals, Sequences, FiniteSets

CONSTANTS Workers, Messages, Pieces,
          MaxConnections,    \* bound on the connections of one behaviour
          None

ASSUME TcpAssumption == /\ Pieces \in Nat \ {0} /\ MaxConnections \in Nat
                        /\ None \notin Workers \cup Messages \cup Nat
                        /\ None \notin {"Published", "Failed"}

VARIABLES
    mutex,          \* TcpPublisher::mutex_: its holder or None
    pc, message,    \* per worker: its next step and what it publishes
    sent,           \* per worker: send_all()'s sent_bytes
    socket_fd,      \* TcpClient::socket_fd_: a connection or None
    streams,        \* what has been handed to each connection so far
    outcome,        \* message |-> None, "Published" or "Failed"
    counted,        \* the tcp_publish_success and tcp_publish_failed totals
    main            \* run_gateway(): "running", "joining", "joined", "done"

vars == <<mutex, pc, message, sent, socket_fd, streams, outcome, counted, main>>

Connections == 1..Len(streams)

Goto(w, state) == pc' = [pc EXCEPT ![w] = state]

(* TcpPublisher::publish() returns: the lock_guard ends.                   *)
Return(w, status) ==
    /\ mutex' = None
    /\ outcome' = [outcome EXCEPT ![message[w]] = status]
    /\ Goto(w, "record")

-----------------------------------------------------------------------------
(* A worker has a valid reading: PublisherGroup::publish() begins.         *)
publish(w, m) ==
    /\ pc[w] = "idle" /\ main \in {"running", "joining"}
    /\ outcome[m] = None /\ \A v \in Workers : message[v] # m
    /\ message' = [message EXCEPT ![w] = m]
    /\ Goto(w, "mqtt")
    /\ UNCHANGED <<mutex, sent, socket_fd, streams, outcome, counted, main>>

(* The MQTT channel is done, with whatever outcome; the next one follows.  *)
MqttDone(w) ==
    /\ pc[w] = "mqtt"
    /\ Goto(w, "tcp")
    /\ UNCHANGED <<mutex, message, sent, socket_fd, streams, outcome, counted, main>>

Lock(w) ==
    /\ pc[w] = "tcp" /\ mutex = None
    /\ mutex' = w
    /\ Goto(w, IF socket_fd = None THEN "connect" ELSE "send")
    /\ sent' = [sent EXCEPT ![w] = 0]
    /\ UNCHANGED <<message, socket_fd, streams, outcome, counted, main>>

(* connect_to_server(): one of the addresses accepts,                      *)
Connect(w) ==
    /\ pc[w] = "connect" /\ Len(streams) < MaxConnections
    /\ streams' = Append(streams, <<>>)
    /\ socket_fd' = Len(streams) + 1
    /\ Goto(w, "send")
    /\ UNCHANGED <<mutex, message, sent, outcome, counted, main>>

(* or there is none, or none accepts.                                      *)
ConnectFails(w) ==
    /\ pc[w] = "connect"
    /\ Return(w, "Failed")
    /\ UNCHANGED <<message, sent, socket_fd, streams, counted, main>>

(* send_all(): one send() takes some of the line,                          *)
Send(w) ==
    /\ pc[w] = "send" /\ sent[w] < Pieces
    /\ streams' = [streams EXCEPT
                      ![socket_fd] = Append(@, <<message[w], sent[w] + 1>>)]
    /\ sent' = [sent EXCEPT ![w] = @ + 1]
    /\ UNCHANGED <<mutex, pc, message, socket_fd, outcome, counted, main>>

(* A faulty SendFails: the connection stays open.                          *)
SendFailsKeepsConnection(w) ==
    /\ pc[w] = "send" /\ sent[w] < Pieces
    /\ UNCHANGED socket_fd
    /\ Return(w, "Failed")
    /\ UNCHANGED <<message, sent, streams, counted, main>>

(* or fails, and send_json() disconnects.                                  *)
SendFails(w) ==
    /\ pc[w] = "send" /\ sent[w] < Pieces
    /\ socket_fd' = None
    /\ Return(w, "Failed")
    /\ UNCHANGED <<message, sent, streams, counted, main>>

(* A faulty SendDone: one send() is taken to have sent all.                *)
SendDoneEarly(w) ==
    /\ pc[w] = "send" /\ sent[w] > 0
    /\ Return(w, "Published")
    /\ UNCHANGED <<message, sent, socket_fd, streams, counted, main>>

SendDone(w) ==
    /\ pc[w] = "send" /\ sent[w] = Pieces
    /\ Return(w, "Published")
    /\ UNCHANGED <<message, sent, socket_fd, streams, counted, main>>

(* publish_sensor_data() records the outcome.                              *)
Record(w) ==
    /\ pc[w] = "record"
    /\ counted' = [counted EXCEPT ![outcome[message[w]]] = @ + 1]
    /\ message' = [message EXCEPT ![w] = None]
    /\ Goto(w, "idle")
    /\ UNCHANGED <<mutex, sent, socket_fd, streams, outcome, main>>

Worker(w) == \/ \E m \in Messages : publish(w, m)
             \/ MqttDone(w) \/ Lock(w) \/ Connect(w) \/ ConnectFails(w)
             \/ Send(w) \/ SendFails(w) \/ SendDone(w) \/ Record(w)

-----------------------------------------------------------------------------
(* The end of run_gateway(): device_manager.stop() joins the workers,      *)
StopDevices ==
    /\ main = "running"
    /\ main' = "joining"
    /\ UNCHANGED <<mutex, pc, message, sent, socket_fd, streams, outcome, counted>>

Join ==
    /\ main = "joining" /\ \A w \in Workers : pc[w] = "idle"
    /\ main' = "joined"
    /\ UNCHANGED <<mutex, pc, message, sent, socket_fd, streams, outcome, counted>>

(* and tcp_client.disconnect() closes the connection.                      *)
disconnect ==
    /\ main = "joined"
    /\ socket_fd' = None
    /\ main' = "done"
    /\ UNCHANGED <<mutex, pc, message, sent, streams, outcome, counted>>

Init ==
    /\ mutex = None
    /\ pc = [w \in Workers |-> "idle"]
    /\ message = [w \in Workers |-> None]
    /\ sent = [w \in Workers |-> 0]
    /\ socket_fd = None /\ streams = <<>>
    /\ outcome = [m \in Messages |-> None]
    /\ counted = [s \in {"Published", "Failed"} |-> 0]
    /\ main = "running"

Finished == main = "done" /\ UNCHANGED vars

Next == (\E w \in Workers : Worker(w)) \/ StopDevices \/ Join \/ disconnect
        \/ Finished

Spec == Init /\ [][Next]_vars

-----------------------------------------------------------------------------
TypeOK ==
    /\ mutex \in Workers \cup {None}
    /\ pc \in [Workers -> {"idle", "mqtt", "tcp", "connect", "send", "record"}]
    /\ message \in [Workers -> Messages \cup {None}]
    /\ sent \in [Workers -> 0..Pieces]
    /\ socket_fd \in Connections \cup {None}
    /\ streams \in Seq(Seq(Messages \X (1..Pieces)))
    /\ outcome \in [Messages -> {None, "Published", "Failed"}]
    /\ counted \in [{"Published", "Failed"} -> Nat]
    /\ main \in {"running", "joining", "joined", "done"}

(* The receiver can split every connection at the newlines: a line starts  *)
(* only at the beginning or after a newline, and nothing comes between two *)
(* pieces of a line, whichever sends fail and however the workers          *)
(* interleave.                                                             *)
JsonLines ==
    \A c \in Connections : \A i \in DOMAIN streams[c] :
        LET m == streams[c][i][1]
            k == streams[c][i][2]
        IN  IF k = 1 THEN i = 1 \/ streams[c][i - 1][2] = Pieces
                     ELSE i > 1 /\ streams[c][i - 1] = <<m, k - 1>>

(* The connections that were handed the newline of m.                      *)
SentOn(m) == {c \in Connections :
                 \E i \in DOMAIN streams[c] : streams[c][i] = <<m, Pieces>>}

(* publish() says Published exactly when one connection was handed the     *)
(* whole line, once; a message reported Failed is never received whole.    *)
OutcomeHonest ==
    \A m \in Messages :
        /\ outcome[m] = "Published" => Cardinality(SentOn(m)) = 1
        /\ outcome[m] = "Failed" => SentOn(m) = {}

(* disconnect() at the end of run_gateway() takes no mutex, and needs      *)
(* none: it never closes the connection a worker is sending on, and no     *)
(* worker opens one after it.                                              *)
ShutdownClean ==
    /\ \A w \in Workers : pc[w] = "send" => socket_fd # None
    /\ main = "done" => socket_fd = None

-----------------------------------------------------------------------------
(* The inductive invariant behind them.                                    *)

(* The mutex is held exactly within the use of the connection, and main    *)
(* closes the connection when no worker publishes any more.                *)
LockSound ==
    /\ \A w \in Workers : mutex = w <=> pc[w] \in {"connect", "send"}
    /\ \A w \in Workers : pc[w] = "send" => socket_fd # None
    /\ \A w \in Workers : pc[w] = "connect" => socket_fd = None /\ sent[w] = 0
    /\ main \in {"joined", "done"} => \A w \in Workers : pc[w] = "idle"
    /\ main = "done" => socket_fd = None

(* A message is published by one worker, and its outcome is open until the *)
(* call returns.                                                           *)
MessagesSound ==
    \A w \in Workers :
        /\ message[w] = None <=> pc[w] = "idle"
        /\ \A v \in Workers : message[v] = message[w] /\ message[w] # None => v = w
        /\ message[w] # None => (outcome[message[w]] = None <=> pc[w] # "record")

(* The last piece on the open connection ends a line, unless a worker is   *)
(* in the middle of one: then it is that worker's.                         *)
EndsWith(c, piece) == Len(streams[c]) > 0 /\ streams[c][Len(streams[c])] = piece

LineEnded(c) == \/ Len(streams[c]) = 0
                \/ streams[c][Len(streams[c])][2] = Pieces

ConnectionSound ==
    socket_fd # None =>
        /\ (\A w \in Workers : pc[w] = "send" => sent[w] = 0) => LineEnded(socket_fd)
        /\ \A w \in Workers : pc[w] = "send" /\ sent[w] > 0 =>
                EndsWith(socket_fd, <<message[w], sent[w]>>)

(* Whose newline has been sent: a message reported Published, or one whose *)
(* worker is about to report it.                                           *)
Whole(m) == \/ outcome[m] = "Published"
            \/ \E w \in Workers : pc[w] = "send" /\ sent[w] = Pieces /\ message[w] = m

SentSound ==
    \A m \in Messages :
        /\ Whole(m) <=> SentOn(m) # {}
        /\ \A c, d \in SentOn(m) : c = d

(* What is counted are the outcomes of the calls that have returned.       *)
Settled(s) == {m \in Messages : outcome[m] = s /\ \A w \in Workers : message[w] # m}

CountedSound ==
    \A s \in {"Published", "Failed"} :
        IsFiniteSet(Settled(s)) /\ counted[s] = Cardinality(Settled(s))

TcpIInv == /\ TypeOK /\ LockSound /\ MessagesSound /\ ConnectionSound
           /\ JsonLines /\ SentSound /\ CountedSound
=============================================================================

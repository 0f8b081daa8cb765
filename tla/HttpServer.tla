----------------------------- MODULE HttpServer -----------------------------
(***************************************************************************)
(* The life of the gateway process as the HTTP endpoints show it: the main *)
(* thread's run_gateway(), from the start of http::HttpServer to the exit, *)
(* the server's thread with the clients it serves one at a time, and the   *)
(* atomics of app::RuntimeStatus between them.                             *)
(*                                                                         *)
(* config_loaded_ and cache_ready_ are set before the server starts and    *)
(* never reset, so ready() is serial_workers_started_ here.  Of a status   *)
(* vector only the number of devices online is kept.  listen_fd_ is not    *)
(* atomic: the server thread may read it before or after stop() sets it to *)
(* -1.  Once the socket is closed accept() fails on either value, on a     *)
(* number that another thread has reopened for something else too.         *)
(***************************************************************************)
EXTENDS Naturals

CONSTANTS Clients, Inputs, None

Paths == {"/health", "/ready", "other"}    \* other: /metrics, or anything else

ASSUME HttpAssumption == Inputs \in Nat /\ None \notin Clients \cup Nat \cup Paths

VARIABLES
    main,           \* the next step of run_gateway()
    shutdown_flag,
    workers_started, online, offline, total, statuses,   \* RuntimeStatus
    running,        \* HttpServer::running_
    listening,      \* is the socket listen_fd_ open?
    server,         \* the next step of the server thread
    client,         \* the client it handles
    conn,           \* client |-> the state of its connection
    request,        \* client |-> what it has sent: None, a path or "eof"
    response,       \* the response being built
    wasUp, wasDown, \* history: serial_workers_started_ has been TRUE / FALSE
                    \* at some time since the current request was received,
    overlap         \* and main was updating the device status since then

statusVars == <<workers_started, online, offline, total, statuses, wasUp, wasDown, overlap>>
mainVars == <<main, shutdown_flag, statusVars>>
serverVars == <<server, client, response>>
clientVars == <<conn, request>>
vars == <<mainVars, running, listening, serverVars, clientVars>>

NoResponse == [code |-> None, ready |-> None, started |-> None, total |-> None,
               online |-> None, offline |-> None, statuses |-> None]

-----------------------------------------------------------------------------
(* The main thread.                                                        *)
MainStep(from, to) == main = from /\ main' = to

(* HttpServer::start(): the thread runs, or one of the calls has failed,   *)
(* what was opened is closed, and run_gateway() returns 1.                 *)
StartServer ==
    /\ MainStep("start", "flush")
    /\ running' = TRUE /\ listening' = TRUE
    /\ server' = "check"
    /\ UNCHANGED <<shutdown_flag, statusVars, client, response, clientVars>>

StartFails ==
    /\ MainStep("start", "exit")
    /\ UNCHANGED <<shutdown_flag, statusVars, running, listening, serverVars,
                   clientVars>>

(* The initial flush_cache(), device_manager.start() and the wait for the  *)
(* serial ports.                                                           *)
StartDevices ==
    /\ MainStep("flush", "online")
    /\ UNCHANGED <<shutdown_flag, statusVars, running, listening, serverVars,
                   clientVars>>

(* update_device_observability(): the three stores of set_device_counts()  *)
(* and then the vector, of one reading of statuses().                      *)
SetOnline ==
    /\ MainStep("online", "offline")
    /\ online' \in 0..Inputs
    /\ overlap' = TRUE
    /\ UNCHANGED <<shutdown_flag, workers_started, offline, total, statuses,
                   wasUp, wasDown, running, listening, serverVars, clientVars>>

SetOffline ==
    /\ MainStep("offline", "total")
    /\ offline' = Inputs - online
    /\ overlap' = TRUE
    /\ UNCHANGED <<shutdown_flag, workers_started, online, total, statuses,
                   wasUp, wasDown, running, listening, serverVars, clientVars>>

(* A faulty SetTotal: the devices offline are left out.                    *)
SetTotalOnline ==
    /\ MainStep("total", "statuses")
    /\ total' = online
    /\ overlap' = TRUE
    /\ UNCHANGED <<shutdown_flag, workers_started, online, offline, statuses,
                   wasUp, wasDown, running, listening, serverVars, clientVars>>

SetTotal ==
    /\ MainStep("total", "statuses")
    /\ total' = online + offline
    /\ overlap' = TRUE
    /\ UNCHANGED <<shutdown_flag, workers_started, online, offline, statuses,
                   wasUp, wasDown, running, listening, serverVars, clientVars>>

SetStatuses ==
    /\ MainStep("statuses", IF workers_started THEN "loop" ELSE "started")
    /\ statuses' = online
    /\ overlap' = TRUE
    /\ UNCHANGED <<shutdown_flag, workers_started, online, offline, total,
                   wasUp, wasDown, running, listening, serverVars, clientVars>>

SetStarted(value) ==
    /\ workers_started' = value
    /\ wasUp' = (wasUp \/ value) /\ wasDown' = (wasDown \/ ~value)
    /\ UNCHANGED <<shutdown_flag, online, offline, total, statuses, overlap,
                   running, listening, serverVars, clientVars>>

WorkersStarted == MainStep("started", "loop") /\ SetStarted(TRUE)

(* wait_for_shutdown(): the retry interval is over, and flush_cache() and  *)
(* the next update follow,                                                 *)
IntervalOver ==
    /\ MainStep("loop", "online") /\ ~shutdown_flag
    /\ UNCHANGED <<shutdown_flag, statusVars, running, listening, serverVars,
                   clientVars>>

(* or the flag is seen, and the gateway stops.                             *)
WorkersStopped == MainStep("loop", "stop") /\ shutdown_flag /\ SetStarted(FALSE)

(* HttpServer::stop()                                                      *)
StopRunning ==
    /\ MainStep("stop", "close")
    /\ running' = FALSE
    /\ UNCHANGED <<shutdown_flag, statusVars, listening, serverVars, clientVars>>

StopClose ==
    /\ MainStep("close", "join")
    /\ listening' = FALSE
    /\ UNCHANGED <<shutdown_flag, statusVars, running, serverVars, clientVars>>

StopJoin ==
    /\ MainStep("join", "exit") /\ server = "exited"
    /\ UNCHANGED <<shutdown_flag, statusVars, running, listening, serverVars,
                   clientVars>>

MainThread ==
    \/ StartServer \/ StartFails \/ StartDevices
    \/ SetOnline \/ SetOffline \/ SetTotal \/ SetStatuses \/ WorkersStarted
    \/ IntervalOver \/ WorkersStopped \/ StopRunning \/ StopClose \/ StopJoin

handle_shutdown_signal ==
    /\ ~shutdown_flag
    /\ shutdown_flag' = TRUE
    /\ UNCHANGED <<main, statusVars, running, listening, serverVars, clientVars>>

-----------------------------------------------------------------------------
(* The server thread.                                                      *)
ServerStep(from, to) == server = from /\ server' = to

(* serve(): the loop's condition.                                          *)
Check ==
    /\ ServerStep("check", IF running THEN "accept" ELSE "exited")
    /\ UNCHANGED <<mainVars, running, listening, client, response, clientVars>>

Accept(c) ==
    /\ ServerStep("accept", "wait") /\ listening /\ conn[c] = "queued"
    /\ client' = c
    /\ conn' = [conn EXCEPT ![c] = "open"]
    /\ UNCHANGED <<mainVars, running, listening, response, request>>

(* A faulty AcceptFails: any failure ends the loop.                        *)
AcceptFailsExits ==
    /\ ServerStep("accept", "exited") /\ listening
    /\ UNCHANGED <<mainVars, running, listening, client, response, clientVars>>

(* accept() fails for a reason of its own: the loop goes on if running_.   *)
AcceptFails ==
    /\ ServerStep("accept", "check") /\ listening
    /\ UNCHANGED <<mainVars, running, listening, client, response, clientVars>>

(* accept() fails because stop() has closed the socket.                    *)
AcceptClosed ==
    /\ ServerStep("accept", "exited") /\ ~listening
    /\ UNCHANGED <<mainVars, running, listening, client, response, clientVars>>

(* handle_client() returns, and serve() closes the connection.             *)
CloseClient ==
    /\ conn' = [conn EXCEPT ![client] = "closed"]
    /\ client' = None
    /\ response' = NoResponse
    /\ UNCHANGED <<mainVars, running, listening, request>>

(* A faulty Wait: running_ is not looked at.                               *)
WaitForever ==
    /\ ServerStep("wait", "poll")
    /\ UNCHANGED <<mainVars, running, listening, client, response, clientVars>>

(* handle_client(): poll() for 250 ms while running_.                      *)
Wait ==
    /\ ServerStep("wait", IF running THEN "poll" ELSE "recv")
    /\ UNCHANGED <<mainVars, running, listening, client, response, clientVars>>

PollReady ==
    /\ ServerStep("poll", "recv") /\ request[client] # None
    /\ UNCHANGED <<mainVars, running, listening, client, response, clientVars>>

PollTimeout ==
    /\ ServerStep("poll", "wait") /\ request[client] = None
    /\ UNCHANGED <<mainVars, running, listening, client, response, clientVars>>

PollFails == ServerStep("poll", "check") /\ CloseClient

(* A faulty Drop: the connection is not closed.                            *)
DropLeaks ==
    /\ ServerStep("recv", "check")
    /\ ~running \/ request[client] = "eof"
    /\ client' = None
    /\ UNCHANGED <<mainVars, running, listening, response, clientVars>>

(* Not running any more, or nothing received: no response.                 *)
Drop ==
    /\ ServerStep("recv", "check")
    /\ ~running \/ request[client] = "eof"
    /\ CloseClient

(* recv() and the parsing of the request line.                             *)
Receive ==
    /\ ServerStep("recv", "read") /\ running /\ request[client] \in Paths
    /\ wasUp' = workers_started /\ wasDown' = ~workers_started
    /\ overlap' = (main \in {"offline", "total", "statuses"})
    /\ UNCHANGED <<main, shutdown_flag, workers_started, online, offline, total,
                   statuses, running, listening, client, response, clientVars>>

(* The reads of RuntimeStatus, one by one.                                 *)
Requested(path) == server = "read" /\ request[client] = path

Read(field, value, to) ==
    /\ response[field] = None
    /\ response' = [response EXCEPT ![field] = value]
    /\ ServerStep("read", to)
    /\ UNCHANGED <<mainVars, running, listening, client, clientVars>>

Has(field) == response[field] # None

(* /health: health_json().                                                 *)
ReadHealth ==
    /\ Requested("/health")
    /\ \/ Read("statuses", statuses, "read")
       \/ Has("statuses") /\ Read("total", total, "read")
       \/ Has("total") /\ Read("online", online, "read")
       \/ Has("online") /\ Read("offline", offline, "read")
       \/ Has("offline") /\ Read("code", 200, "send")

(* A faulty ReadReady: the code is always 200.                             *)
ReadReadyAlways ==
    /\ Requested("/ready")
    /\ \/ /\ Has("started") => Has("total")
          /\ Read("code", 200, IF Has("total") THEN "send" ELSE "read")
       \/ Read("started", workers_started, "read")
       \/ Has("started") /\ Read("ready", workers_started, "read")
       \/ Has("ready") /\ Read("total", total, IF Has("code") THEN "send" ELSE "read")

(* /ready: the code from ready(), and the body from readiness_json(),      *)
(* which reads the flags for "checks" and calls ready() again for "ready". *)
(* They are arguments of one call: either is evaluated first.              *)
ReadReady ==
    /\ Requested("/ready")
    /\ \/ /\ Has("started") => Has("total")
          /\ Read("code", IF workers_started THEN 200 ELSE 503,
                  IF Has("total") THEN "send" ELSE "read")
       \/ Read("started", workers_started, "read")
       \/ Has("started") /\ Read("ready", workers_started, "read")
       \/ Has("ready") /\ Read("total", total, IF Has("code") THEN "send" ELSE "read")

(* /metrics, or the 404.                                                   *)
ReadOther ==
    /\ Requested("other")
    /\ \E code \in {200, 404} : Read("code", code, "send")

(* send_all() succeeds or fails, and the connection is closed.  send() has *)
(* no timeout; a response of a few KB fits into the empty send buffer of   *)
(* the connection, so that it does not wait for the client.                *)
SendResponse == ServerStep("send", "check") /\ CloseClient

Server == \/ Check \/ (\E c \in Clients : Accept(c)) \/ AcceptFails
          \/ AcceptClosed \/ Wait \/ PollReady \/ PollTimeout \/ PollFails
          \/ Drop \/ Receive \/ ReadHealth \/ ReadReady \/ ReadOther
          \/ SendResponse

-----------------------------------------------------------------------------
(* A client connects, and sends a request or closes, in its own time.      *)
ClientConnects(c) ==
    /\ conn[c] = "none" /\ listening
    /\ conn' = [conn EXCEPT ![c] = "queued"]
    /\ UNCHANGED <<mainVars, running, listening, serverVars, request>>

ClientSends(c) ==
    /\ conn[c] \in {"queued", "open"} /\ request[c] = None
    /\ \E r \in Paths \cup {"eof"} : request' = [request EXCEPT ![c] = r]
    /\ UNCHANGED <<mainVars, running, listening, serverVars, conn>>

Init ==
    /\ main = "start" /\ shutdown_flag = FALSE
    /\ workers_started = FALSE
    /\ online = 0 /\ offline = 0 /\ total = 0 /\ statuses = 0
    /\ running = FALSE /\ listening = FALSE
    /\ server = "none" /\ client = None /\ response = NoResponse
    /\ conn = [c \in Clients |-> "none"]
    /\ request = [c \in Clients |-> None]
    /\ wasUp = FALSE /\ wasDown = TRUE /\ overlap = FALSE

Finished == main = "exit" /\ UNCHANGED vars

Next == \/ MainThread \/ handle_shutdown_signal \/ Server
        \/ (\E c \in Clients : ClientConnects(c) \/ ClientSends(c))
        \/ Finished

Spec == Init /\ [][Next]_vars

(* Both threads are scheduled; no client is assumed to do anything.        *)
FairSpec == Spec /\ WF_vars(MainThread) /\ WF_vars(Server)

(* No client stays silent for ever, and accept() does not fail for ever.   *)
TalkativeClients ==
    \A c \in Clients : SF_vars(Accept(c)) /\ WF_vars(ClientSends(c))

-----------------------------------------------------------------------------
Bool == BOOLEAN \cup {None}
Number == 0..Inputs \cup {None}

TypeOK ==
    /\ main \in {"start", "flush", "online", "offline", "total", "statuses",
                 "started", "loop", "stop", "close", "join", "exit"}
    /\ shutdown_flag \in BOOLEAN /\ workers_started \in BOOLEAN
    /\ running \in BOOLEAN /\ listening \in BOOLEAN
    /\ wasUp \in BOOLEAN /\ wasDown \in BOOLEAN /\ overlap \in BOOLEAN
    /\ online \in 0..Inputs /\ offline \in 0..Inputs /\ statuses \in 0..Inputs
    /\ total \in 0..(2 * Inputs)
    /\ server \in {"none", "check", "accept", "wait", "poll", "recv", "read",
                   "send", "exited"}
    /\ client \in Clients \cup {None}
    /\ conn \in [Clients -> {"none", "queued", "open", "closed"}]
    /\ request \in [Clients -> Paths \cup {None, "eof"}]
    /\ response \in [code : {None, 200, 404, 503}, ready : Bool, started : Bool,
                     total : 0..(2 * Inputs) \cup {None}, online : Number,
                     offline : Number, statuses : Number]

Sending(path) == server = "send" /\ request[client] = path

(* The status code of /ready is that of a moment at which the request was  *)
(* being handled: 200 only if the gateway was ready, 503 only if it was    *)
(* not, at some time since the request was received.                       *)
ReadyCurrent ==
    Sending("/ready") => IF response.code = 200 THEN wasUp ELSE wasDown

(* /health reads the device status field by field while main writes it     *)
(* field by field; a request during which main writes none of it gets      *)
(* fields that agree with each other.                                      *)
HealthConsistent ==
    Sending("/health") /\ ~overlap =>
        /\ response.total = response.online + response.offline
        /\ response.statuses = response.online

(* The server serves one client at a time and closes every connection it   *)
(* accepts, also when it is stopped in the middle of a request; when the   *)
(* process exits the server's thread has ended.                            *)
ConnectionsClosed ==
    /\ \A c \in Clients : conn[c] = "open" <=> c = client
    /\ server \in {"none", "check", "accept", "exited"} => client = None
    /\ main = "exit" => ~running /\ ~listening /\ server \in {"none", "exited"}

(* The inductive invariant behind the three properties above.              *)

(* The server thread exists from start() on, and when stop() has joined it *)
(* nothing of the server is left.                                          *)
LifeSound ==
    /\ main = "start" => server = "none"
    /\ server = "none" => main \in {"start", "exit"}
    /\ main \in {"start", "close", "join", "exit"} => ~running
    /\ main \in {"start", "join", "exit"} => ~listening
    /\ main = "exit" => server \in {"none", "exited"}

(* The one client with an open connection is the one being handled.        *)
ClientSound ==
    /\ client = None <=> server \in {"none", "check", "accept", "exited"}
    /\ \A c \in Clients : conn[c] = "open" <=> c = client
    /\ server \in {"read", "send"} => request[client] \in Paths

(* The device counts agree whenever main is not updating them; in the      *)
(* middle of an update, the part that has been written does.               *)
Updating == main \in {"offline", "total", "statuses"}

CountsSound ==
    /\ main = "statuses" \/ ~Updating => total = online + offline
    /\ ~Updating => statuses = online

(* The histories cover the present.                                        *)
HistorySound ==
    /\ IF workers_started THEN wasUp ELSE wasDown
    /\ server \in {"read", "send"} /\ Updating => overlap

(* A response under construction: only what this request has read, each    *)
(* field after those that the code reads before it.                        *)
HealthResponseSound ==
    /\ Has("total") => Has("statuses")
    /\ Has("online") => Has("total")
    /\ Has("offline") => Has("online")
    /\ server = "send" => Has("offline")
    /\ ~overlap =>
          /\ Has("statuses") => response.statuses = statuses
          /\ Has("total") => response.total = total
          /\ Has("online") => response.online = online
          /\ Has("offline") => response.offline = offline

ReadyResponseSound ==
    /\ response.code \in {None, 200, 503}
    /\ response.code = 200 => wasUp
    /\ response.code = 503 => wasDown
    /\ server = "send" => Has("code")

ResponseSound ==
    /\ server \notin {"read", "send"} => response = NoResponse
    /\ server \in {"read", "send"} /\ request[client] = "/health" => HealthResponseSound
    /\ server \in {"read", "send"} /\ request[client] = "/ready" => ReadyResponseSound

IInv == /\ TypeOK /\ LifeSound /\ ClientSound /\ CountsSound /\ HistorySound
        /\ ResponseSound

(* stop() returns, whatever the clients do or do not do: also when one     *)
(* never sends a request, or does not read its response.                   *)
StopReturns == shutdown_flag /\ main = "loop" ~> main = "exit"

(* Unless the server is stopped, a client that has connected is dealt      *)
(* with, even if accept() sometimes fails and others come first, provided  *)
(* that no client keeps the one server thread waiting for ever.            *)
ClientsServed ==
    TalkativeClients =>
        \A c \in Clients : conn[c] = "queued" ~> conn[c] = "closed" \/ ~running
=============================================================================

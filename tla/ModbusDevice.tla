---------------------------- MODULE ModbusDevice ----------------------------
(***************************************************************************)
(* ModbusDevice::read() in time: the wait for the next poll, the request,  *)
(* the collection of the response against a deadline, what DeviceManager's *)
(* run_device() makes of the result, and the heartbeat that statuses()     *)
(* applies to the last update.                                             *)
(*                                                                         *)
(* Time passes in ticks.  The code only compares instants, so the state    *)
(* has the time left until an instant or the time since it, and needs no   *)
(* bound on time.  A tick may also pass while the thread could run, at     *)
(* most MaxPreempt times in one poll: it was preempted.  The slave is the  *)
(* environment: it answers within Latency ticks, in one or two pieces, or  *)
(* not at all.                                                             *)
(***************************************************************************)
EXTENDS Integers, Sequences

CONSTANTS PollInterval, ResponseTimeout,   \* of the configuration
          ReadTimeout,                     \* the 250 ms of run_device()
          ReconnectInterval,
          Second,                          \* the ticks of a second
          HeartbeatTimeout,                \* in seconds
          Latency, MaxPreempt,
          MaxSteps                         \* bound: steps of the system clock

ASSUME TimeAssumption ==
    /\ {PollInterval, ResponseTimeout, ReadTimeout, ReconnectInterval, Second,
        HeartbeatTimeout} \subseteq Nat \ {0}
    /\ {Latency, MaxPreempt, MaxSteps} \subseteq Nat

(* A slave is never so late that its answer meets the next request.        *)
ASSUME LatencyAssumption == Latency + MaxPreempt < PollInterval

(* A device that answers every poll answers within the heartbeat window.   *)
ASSUME HeartbeatAssumption ==
    PollInterval + ResponseTimeout + 2 * MaxPreempt <= HeartbeatTimeout * Second

VARIABLES
    pc,             \* the next step of the worker
    until_poll,     \* next_poll_ - now, or 0 when that has passed
    until_deadline, \* deadline - now, or -1 when it has passed
    wake,           \* what is left of a sleep or of the timeout of poll()
    response,       \* the pieces read so far
    outcome,        \* the ReadCode of the last read()
    online,         \* status_.online
    line,           \* the pieces in the input queue of the port
    coming,         \* the pieces the slave has still to send
    lag,            \* bound: the preemptions of this poll
    recorded,       \* calls of record_error() in this iteration
    counted,        \* what it added to gateway_modbus_error_total
    age,            \* system clock - last_update (or start), in seconds
    phase,          \* the ticks of the current second
    silent,         \* history: the ticks since the last update (or start)
    shift,          \* history: the clock steps since then, in seconds
    steps,          \* bound: all clock steps
    healthy         \* history: every poll since then was answered in time

thread == <<pc, until_poll, until_deadline, wake, response, outcome, online,
            recorded, counted, healthy>>
clock == <<age, phase, silent, shift, steps>>
vars == <<thread, line, coming, lag, clock>>

Forever == -1

None == "None"   \* no read() has returned in this iteration

(* The kinds of answers, as the pieces they come in: the registers, a      *)
(* response to reject (an exception, a wrong checksum or value), one that  *)
(* announces more bytes than come, or nothing.                             *)
Answers == {<<>>, <<"good1", "good2">>, <<"rejected">>, <<"long">>}

(* The size announced has been read: the loop ends.                        *)
Complete(r) == \E i \in DOMAIN r : r[i].part \in {"good2", "rejected"}

(* parse_read_response() and registers_to_device_data() accept it.         *)
Accepted(r) == Len(r) = 2 /\ r[1].part = "good1" /\ r[2].part = "good2"

Lower(x, y) == IF x < y THEN x ELSE y

-----------------------------------------------------------------------------
(* The worker.                                                             *)

(* read() returns.                                                         *)
Return(code) ==
    /\ outcome' = code
    /\ pc' = "handle"

(* start() opens the port, which has no input yet.                         *)
Start ==
    /\ pc = "start"
    /\ until_poll' = 0 /\ online' = TRUE
    /\ recorded' = 0 /\ counted' = 0 /\ outcome' = None
    /\ line' = <<>>
    /\ coming' = [i \in DOMAIN coming |-> [coming[i] EXCEPT !.of = "reopened"]]
    /\ pc' = "loop"
    /\ UNCHANGED <<until_deadline, wake, response, healthy, lag, clock>>

(* or fails: it records the error, the handler is called and the worker    *)
(* sleeps.                                                                 *)
StartFails ==
    /\ pc = "start"
    /\ recorded' = 1 /\ counted' = 1 /\ outcome' = None
    /\ wake' = ReconnectInterval
    /\ pc' = "sleep"
    /\ UNCHANGED <<until_poll, until_deadline, response, online, healthy,
                   line, coming, lag, clock>>

SleepEnds ==
    /\ pc = "sleep" /\ wake = 0
    /\ pc' = "start"
    /\ UNCHANGED <<until_poll, until_deadline, wake, response, outcome, online, recorded,
                   counted, healthy, line, coming, lag, clock>>

(* read() before next_poll_ sleeps                                         *)
Wait ==
    /\ pc = "loop" /\ until_poll > 0
    /\ wake' = Lower(ReadTimeout, until_poll)
    /\ recorded' = 0 /\ counted' = 0 /\ outcome' = None
    /\ pc' = "wait"
    /\ UNCHANGED <<until_poll, until_deadline, response, online, healthy,
                   line, coming, lag, clock>>

(* and returns a result without an error text, whose code is Timeout.      *)
WaitEnds ==
    /\ pc = "wait" /\ wake = 0
    /\ Return("Waited")
    /\ UNCHANGED <<until_poll, until_deadline, wake, response, online, recorded, counted,
                   healthy, line, coming, lag, clock>>

(* read() at next_poll_ begins a poll.                                     *)
Poll ==
    /\ pc = "loop" /\ until_poll = 0
    /\ until_poll' = PollInterval
    /\ recorded' = 0 /\ counted' = 0 /\ outcome' = None
    /\ lag' = 0
    /\ pc' = "discard"
    /\ UNCHANGED <<until_deadline, wake, response, online, healthy, line, coming, clock>>

(* A faulty Discard: the input is kept.                                    *)
DiscardNothing ==
    /\ pc = "discard"
    /\ pc' = "write"
    /\ UNCHANGED <<until_poll, until_deadline, wake, response, outcome, online, recorded,
                   counted, healthy, line, coming, lag, clock>>

(* discard_input()                                                         *)
Discard ==
    /\ pc = "discard"
    /\ line' = <<>>
    /\ pc' = "write"
    /\ UNCHANGED <<until_poll, until_deadline, wake, response, outcome, online, recorded,
                   counted, healthy, coming, lag, clock>>

(* What is under way when a request is written answers an earlier one.     *)
Earlier(p) == IF p.of = "this" THEN [p EXCEPT !.of = "earlier"] ELSE p

(* write_all(): the slave has the request; on a line for one direction at  *)
(* a time it does not hear one while it is answering.                      *)
Write ==
    /\ pc = "write"
    /\ \E answer \in IF coming = <<>> THEN Answers ELSE {<<>>} :
          coming' = [i \in DOMAIN coming |-> Earlier(coming[i])]
                      \o [i \in DOMAIN answer |->
                             [part |-> answer[i], of |-> "this", left |-> Latency]]
    /\ line' = [i \in DOMAIN line |-> Earlier(line[i])]
    /\ pc' = "deadline"
    /\ UNCHANGED <<until_poll, until_deadline, wake, response, outcome, online, recorded,
                   counted, healthy, lag, clock>>

SetDeadline ==
    /\ pc = "deadline"
    /\ until_deadline' = ResponseTimeout
    /\ pc' = "test"
    /\ UNCHANGED <<until_poll, wake, response, outcome, online, recorded, counted, healthy,
                   line, coming, lag, clock>>

(* The condition of the loop, with its own reading of the clock.           *)
Test ==
    /\ pc = "test"
    /\ pc' = IF until_deadline > 0 /\ ~Complete(response) THEN "remaining" ELSE "finish"
    /\ UNCHANGED <<until_poll, until_deadline, wake, response, outcome, online, recorded,
                   counted, healthy, line, coming, lag, clock>>

(* A faulty Remaining: no time left is handed to poll() as no timeout.     *)
RemainingNone ==
    /\ pc = "remaining"
    /\ wake' = IF until_deadline <= 0 THEN Forever ELSE until_deadline
    /\ pc' = "poll"
    /\ UNCHANGED <<until_poll, until_deadline, response, outcome, online, recorded, counted,
                   healthy, line, coming, lag, clock>>

(* The timeout of poll(), with another one; a negative timeout is none.    *)
Remaining ==
    /\ pc = "remaining"
    /\ wake' = IF until_deadline < 0 THEN Forever ELSE until_deadline
    /\ pc' = "poll"
    /\ UNCHANGED <<until_poll, until_deadline, response, outcome, online, recorded, counted,
                   healthy, line, coming, lag, clock>>

(* read_some(): poll() finds input and read() takes all of it,             *)
ReadSome ==
    /\ pc = "poll" /\ line # <<>>
    /\ response' = response \o line
    /\ line' = <<>>
    /\ pc' = "test"
    /\ UNCHANGED <<until_poll, until_deadline, wake, outcome, online, recorded, counted,
                   healthy, coming, lag, clock>>

(* or nothing: the time is up, or a signal interrupts read().              *)
PollTimeout ==
    /\ pc = "poll" /\ (line = <<>> => wake = 0)
    /\ pc' = "finish"
    /\ UNCHANGED <<until_poll, until_deadline, wake, response, outcome, online, recorded,
                   counted, healthy, line, coming, lag, clock>>

(* discard_input(), write_all() or read_some() fail.                       *)
TransportFails ==
    /\ pc \in {"discard", "write", "poll"}
    /\ recorded' = recorded + 1
    /\ online' = FALSE /\ healthy' = FALSE
    /\ Return("TransportError")
    /\ UNCHANGED <<until_poll, until_deadline, wake, response, counted, line, coming, lag,
                   clock>>

(* A faulty NoData: a response that is not accepted counts as an update.   *)
NoDataUpdates ==
    /\ pc = "finish" /\ ~Accepted(response)
    /\ recorded' = recorded + 1
    /\ online' = IF response = <<>> THEN FALSE ELSE online
    /\ age' = IF response = <<>> THEN age ELSE 0
    /\ healthy' = FALSE
    /\ Return(IF response = <<>> THEN "Timeout" ELSE "ProtocolError")
    /\ UNCHANGED <<until_poll, until_deadline, wake, response, counted, line, coming, lag,
                   phase, silent, shift, steps>>

(* The end of read(): no response, one that is not accepted,               *)
NoData ==
    /\ pc = "finish" /\ ~Accepted(response)
    /\ recorded' = recorded + 1
    /\ online' = IF response = <<>> THEN FALSE ELSE online
    /\ healthy' = FALSE
    /\ Return(IF response = <<>> THEN "Timeout" ELSE "ProtocolError")
    /\ UNCHANGED <<until_poll, until_deadline, wake, response, counted, line, coming, lag,
                   clock>>

(* or the registers.                                                       *)
Data ==
    /\ pc = "finish" /\ Accepted(response)
    /\ online' = TRUE
    /\ age' = 0 /\ silent' = 0 /\ shift' = 0
    /\ healthy' = TRUE
    /\ Return("Data")
    /\ UNCHANGED <<until_poll, until_deadline, wake, response, recorded, counted, line,
                   coming, lag, phase, steps>>

(* read() has returned: its local variables are gone.                      *)
LocalsEnd == until_deadline' = -1 /\ wake' = 0 /\ response' = <<>>

(* A faulty Handle: a timeout is not reported.                             *)
HandleNoTimeout ==
    /\ pc = "handle"
    /\ counted' = counted + (IF outcome \in {"Data", "Timeout"} THEN 0 ELSE 1)
    /\ pc' = IF outcome = "TransportError" THEN "start" ELSE "loop"
    /\ LocalsEnd
    /\ UNCHANGED <<until_poll, outcome, online, recorded, healthy, line, coming, lag, clock>>

(* run_device() calls the error handler for everything but data, and stops *)
(* the device after a transport error.                                     *)
Handle ==
    /\ pc = "handle"
    /\ counted' = counted + (IF outcome = "Data" THEN 0 ELSE 1)
    /\ pc' = IF outcome = "TransportError" THEN "start" ELSE "loop"
    /\ LocalsEnd
    /\ UNCHANGED <<until_poll, outcome, online, recorded, healthy, line, coming, lag, clock>>

Worker ==
    \/ Start \/ StartFails \/ SleepEnds \/ Wait \/ WaitEnds \/ Poll \/ Discard \/ Write
    \/ SetDeadline \/ Test \/ Remaining \/ ReadSome \/ PollTimeout \/ NoData \/ Data
    \/ Handle

-----------------------------------------------------------------------------
(* The slave: its next piece arrives, or the rest of its answer is lost.   *)
Arrive ==
    /\ coming # <<>>
    /\ line' = Append(line, Head(coming))
    /\ coming' = Tail(coming)
    /\ UNCHANGED <<thread, lag, clock>>

Lose ==
    /\ coming # <<>>
    /\ coming' = <<>>
    /\ UNCHANGED <<thread, line, lag, clock>>

(* The worker is blocked until the time is up or poll() has input.         *)
Blocked ==
    \/ pc \in {"sleep", "wait"} /\ wake > 0
    \/ pc = "poll" /\ wake # 0 /\ line = <<>>

(* Histories need no more than what the properties compare.                *)
MaxSilent == (HeartbeatTimeout + 1 + MaxSteps) * Second

Tick ==
    /\ \A i \in DOMAIN coming : coming[i].left > 0
    /\ Blocked \/ lag < MaxPreempt
    /\ lag' = IF Blocked THEN lag ELSE lag + 1
    /\ until_poll' = IF until_poll > 0 THEN until_poll - 1 ELSE 0
    /\ until_deadline' = IF until_deadline >= 0 THEN until_deadline - 1 ELSE -1
    /\ wake' = IF wake > 0 THEN wake - 1 ELSE wake
    /\ coming' = [i \in DOMAIN coming |-> [coming[i] EXCEPT !.left = @ - 1]]
    /\ phase' = (phase + 1) % Second
    /\ IF silent < MaxSilent
       THEN /\ silent' = silent + 1
            /\ age' = age + (IF phase' = 0 THEN 1 ELSE 0)
       ELSE UNCHANGED <<silent, age>>
    /\ UNCHANGED <<pc, response, outcome, online, recorded, counted, healthy, line, shift,
                   steps>>

(* The system clock is set.                                                *)
StepClock ==
    /\ steps < MaxSteps
    /\ \E d \in {-1, 1} : age' = age + d /\ shift' = shift + d
    /\ steps' = steps + 1
    /\ UNCHANGED <<thread, line, coming, lag, phase, silent>>

Init ==
    /\ pc = "start"
    /\ until_poll = 0 /\ until_deadline = -1 /\ wake = 0
    /\ response = <<>> /\ outcome = None /\ online = FALSE
    /\ line = <<>> /\ coming = <<>> /\ lag = 0
    /\ recorded = 0 /\ counted = 0
    /\ age = 0 /\ phase \in 0..(Second - 1) /\ silent = 0 /\ shift = 0 /\ steps = 0
    /\ healthy = FALSE

(* Time passes, and with it what comes over the line.                      *)
Elapse == Arrive \/ Lose \/ Tick

Next == Worker \/ TransportFails \/ Elapse \/ StepClock

Spec == Init /\ [][Next]_vars

(* The worker is scheduled and time passes; no failure of the port is      *)
(* counted on, so that a poll() without a timeout may block for ever.      *)
FairSpec == Spec /\ WF_vars(Worker) /\ WF_vars(Elapse)

-----------------------------------------------------------------------------
TypeOK ==
    /\ pc \in {"start", "sleep", "loop", "wait", "discard", "write", "deadline", "test",
               "remaining", "poll", "finish", "handle"}
    /\ until_poll \in 0..PollInterval
    /\ until_deadline \in -1..ResponseTimeout
    /\ wake \in Nat \cup {Forever}
    /\ outcome \in {None, "Waited", "Data", "Timeout", "ProtocolError", "TransportError"}
    /\ online \in BOOLEAN /\ healthy \in BOOLEAN
    /\ lag \in 0..MaxPreempt /\ recorded \in 0..1 /\ counted \in 0..1
    /\ phase \in 0..(Second - 1) /\ silent \in 0..MaxSilent
    /\ steps \in 0..MaxSteps

(* A faulty ShownOnline: the window ends one second early.                 *)
ShownOnlineShort == online /\ ~(age >= HeartbeatTimeout)

(* DeviceManager::statuses().                                              *)
ShownOnline == online /\ ~(age > HeartbeatTimeout)

(* The reading an accepted response carries is the answer to the request   *)
(* of this poll, not a late answer to an earlier one: whenever an answer   *)
(* comes before the next request (LatencyAssumption), also after its poll  *)
(* has timed out, discard_input() removes it.  Only an answer under way    *)
(* when the port was reopened may still be taken.                          *)
AnswersOwnRequest ==
    pc = "handle" /\ outcome = "Data" =>
        \A i \in DOMAIN response : response[i].of # "earlier"

(* No error is missing from /metrics: what record_error() has added to the *)
(* error count of the status, on any path through start() and read(), the  *)
(* error handler has added to the counter by the end of the iteration.     *)
ErrorsCounted == pc \in {"loop", "start"} => recorded <= counted

(* A device that has been silent for the heartbeat window, and a second    *)
(* for the rounding, is shown offline; steps of the system clock move the  *)
(* end of the window by as much as they move the clock.                    *)
StaleShownOffline ==
    silent >= (HeartbeatTimeout + 1 - shift) * Second => ~ShownOnline

(* A device that has answered every poll is never shown offline, unless    *)
(* the system clock was set forward.                                       *)
HealthyShownOnline == healthy /\ shift <= 0 => ShownOnline

(* A read() that waits for a response returns, whether or not the slave    *)
(* ever answers.                                                           *)
TimeoutRecorded == pc = "poll" ~> pc = "handle"

-----------------------------------------------------------------------------
(* The inductive invariant behind them.                                    *)

Pieces == [part : {"good1", "good2", "rejected", "long"},
           of : {"this", "reopened"},
           left : 0..Latency]

(* No piece answers an earlier request: one that is under way when         *)
(* next_poll_ comes arrives before it, and what has arrived is discarded.  *)
LineSound ==
    /\ response \in Seq(Pieces) /\ line \in Seq(Pieces) /\ coming \in Seq(Pieces)
    /\ \A i \in DOMAIN coming : coming[i].of = "this" => coming[i].left < until_poll
    /\ pc \in {"discard", "write"} =>
          /\ until_poll + lag >= PollInterval
          /\ \A i \in DOMAIN coming : coming[i].of # "this"
    /\ pc = "write" => \A i \in DOMAIN line : line[i].of # "this"

(* What an iteration of run_device() has recorded and counted so far.      *)
ErrorsSound ==
    /\ pc \notin {"handle", "sleep", "loop", "start"} => recorded = 0 /\ counted = 0
    /\ pc = "handle" =>
          /\ counted = 0
          /\ recorded = IF outcome \in {"Waited", "Data"} THEN 0 ELSE 1
    /\ pc = "sleep" => recorded = 1 /\ counted = 1 /\ outcome = None
    /\ pc \in {"loop", "start"} =>
          counted = recorded + (IF outcome = "Waited" THEN 1 ELSE 0)

Elapsed == (age - shift) * Second

(* The age counts the seconds begun since the last update: as long as the  *)
(* histories run it is exact up to the phase at that update, and it is     *)
(* always less than a second off.                                          *)
AgeSound ==
    /\ age \in Int /\ shift \in Int
    /\ silent < MaxSilent => Elapsed + phase - silent \in 0..(Second - 1)
    /\ Elapsed - silent \in (1 - Second)..(Second - 1)

IInv == TypeOK /\ LineSound /\ ErrorsSound /\ AgeSound

(* The worker never polls without a timeout.                               *)
TimedPoll == wake # Forever

(* How long a device that has answered every poll has been silent at most, *)
(* at each place of the worker.                                            *)
HealthSound ==
    /\ pc = "wait" => 0 <= wake /\ wake <= until_poll
    /\ pc = "poll" /\ wake > 0 => wake <= until_deadline
    /\ healthy =>
          /\ online /\ pc \notin {"start", "sleep"}
          /\ pc = "handle" => outcome # "TransportError"
          /\ pc \in {"handle", "loop", "wait"} => silent + until_poll <= PollInterval + lag
          /\ pc \in {"discard", "write", "deadline"} => silent <= PollInterval + MaxPreempt + lag
          /\ pc \in {"test", "remaining", "poll", "finish"} =>
                silent + until_deadline <= PollInterval + MaxPreempt + ResponseTimeout + lag
          /\ silent <= PollInterval + MaxPreempt + ResponseTimeout + lag

-----------------------------------------------------------------------------
(* What the documentation says.                                            *)

(* gateway_modbus_error_total counts timeouts, exception responses, failed *)
(* checks and transport errors: an iteration that adds to it has recorded  *)
(* one of these.                                                           *)
OnlyErrorsCounted == pc \in {"loop", "start"} => counted <= recorded
=============================================================================

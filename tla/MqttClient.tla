----------------------------- MODULE MqttClient -----------------------------
(***************************************************************************)
(* mqtt::MqttClient: QoS 1 publishing on top of libmosquitto.              *)
(*                                                                         *)
(* publish() hands a message to libmosquitto and blocks on a condition     *)
(* variable until the PUBACK of that message arrives, the connection is    *)
(* lost or two seconds pass.  Three callbacks run on libmosquitto's        *)
(* network thread: on_connect, on_disconnect and on_publish.               *)
(*                                                                         *)
(* libmosquitto and the broker are external.  They are modelled from how   *)
(* the client uses them: a message accepted by mosquitto_publish stays in  *)
(* flight, across reconnections, until its PUBACK is processed; the broker *)
(* may receive it at any time and more than once; a PUBACK travelling when *)
(* the connection breaks is lost.  A message id is free for a new message  *)
(* only when no message in flight carries it.                              *)
(***************************************************************************)
EXTENDS Naturals

CONSTANTS Threads,    \* the threads that call publish()
          Messages,   \* messages, one value per call of publish()
          Mids,       \* libmosquitto's message ids
          None,       \* no message, no message id, no thread
          MaxFaults   \* bound on the faults of one behaviour

ASSUME MqttAssumption ==
    /\ None \notin Messages \cup Mids \cup Threads
    /\ MaxFaults \in Nat

VARIABLES
    network_loop_started,     \* initialize() went through
    connected,                \* connected_, an atomic flag
    acknowledged_message_ids, \* guarded by acknowledgment_mutex_
    call,                     \* where each thread is in publish()
    arg,                      \* the message each thread is publishing
    mid,                      \* the message id each thread waits for
    inflight,                 \* packets libmosquitto holds, until acknowledged
    pubacks,                  \* ids of PUBACKs on their way to the client
    delivered,                \* messages the broker has received
    faults                    \* faults so far

mqttVars == <<network_loop_started, connected, acknowledged_message_ids, call,
              arg, mid, inflight, pubacks, delivered, faults>>

Packets == [mid : Mids, msg : Messages]

CallStates == {"none",     \* not in publish()
               "enter",    \* publish() called, connected_ not read yet
               "send",     \* connected_ was read as true
               "parking",  \* predicate was false, mutex held, not waiting yet
               "blocked",  \* in wait_for, mutex released
               "woken",    \* notified, has to take the mutex again
               "true", "false"}  \* publish() is about to return this

-----------------------------------------------------------------------------
(* A fault is an environment step that costs one unit of the bound: a      *)
(* behaviour has finitely many of them, which is what the liveness         *)
(* properties need.                                                        *)
Fault == /\ faults < MaxFaults
         /\ faults' = faults + 1

(* A thread that stands at "parking" holds acknowledgment_mutex_; every    *)
(* other section under that mutex is one step.                             *)
AcknowledgmentMutexFree == \A t \in Threads : call[t] # "parking"

(* Ids that mosquitto_publish may give to a new message.                   *)
FreeMids == Mids \ {p.mid : p \in inflight}

(* notify_all: threads in wait_for have to evaluate their predicate again. *)
NotifyAll == call' = [t \in Threads |-> IF call[t] = "blocked" THEN "woken"
                                                               ELSE call[t]]

(* The end of publish(): the answer is whether this thread's message id    *)
(* was acknowledged, whatever ended the wait.                              *)
Resolve(t) ==
    /\ acknowledged_message_ids' = acknowledged_message_ids \ {mid[t]}
    /\ call' = [call EXCEPT ![t] =
                   IF mid[t] \in acknowledged_message_ids THEN "true" ELSE "false"]

-----------------------------------------------------------------------------
(* Entering and leaving publish().                                         *)
Begin(t, m) ==
    /\ call[t] = "none"
    /\ call' = [call EXCEPT ![t] = "enter"]
    /\ arg' = [arg EXCEPT ![t] = m]
    /\ UNCHANGED <<network_loop_started, connected, acknowledged_message_ids, mid,
                   inflight, pubacks, delivered>>

Return(t) ==
    /\ call' = [call EXCEPT ![t] = "none"]
    /\ arg' = [arg EXCEPT ![t] = None]
    /\ mid' = [mid EXCEPT ![t] = None]
    /\ UNCHANGED <<network_loop_started, connected, acknowledged_message_ids,
                   inflight, pubacks, delivered>>

(* client_ == nullptr or !connected_: return false.                        *)
Enter(t) ==
    /\ call[t] = "enter"
    /\ call' = [call EXCEPT ![t] = IF connected THEN "send" ELSE "false"]
    /\ UNCHANGED <<network_loop_started, connected, acknowledged_message_ids, arg,
                   mid, inflight, pubacks, delivered, faults>>

(* A faulty Send: acknowledged_message_ids_ is not cleared.                *)
SendKeepsOldAcks(t) ==
    /\ call[t] = "send"
    /\ AcknowledgmentMutexFree
    /\ UNCHANGED acknowledged_message_ids
    /\ \E k \in FreeMids :
          /\ mid' = [mid EXCEPT ![t] = k]
          /\ inflight' = inflight \cup {[mid |-> k, msg |-> arg[t]]}
    /\ call' = [call EXCEPT ![t] = IF connected THEN "parking" ELSE "false"]
    /\ UNCHANGED <<network_loop_started, connected, arg, pubacks, delivered, faults>>

(* Under the mutex: forget old acknowledgements, mosquitto_publish, then   *)
(* the first evaluation of wait_for's predicate.                           *)
Send(t) ==
    /\ call[t] = "send"
    /\ AcknowledgmentMutexFree
    /\ acknowledged_message_ids' = {}
    /\ \E k \in FreeMids :
          /\ mid' = [mid EXCEPT ![t] = k]
          /\ inflight' = inflight \cup {[mid |-> k, msg |-> arg[t]]}
    /\ call' = [call EXCEPT ![t] = IF connected THEN "parking" ELSE "false"]
    /\ UNCHANGED <<network_loop_started, connected, arg, pubacks, delivered, faults>>

(* mosquitto_publish reports an error: return false.  libmosquitto may     *)
(* have queued the message all the same, unless no id is free.             *)
SendError(t) ==
    /\ call[t] = "send"
    /\ AcknowledgmentMutexFree
    /\ acknowledged_message_ids' = {}
    /\ call' = [call EXCEPT ![t] = "false"]
    /\ \/ FreeMids = {} /\ UNCHANGED <<inflight, faults>>
       \/ FreeMids # {} /\ Fault /\ UNCHANGED inflight
       \/ \E k \in FreeMids : Fault /\ inflight' = inflight \cup {[mid |-> k, msg |-> arg[t]]}
    /\ UNCHANGED <<network_loop_started, connected, arg, mid, pubacks, delivered>>

(* wait_for releases the mutex and blocks.  A notification sent between    *)
(* the evaluation of the predicate and this step has found no waiter.      *)
Park(t) ==
    /\ call[t] = "parking"
    /\ call' = [call EXCEPT ![t] = "blocked"]
    /\ UNCHANGED <<network_loop_started, connected, acknowledged_message_ids, arg,
                   mid, inflight, pubacks, delivered, faults>>

(* A notified thread takes the mutex and evaluates the predicate.          *)
Wake(t) ==
    /\ call[t] = "woken"
    /\ AcknowledgmentMutexFree
    /\ \/ /\ ~connected \/ mid[t] \in acknowledged_message_ids
          /\ Resolve(t)
       \/ /\ connected /\ mid[t] \notin acknowledged_message_ids
          /\ call' = [call EXCEPT ![t] = "parking"]
          /\ UNCHANGED acknowledged_message_ids
    /\ UNCHANGED <<network_loop_started, connected, arg, mid, inflight, pubacks,
                   delivered, faults>>

(* A faulty Timeout: the deadline is only looked at after a notification.  *)
TimeoutAfterWake(t) ==
    /\ call[t] = "woken"
    /\ AcknowledgmentMutexFree
    /\ Resolve(t)
    /\ UNCHANGED <<network_loop_started, connected, arg, mid, inflight, pubacks,
                   delivered, faults>>

(* publish_timeout_ has passed.                                            *)
Timeout(t) ==
    /\ call[t] \in {"blocked", "woken"}
    /\ AcknowledgmentMutexFree
    /\ Resolve(t)
    /\ UNCHANGED <<network_loop_started, connected, arg, mid, inflight, pubacks,
                   delivered, faults>>

PublishStep(t) ==
    Enter(t) \/ Send(t) \/ SendError(t) \/ Park(t) \/ Wake(t) \/ Timeout(t)

-----------------------------------------------------------------------------
(* Callbacks on libmosquitto's network thread.                             *)
on_connect ==
    /\ network_loop_started /\ ~connected
    /\ \/ connected' = TRUE /\ UNCHANGED faults
       \/ connected' = FALSE /\ Fault           \* result_code # 0
    /\ UNCHANGED <<network_loop_started, acknowledged_message_ids, call, arg, mid,
                   inflight, pubacks, delivered>>

(* Stores the flag and notifies without taking acknowledgment_mutex_.      *)
on_disconnect ==
    /\ network_loop_started
    /\ Fault
    /\ connected' = FALSE
    /\ pubacks' = {}
    /\ NotifyAll
    /\ UNCHANGED <<network_loop_started, acknowledged_message_ids, arg, mid,
                   inflight, delivered>>

(* A PUBACK arrives: libmosquitto forgets the packet and calls back.       *)
on_publish(k) ==
    /\ connected
    /\ k \in pubacks
    /\ AcknowledgmentMutexFree
    /\ pubacks' = pubacks \ {k}
    /\ inflight' = {p \in inflight : p.mid # k}
    /\ acknowledged_message_ids' = acknowledged_message_ids \cup {k}
    /\ NotifyAll
    /\ UNCHANGED <<network_loop_started, connected, arg, mid, delivered, faults>>

(* The broker receives a packet, perhaps again, and acknowledges it if the *)
(* connection still stands.                                                *)
BrokerReceive(p) ==
    /\ p.mid \notin pubacks
    /\ delivered' = delivered \cup {p.msg}
    /\ pubacks' = IF connected THEN pubacks \cup {p.mid} ELSE pubacks
    /\ UNCHANGED <<network_loop_started, connected, acknowledged_message_ids, call,
                   arg, mid, inflight, faults>>

Network ==
    \/ on_connect
    \/ on_disconnect
    \/ \E k \in pubacks : on_publish(k)
    \/ \E p \in inflight : BrokerReceive(p)

-----------------------------------------------------------------------------
(* What the constructor leaves, whether or not initialize() succeeded; at  *)
(* first, and when a crashed process starts again.                         *)
MqttInit ==
    /\ network_loop_started \in BOOLEAN
    /\ connected = FALSE
    /\ acknowledged_message_ids = {}
    /\ call = [t \in Threads |-> "none"]
    /\ arg = [t \in Threads |-> None]
    /\ mid = [t \in Threads |-> None]
    /\ inflight = {}
    /\ pubacks = {}
    /\ delivered = {}
    /\ faults = 0

MqttRestart ==
    /\ Fault
    /\ network_loop_started' \in BOOLEAN
    /\ connected' = FALSE
    /\ acknowledged_message_ids' = {}
    /\ call' = [t \in Threads |-> "none"]
    /\ arg' = [t \in Threads |-> None]
    /\ mid' = [t \in Threads |-> None]
    /\ inflight' = {}
    /\ pubacks' = {}
    /\ UNCHANGED delivered

MqttTypeOK ==
    /\ network_loop_started \in BOOLEAN
    /\ connected \in BOOLEAN
    /\ acknowledged_message_ids \subseteq Mids
    /\ call \in [Threads -> CallStates]
    /\ arg \in [Threads -> Messages \cup {None}]
    /\ mid \in [Threads -> Mids \cup {None}]
    /\ inflight \subseteq Packets
    /\ pubacks \subseteq Mids
    /\ delivered \subseteq Messages
    /\ faults \in 0..MaxFaults
=============================================================================

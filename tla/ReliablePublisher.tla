-------------------------- MODULE ReliablePublisher --------------------------
(***************************************************************************)
(* mqtt::ReliablePublisher: publish over MQTT, or keep the message in the  *)
(* local cache and replay it later.                                        *)
(*                                                                         *)
(* Device workers call publish(), the main thread calls flush_cache() on   *)
(* start and after every reporting interval; mutex_ admits one call at a   *)
(* time.  The cache is the MessageCache interface with the guarantees of   *)
(* SqliteCache: an operation takes effect as a whole or reports failure,   *)
(* and load_all() returns nothing when the query fails.  The process may   *)
(* crash at any step; only the cache survives.                             *)
(***************************************************************************)
EXTENDS MqttClient, Sequences, Functions

CONSTANTS Workers,   \* device worker threads
          Main       \* the main thread

ASSUME ThreadAssumption == /\ Main \notin Workers
                           /\ Threads = Workers \cup {Main}

VARIABLES
    mutex,        \* the thread that holds mutex_, or None
    pc,           \* where each thread is in publish() or flush_cache()
    batch,        \* flush_cache's local copy of the cache
    count,        \* flush_cache's published_count
    cache,        \* pending_messages, oldest first; survives a crash
    result,       \* what became of the publish() call for each message
    cache_depth,  \* the gauge in RuntimeMetrics
    depthStale    \* history: a cache operation failed since the last good load

vars == <<mqttVars, mutex, pc, batch, count, cache, result, cache_depth, depthStale>>

Results == {"new",        \* publish() not called yet
            "calling",    \* publish() has not returned
            "crashed",    \* the process died during the call
            "Published", "Deferred", "Failed"}

WorkerStates == {"idle",
                 "publish",   \* in MqttClient::publish
                 "appended"}  \* append() returned true

MainStates == {"idle",
               "load",        \* flush_cache() has taken mutex_
               "replay",      \* in MqttClient::publish for batch[count + 1]
               "remove"}      \* about to call remove_first(count)

-----------------------------------------------------------------------------
(* A faulty Lock: the call goes on while another holds mutex_.             *)
LockIgnoresHolder(t, state) ==
    /\ mutex' = t
    /\ pc' = [pc EXCEPT ![t] = state]

(* lock_guard on mutex_, and its release together with the return.         *)
Lock(t, state) ==
    /\ mutex = None
    /\ mutex' = t
    /\ pc' = [pc EXCEPT ![t] = state]

Unlock(t) ==
    /\ mutex' = None
    /\ pc' = [pc EXCEPT ![t] = "idle"]

(* load_all() as the gauge and flush_cache() see it: the messages, or none *)
(* when the query fails.                                                   *)
LoadAll(loaded) ==
    \/ /\ loaded = cache
       /\ depthStale' = FALSE
       /\ UNCHANGED faults
    \/ /\ loaded = <<>>
       /\ depthStale' = TRUE
       /\ Fault

(* publish() by a device worker: a first attempt over MQTT.                *)
publish(w, m) ==
    /\ result[m] = "new"
    /\ Lock(w, "publish")
    /\ result' = [result EXCEPT ![m] = "calling"]
    /\ Begin(w, m)
    /\ UNCHANGED <<faults, batch, count, cache, cache_depth, depthStale>>

PublishSucceeds(w) ==
    /\ pc[w] = "publish" /\ call[w] = "true"
    /\ result' = [result EXCEPT ![arg[w]] = "Published"]
    /\ Unlock(w)
    /\ Return(w)
    /\ UNCHANGED <<faults, batch, count, cache, cache_depth, depthStale>>

(* append() commits; publish() has not returned yet.                       *)
CacheAppend(w) ==
    /\ pc[w] = "publish" /\ call[w] = "false"
    /\ cache' = Append(cache, arg[w])
    /\ pc' = [pc EXCEPT ![w] = "appended"]
    /\ UNCHANGED <<mqttVars, mutex, batch, count, result, cache_depth, depthStale>>

(* The gauge is set from load_all() and publish() returns Deferred.        *)
PublishDeferred(w) ==
    /\ pc[w] = "appended"
    /\ \E loaded \in {cache, <<>>} :
          /\ LoadAll(loaded)
          /\ cache_depth' = Len(loaded)
    /\ result' = [result EXCEPT ![arg[w]] = "Deferred"]
    /\ Unlock(w)
    /\ Return(w)
    /\ UNCHANGED <<batch, count, cache>>

(* append() fails too: publish() returns Failed.                           *)
PublishFails(w) ==
    /\ pc[w] = "publish" /\ call[w] = "false"
    /\ Fault
    /\ result' = [result EXCEPT ![arg[w]] = "Failed"]
    /\ Unlock(w)
    /\ Return(w)
    /\ UNCHANGED <<batch, count, cache, cache_depth, depthStale>>

-----------------------------------------------------------------------------
(* flush_cache() by the main thread.                                       *)
flush_cache ==
    /\ Lock(Main, "load")
    /\ UNCHANGED <<mqttVars, batch, count, cache, result, cache_depth, depthStale>>

(* Copy the cache; nothing to replay: return 0.                            *)
FlushLoad ==
    /\ pc[Main] = "load"
    /\ \E loaded \in {cache, <<>>} :
          /\ LoadAll(loaded)
          /\ cache_depth' = Len(loaded)
          /\ batch' = loaded
          /\ \/ /\ loaded = <<>>
                /\ Unlock(Main)
                /\ UNCHANGED <<network_loop_started, connected,
                               acknowledged_message_ids, call, arg, mid, inflight,
                               pubacks, delivered>>
             \/ /\ loaded # <<>>
                /\ pc' = [pc EXCEPT ![Main] = "replay"]
                /\ Begin(Main, loaded[1])
                /\ UNCHANGED mutex
    /\ count' = 0
    /\ UNCHANGED <<cache, result>>

(* The current message was acknowledged: go on with the next one.          *)
FlushNext ==
    /\ pc[Main] = "replay" /\ call[Main] = "true"
    /\ count' = count + 1
    /\ \/ /\ count' < Len(batch)
          /\ call' = [call EXCEPT ![Main] = "enter"]
          /\ arg' = [arg EXCEPT ![Main] = batch[count' + 1]]
          /\ mid' = [mid EXCEPT ![Main] = None]
          /\ UNCHANGED <<network_loop_started, connected, acknowledged_message_ids,
                         inflight, pubacks, delivered, pc>>
       \/ /\ count' = Len(batch)
          /\ Return(Main)
          /\ pc' = [pc EXCEPT ![Main] = "remove"]
    /\ UNCHANGED <<faults, mutex, batch, cache, result, cache_depth, depthStale>>

(* A faulty FlushBreak: what was replayed before the failure is not        *)
(* removed.                                                                *)
FlushBreakForgets ==
    /\ pc[Main] = "replay" /\ call[Main] = "false"
    /\ Return(Main)
    /\ Unlock(Main)
    /\ UNCHANGED <<faults, batch, count, cache, result, cache_depth, depthStale>>

(* The first failure ends the replay.                                      *)
FlushBreak ==
    /\ pc[Main] = "replay" /\ call[Main] = "false"
    /\ Return(Main)
    /\ \/ count = 0 /\ Unlock(Main)
       \/ count # 0 /\ pc' = [pc EXCEPT ![Main] = "remove"] /\ UNCHANGED mutex
    /\ UNCHANGED <<faults, batch, count, cache, result, cache_depth, depthStale>>

(* A faulty FlushRemove: it removes the whole batch.                       *)
FlushRemoveAll ==
    /\ pc[Main] = "remove"
    /\ cache' = SubSeq(cache, Len(batch) + 1, Len(cache))
    /\ cache_depth' = Len(batch) - count
    /\ Unlock(Main)
    /\ UNCHANGED <<mqttVars, batch, count, result, depthStale>>

(* A faulty FlushRemove: the gauge is not updated.                         *)
FlushRemoveKeepsGauge ==
    /\ pc[Main] = "remove"
    /\ cache' = SubSeq(cache, count + 1, Len(cache))
    /\ UNCHANGED cache_depth
    /\ Unlock(Main)
    /\ UNCHANGED <<mqttVars, batch, count, result, depthStale>>

(* A faulty FlushRemove: it removes from the wrong end.                    *)
FlushRemoveNewest ==
    /\ pc[Main] = "remove"
    /\ cache' = SubSeq(cache, 1, Len(cache) - count)
    /\ cache_depth' = Len(batch) - count
    /\ Unlock(Main)
    /\ UNCHANGED <<mqttVars, batch, count, result, depthStale>>

(* remove_first(count), on the cache as it is now.                         *)
FlushRemove ==
    /\ pc[Main] = "remove"
    /\ cache' = SubSeq(cache, count + 1, Len(cache))
    /\ cache_depth' = Len(batch) - count
    /\ Unlock(Main)
    /\ UNCHANGED <<mqttVars, batch, count, result, depthStale>>

(* remove_first() fails: the replayed messages stay, the gauge too.        *)
FlushRemoveFails ==
    /\ pc[Main] = "remove"
    /\ Fault
    /\ Unlock(Main)
    /\ UNCHANGED <<network_loop_started, connected, acknowledged_message_ids, call,
                   arg, mid, inflight, pubacks, delivered, batch, count, cache,
                   result, cache_depth, depthStale>>

-----------------------------------------------------------------------------
(* The process dies and starts again: everything but the cache is rebuilt, *)
(* the constructor sets the gauge from load_all().                         *)
Crash ==
    /\ MqttRestart
    /\ mutex' = None
    /\ pc' = [t \in Threads |-> "idle"]
    /\ batch' = <<>>
    /\ count' = 0
    /\ result' = [m \in Messages |-> IF result[m] = "calling" THEN "crashed"
                                                              ELSE result[m]]
    /\ \E loaded \in {cache, <<>>} :
          /\ cache_depth' = Len(loaded)
          /\ depthStale' = (loaded # cache)
    /\ UNCHANGED cache

Init ==
    /\ MqttInit
    /\ mutex = None
    /\ pc = [t \in Threads |-> "idle"]
    /\ batch = <<>>
    /\ count = 0
    /\ cache = <<>>
    /\ result = [m \in Messages |-> "new"]
    /\ cache_depth = 0
    /\ depthStale = FALSE

Worker(w) ==
    \/ \E m \in Messages : publish(w, m)
    \/ PublishSucceeds(w) \/ CacheAppend(w) \/ PublishDeferred(w) \/ PublishFails(w)

MainThread ==
    \/ flush_cache \/ FlushLoad \/ FlushNext \/ FlushBreak
    \/ FlushRemove \/ FlushRemoveFails

(* The steps inside MqttClient::publish and on the network leave the       *)
(* publisher's own state alone.                                            *)
PublisherUnchanged ==
    UNCHANGED <<mutex, pc, batch, count, cache, result, cache_depth, depthStale>>

MqttStep ==
    /\ Network \/ \E t \in Threads : PublishStep(t)
    /\ PublisherUnchanged

Next ==
    \/ \E w \in Workers : Worker(w)
    \/ MainThread
    \/ MqttStep
    \/ Crash

Spec == Init /\ [][Next]_vars

(* The operating system schedules every thread that can run, and wait_for  *)
(* times out.                                                              *)
SchedulerFairness ==
    /\ \A w \in Workers : WF_vars(PublishSucceeds(w) \/ CacheAppend(w) \/ PublishDeferred(w))
    /\ WF_vars(MainThread)
    /\ \A t \in Threads : WF_vars(PublishStep(t) /\ PublisherUnchanged)

(* The environment recovers: libmosquitto keeps reconnecting (its own loop *)
(* retries for ever), the broker answers, and when the main thread replays *)
(* again and again some PUBACK comes before the timeout.                   *)
NetworkFairness ==
    /\ WF_vars(on_connect /\ PublisherUnchanged)
    /\ WF_vars((\E p \in inflight : BrokerReceive(p)) /\ PublisherUnchanged)
    /\ WF_vars((\E k \in pubacks : on_publish(k)) /\ PublisherUnchanged)
    /\ SF_vars(/\ call[Main] = "blocked"
               /\ \E p \in inflight : p.mid = mid[Main] /\ BrokerReceive(p)
               /\ PublisherUnchanged)
    /\ SF_vars(/\ call[Main] = "blocked"
               /\ on_publish(mid[Main])
               /\ PublisherUnchanged)

ScheduledSpec == Spec /\ SchedulerFairness

-----------------------------------------------------------------------------
TypeOK ==
    /\ MqttTypeOK
    /\ mutex \in Threads \cup {None}
    /\ pc \in [Threads -> WorkerStates \cup MainStates]
    /\ \A w \in Workers : pc[w] \in WorkerStates
    /\ pc[Main] \in MainStates
    /\ batch \in Seq(Messages)
    /\ count \in Nat
    /\ cache \in Seq(Messages)
    /\ result \in [Messages -> Results]
    /\ cache_depth \in Nat
    /\ depthStale \in BOOLEAN

(* publish() answers Published only for a message the broker has received: *)
(* neither a late PUBACK of an earlier, timed-out message nor one that     *)
(* carries a recycled id may confirm the message being published.          *)
PublishedMeansDelivered ==
    \A m \in Messages : result[m] = "Published" => m \in delivered

(* At-least-once: a message answered Published or Deferred is with the     *)
(* broker or still in the cache, through disconnections, timeouts, failing *)
(* cache operations, concurrent flushes and crashes.                       *)
NoLoss ==
    \A m \in Messages : result[m] \in {"Published", "Deferred"} =>
        m \in delivered \cup Range(cache)

(* flush_cache() never replays one cached message in place of another and  *)
(* publish() never stores a message twice: the cache holds each at most    *)
(* once.                                                                   *)
CachedOnce == IsInjective(cache)

(* Whenever no call is in progress, the cache_depth gauge is the number of *)
(* cached messages, unless the last load_all() failed.                     *)
DepthAccurate == (mutex = None /\ ~depthStale) => cache_depth = Len(cache)

(* The cache only grows at its tail or loses a prefix, and what it loses   *)
(* the broker has received: replay is in order and no message is dropped   *)
(* because a later one was acknowledged.                                   *)
RemovedAfterDelivery ==
    [][\E n \in 0..Len(cache) :
          /\ \A i \in 1..n : cache[i] \in delivered
          /\ \/ cache' = SubSeq(cache, n + 1, Len(cache))
             \/ n = 0 /\ \E m \in Messages : cache' = Append(cache, m)]_cache

(* A PUBACK recorded for a waiting thread is not thrown away by the        *)
(* clear() of another publish(): the thread finds it and returns true.     *)
AckNotDiscarded ==
    [][\A t \in Threads :
          (call[t] \in {"parking", "blocked", "woken"}
             /\ mid[t] \in acknowledged_message_ids)
          => \/ mid[t] \in acknowledged_message_ids' /\ call'[t] # "false"
             \/ call'[t] \in {"true", "none"}]_vars

-----------------------------------------------------------------------------
(* Every publish() and every flush_cache() returns even if no broker ever  *)
(* answers: a thread about to wait can miss the notification of            *)
(* on_disconnect, and then publish_timeout_ ends the wait.                 *)
CallsReturn == \A t \in Threads : mutex = t ~> mutex # t

(* If the environment recovers, then once the faults stop flush_cache()    *)
(* empties the cache, provided the MQTT client could be set up.            *)
CacheDrains ==
    NetworkFairness =>
        (network_loop_started ~> (cache = <<>> \/ ~network_loop_started))

(* The abstract store-and-forward queue: delivered is what the broker has, *)
(* stored what the cache has.                                              *)
SF == INSTANCE StoreAndForward WITH stored <- cache
StoreAndForwardSpec == SF!Spec
-----------------------------------------------------------------------------
(* The inductive invariant behind the safety properties.                   *)

(* Ids tell packets in flight apart, and a PUBACK on its way belongs to a  *)
(* packet in flight whose message the broker has.                          *)
PacketsSound ==
    /\ \A p, q \in inflight : p.mid = q.mid => p = q
    /\ \A k \in pubacks : \E p \in inflight : p.mid = k
    /\ \A p \in inflight : p.mid \in pubacks => p.msg \in delivered
    /\ \A p \in inflight : result[p.msg] # "new"

(* While a thread waits, its id means its own message.                     *)
Waiting(t) == call[t] \in {"parking", "blocked", "woken"}

WaitSound ==
    \A t \in Threads :
        /\ call[t] # "none" => arg[t] \in Messages
        /\ Waiting(t) => \A p \in inflight : p.mid = mid[t] => p.msg = arg[t]
        /\ (Waiting(t) /\ mid[t] \in acknowledged_message_ids) => arg[t] \in delivered
        /\ call[t] = "true" => arg[t] \in delivered

(* A thread is inside the publisher exactly when it holds mutex_.          *)
MutexSound ==
    \A t \in Threads :
        /\ pc[t] # "idle" <=> mutex = t
        /\ pc[t] \in {"idle", "load", "remove"} <=> call[t] = "none"
        /\ pc[t] = "appended" => call[t] = "false"

(* The message of a call in progress is not answered, and is in the cache  *)
(* exactly from append() on; nothing is cached before its call.            *)
WorkersSound ==
    /\ \A w \in Workers :
          /\ pc[w] # "idle" => result[arg[w]] = "calling"
          /\ pc[w] = "publish" => arg[w] \notin Range(cache)
          /\ pc[w] = "appended" => arg[w] \in Range(cache)
    /\ \A m \in Range(cache) : result[m] # "new"

(* flush_cache's copy stays equal to the cache, and the messages it has    *)
(* counted are with the broker.                                            *)
FlushSound ==
    /\ pc[Main] \in {"replay", "remove"} =>
          /\ batch = cache
          /\ \A i \in 1..count : batch[i] \in delivered
    /\ pc[Main] = "replay" => count < Len(batch) /\ arg[Main] = batch[count + 1]
    /\ pc[Main] = "remove" => count \in 1..Len(batch)

DepthSound ==
    ((\A w \in Workers : pc[w] # "appended") /\ ~depthStale) => cache_depth = Len(cache)

(* The state of the publisher between any two steps: what its safety       *)
(* properties rest on.                                                     *)
IInv ==
    /\ TypeOK /\ PacketsSound /\ WaitSound /\ MutexSound /\ WorkersSound
    /\ FlushSound /\ DepthSound /\ PublishedMeansDelivered /\ NoLoss /\ CachedOnce
=============================================================================

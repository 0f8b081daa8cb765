----------------------- MODULE ReliablePublisherProofs -----------------------
(***************************************************************************)
(* Machine-checked proofs about ReliablePublisher, for any sets of         *)
(* workers, messages and message ids and any number of faults.             *)
(***************************************************************************)
EXTENDS ReliablePublisher, Integers, TLAPS

(* Most leaves need SMT; each is tried again with more time where the      *)
(* first attempts find no proof.                                           *)
USE SMTT(15), SMTT(30), ZenonT(20), SMTT(60)

-----------------------------------------------------------------------------
(* What append and the removal of a prefix do to the messages of a cache.  *)

(* append() adds one message and keeps the others.                         *)
LEMMA AppendRange ==
    ASSUME NEW S, NEW s \in Seq(S), NEW x \in S
    PROVE  /\ Append(s, x) \in Seq(S)
           /\ Len(Append(s, x)) = Len(s) + 1
           /\ Range(Append(s, x)) = Range(s) \cup {x}
           /\ (IsInjective(s) /\ x \notin Range(s)) => IsInjective(Append(s, x))
  <1>1. /\ Append(s, x) \in Seq(S)
        /\ Len(Append(s, x)) = Len(s) + 1
        /\ DOMAIN Append(s, x) = 1..(Len(s) + 1)
        /\ \A i \in 1..Len(s) : Append(s, x)[i] = s[i]
        /\ Append(s, x)[Len(s) + 1] = x
        /\ DOMAIN s = 1..Len(s) /\ Len(s) \in Nat
    OBVIOUS
  <1>2. Range(Append(s, x)) = Range(s) \cup {x}
    BY <1>1 DEF Range
  <1>3. (IsInjective(s) /\ x \notin Range(s)) => IsInjective(Append(s, x))
    BY <1>1 DEF Range, IsInjective
  <1> QED BY <1>1, <1>2, <1>3

(* remove_first(n) keeps exactly the messages after the first n.           *)
LEMMA SuffixRange ==
    ASSUME NEW S, NEW s \in Seq(S), NEW n \in 0..Len(s)
    PROVE  LET r == SubSeq(s, n + 1, Len(s))
           IN  /\ r \in Seq(S)
               /\ Len(r) = Len(s) - n
               /\ Range(r) \subseteq Range(s)
               /\ \A x \in Range(s) : x \in Range(r) \/ \E i \in 1..n : s[i] = x
               /\ IsInjective(s) => IsInjective(r)
  <1> DEFINE r == SubSeq(s, n + 1, Len(s))
  <1>1. /\ r \in Seq(S)
        /\ Len(r) = Len(s) - n
        /\ DOMAIN r = 1..(Len(s) - n)
        /\ \A i \in 1..(Len(s) - n) : r[i] = s[n + i]
        /\ DOMAIN s = 1..Len(s) /\ Len(s) \in Nat
    OBVIOUS
  <1> HIDE DEF r
  <1>2. Range(r) \subseteq Range(s)
    <2> SUFFICES ASSUME NEW i \in DOMAIN r PROVE r[i] \in Range(s)
      BY DEF Range
    <2>1. n + i \in DOMAIN s /\ r[i] = s[n + i]
      BY <1>1
    <2> QED  BY <2>1 DEF Range
  <1>3. ASSUME NEW x \in Range(s), ~\E i \in 1..n : s[i] = x
        PROVE  x \in Range(r)
    <2>1. PICK i \in 1..Len(s) : s[i] = x
      BY <1>1 DEF Range
    <2>2. i - n \in 1..(Len(s) - n) /\ n + (i - n) = i
      BY <1>1, <1>3, <2>1
    <2>3. r[i - n] = x
      BY <1>1, <2>1, <2>2
    <2> QED BY <1>1, <2>2, <2>3 DEF Range
  <1>4. IsInjective(s) => IsInjective(r)
    <2> SUFFICES ASSUME IsInjective(s), NEW a \in DOMAIN r, NEW b \in DOMAIN r, r[a] = r[b]
                 PROVE  a = b
      BY DEF IsInjective
    <2>1. s[n + a] = s[n + b] /\ n + a \in DOMAIN s /\ n + b \in DOMAIN s
      BY <1>1
    <2> QED BY <1>1, <2>1 DEF IsInjective
  <1> QED BY <1>1, <1>2, <1>3, <1>4, ZenonT(60) DEF r

-----------------------------------------------------------------------------
(* Steps inside MqttClient::publish and on the network.                    *)

(* They leave the publisher's variables and the arguments alone and can    *)
(* only add to what the broker has: the publisher's half of the invariant  *)
(* is kept.                                                                *)
LEMMA PublisherKept ==
    ASSUME IInv, PublisherUnchanged, UNCHANGED arg, delivered \subseteq delivered'
    PROVE  /\ WorkersSound' /\ FlushSound' /\ DepthSound'
           /\ PublishedMeansDelivered' /\ NoLoss' /\ CachedOnce'
  <1> USE DEF PublisherUnchanged
  <1>1. WorkersSound'
    BY DEF IInv, WorkersSound
  <1>2. FlushSound'
    BY DEF IInv, FlushSound
  <1>3. DepthSound'
    BY DEF IInv, DepthSound
  <1>4. PublishedMeansDelivered'
    BY DEF IInv, PublishedMeansDelivered
  <1>5. NoLoss'
    BY DEF IInv, NoLoss
  <1>6. CachedOnce'
    BY DEF IInv, CachedOnce
  <1> QED BY <1>1, <1>2, <1>3, <1>4, <1>5, <1>6

(* A fault stays within its bound.                                         *)
LEMMA FaultType == ASSUME faults \in 0..MaxFaults, Fault
                   PROVE  faults' \in 0..MaxFaults
  BY MqttAssumption DEF Fault

(* Adding a packet under a free id keeps packets typed and told apart.     *)
LEMMA NewPacket ==
    ASSUME IInv, NEW k \in FreeMids, NEW m \in Messages, result[m] # "new",
           UNCHANGED <<pubacks, delivered, result>>,
           inflight' = inflight \cup {[mid |-> k, msg |-> m]}
    PROVE  inflight' \subseteq Packets /\ PacketsSound'
  <1> DEFINE new == [mid |-> k, msg |-> m]
  <1>1. /\ new \in Packets /\ new.mid = k /\ new.msg = m
        /\ k \in Mids /\ \A p \in inflight : p.mid # k
    BY DEF FreeMids, Packets
  <1>2. inflight \subseteq Packets /\ PacketsSound
    BY DEF IInv, TypeOK, MqttTypeOK
  <1>3. k \notin pubacks
    BY <1>1, <1>2 DEF PacketsSound
  <1> HIDE DEF new
  <1>4. inflight' = inflight \cup {new}
    BY DEF new
  <1> QED BY <1>1, <1>2, <1>3, <1>4 DEF PacketsSound

(* The thread inside MqttClient::publish holds mutex_, its message is one  *)
(* for which publish() was called.                                         *)
LEMMA CallerFacts ==
    ASSUME IInv, NEW t \in Threads, call[t] # "none"
    PROVE  /\ mutex = t /\ arg[t] \in Messages /\ result[arg[t]] # "new"
           /\ \A u \in Threads : u # t => call[u] = "none"
  <1>1. pc[t] # "idle" /\ mutex = t /\ arg[t] \in Messages
    BY DEF IInv, MutexSound, WaitSound
  <1>2. \A u \in Threads : u # t => call[u] = "none"
    BY <1>1 DEF IInv, MutexSound
  <1>3. ASSUME t \in Workers PROVE result[arg[t]] # "new"
    BY <1>1, <1>3 DEF IInv, WorkersSound
  <1>4. ASSUME t = Main PROVE result[arg[t]] # "new"
    <2>1. pc[Main] = "replay"
      BY <1>1, <1>4 DEF IInv, MutexSound, TypeOK, MainStates
    <2>2. /\ batch = cache /\ count + 1 \in DOMAIN cache
          /\ arg[Main] = cache[count + 1]
      BY <2>1 DEF IInv, FlushSound, TypeOK
    <2>3. arg[Main] \in Range(cache)
      BY <2>2 DEF Range
    <2> QED BY <1>4, <2>3 DEF IInv, WorkersSound
  <1> QED BY <1>1, <1>2, <1>3, <1>4, ThreadAssumption

(* The early return of publish(): nothing but the place in the call changes. *)
LEMMA EnterKeeps ==
    ASSUME IInv, NEW t \in Threads, Enter(t), PublisherUnchanged
    PROVE  IInv'
  <1>1. TypeOK'
    BY DEF IInv, TypeOK, MqttTypeOK, CallStates, Packets, Enter, PublisherUnchanged
  <1>2. PacketsSound'
    BY DEF IInv, TypeOK, MqttTypeOK, PacketsSound, Packets, Enter, PublisherUnchanged
  <1>3. WaitSound'
    BY DEF IInv, TypeOK, MqttTypeOK, PacketsSound, WaitSound, Waiting, Packets, Enter
  <1>4. MutexSound'
    BY DEF IInv, TypeOK, MqttTypeOK, MutexSound, Enter, PublisherUnchanged
  <1>5. delivered \subseteq delivered' /\ UNCHANGED arg
    BY DEF Enter
  <1> QED BY <1>1, <1>2, <1>3, <1>4, <1>5, PublisherKept DEF IInv

(* A new packet takes an id no packet in flight has; as the caller holds mutex_,
   no other thread is waiting for that id. *)
LEMMA SendKeeps ==
    ASSUME IInv, NEW t \in Threads, Send(t), PublisherUnchanged
    PROVE  IInv'
  <1>1. /\ mutex = t /\ arg[t] \in Messages /\ result[arg[t]] # "new"
        /\ \A u \in Threads : u # t => call[u] = "none"
    BY CallerFacts DEF Send
  <1>2. inflight' \subseteq Packets /\ PacketsSound'
    BY <1>1, NewPacket DEF Send, PublisherUnchanged
  <1>3. TypeOK'
    BY <1>2 DEF IInv, TypeOK, MqttTypeOK, CallStates, FreeMids, Send, PublisherUnchanged
  <1>4. WaitSound'
    BY <1>1, <1>2 DEF IInv, TypeOK, MqttTypeOK, WaitSound, Waiting, Packets, FreeMids, Send
  <1>5. MutexSound'
    BY DEF IInv, TypeOK, MqttTypeOK, MutexSound, Send, PublisherUnchanged
  <1>6. delivered \subseteq delivered' /\ UNCHANGED arg
    BY DEF Send
  <1> QED BY <1>2, <1>3, <1>4, <1>5, <1>6, PublisherKept DEF IInv

(* A failed mosquitto_publish may leave a packet under a free id. *)
LEMMA SendErrorKeeps ==
    ASSUME IInv, NEW t \in Threads, SendError(t), PublisherUnchanged
    PROVE  IInv'
  <1>1. /\ mutex = t /\ arg[t] \in Messages /\ result[arg[t]] # "new"
        /\ \A u \in Threads : u # t => call[u] = "none"
    BY CallerFacts DEF SendError
  <1>2. inflight' \subseteq Packets /\ PacketsSound'
    <2>1. CASE UNCHANGED inflight
      BY <2>1 DEF SendError, PublisherUnchanged, IInv, TypeOK, MqttTypeOK, PacketsSound
    <2>2. ASSUME NEW k \in FreeMids, inflight' = inflight \cup {[mid |-> k, msg |-> arg[t]]}
          PROVE  inflight' \subseteq Packets /\ PacketsSound'
      BY <1>1, <2>2, NewPacket DEF SendError, PublisherUnchanged
    <2> QED BY <2>1, <2>2 DEF SendError
  <1>3. TypeOK'
    BY <1>2, FaultType DEF IInv, TypeOK, MqttTypeOK, CallStates, FreeMids, SendError,
       PublisherUnchanged
  <1>4. WaitSound'
    BY <1>1, <1>2 DEF IInv, TypeOK, MqttTypeOK, WaitSound, Waiting, Packets, FreeMids, SendError
  <1>5. MutexSound'
    BY DEF IInv, TypeOK, MqttTypeOK, MutexSound, SendError, PublisherUnchanged
  <1>6. delivered \subseteq delivered' /\ UNCHANGED arg
    BY DEF SendError
  <1> QED BY <1>2, <1>3, <1>4, <1>5, <1>6, PublisherKept DEF IInv

(* wait_for blocks: nothing but the place in the call changes. *)
LEMMA ParkKeeps ==
    ASSUME IInv, NEW t \in Threads, Park(t), PublisherUnchanged
    PROVE  IInv'
  <1>1. TypeOK'
    BY DEF IInv, TypeOK, MqttTypeOK, CallStates, Packets, Park, PublisherUnchanged
  <1>2. PacketsSound'
    BY DEF IInv, TypeOK, MqttTypeOK, PacketsSound, Packets, Park, PublisherUnchanged
  <1>3. WaitSound'
    BY DEF IInv, TypeOK, MqttTypeOK, PacketsSound, WaitSound, Waiting, Packets, Park
  <1>4. MutexSound'
    BY DEF IInv, TypeOK, MqttTypeOK, MutexSound, Park, PublisherUnchanged
  <1>5. delivered \subseteq delivered' /\ UNCHANGED arg
    BY DEF Park
  <1> QED BY <1>1, <1>2, <1>3, <1>4, <1>5, PublisherKept DEF IInv

(* A woken thread answers true only if its own id was acknowledged. *)
LEMMA WakeKeeps ==
    ASSUME IInv, NEW t \in Threads, Wake(t), PublisherUnchanged
    PROVE  IInv'
  <1>1. TypeOK'
    BY DEF IInv, TypeOK, MqttTypeOK, CallStates, Packets, Wake, Resolve, PublisherUnchanged
  <1>2. PacketsSound'
    BY DEF IInv, TypeOK, MqttTypeOK, PacketsSound, Packets, Wake, Resolve, PublisherUnchanged
  <1>3. WaitSound'
    BY DEF IInv, TypeOK, MqttTypeOK, PacketsSound, WaitSound, Waiting, Packets, Wake, Resolve
  <1>4. MutexSound'
    BY DEF IInv, TypeOK, MqttTypeOK, MutexSound, Wake, Resolve, PublisherUnchanged
  <1>5. delivered \subseteq delivered' /\ UNCHANGED arg
    BY DEF Wake, Resolve
  <1> QED BY <1>1, <1>2, <1>3, <1>4, <1>5, PublisherKept DEF IInv

(* So does a thread whose wait timed out. *)
LEMMA TimeoutKeeps ==
    ASSUME IInv, NEW t \in Threads, Timeout(t), PublisherUnchanged
    PROVE  IInv'
  <1>1. TypeOK'
    BY DEF IInv, TypeOK, MqttTypeOK, CallStates, Packets, Timeout, Resolve, PublisherUnchanged
  <1>2. PacketsSound'
    BY DEF IInv, TypeOK, MqttTypeOK, PacketsSound, Packets, Timeout, Resolve, PublisherUnchanged
  <1>3. WaitSound'
    BY DEF IInv, TypeOK, MqttTypeOK, PacketsSound, WaitSound, Waiting, Packets, Timeout, Resolve
  <1>4. MutexSound'
    BY DEF IInv, TypeOK, MqttTypeOK, MutexSound, Timeout, Resolve, PublisherUnchanged
  <1>5. delivered \subseteq delivered' /\ UNCHANGED arg
    BY DEF Timeout, Resolve
  <1> QED BY <1>1, <1>2, <1>3, <1>4, <1>5, PublisherKept DEF IInv

(* Only the flag changes. *)
LEMMA OnConnectKeeps ==
    ASSUME IInv, on_connect, PublisherUnchanged
    PROVE  IInv'
  <1>1. TypeOK'
    BY FaultType, ZenonT(60) DEF IInv, TypeOK, MqttTypeOK, CallStates, Packets, on_connect,
       PublisherUnchanged
  <1>2. PacketsSound'
    BY DEF IInv, TypeOK, MqttTypeOK, PacketsSound, Packets, on_connect, PublisherUnchanged
  <1>3. WaitSound'
    BY DEF IInv, TypeOK, MqttTypeOK, PacketsSound, WaitSound, Waiting, Packets, on_connect
  <1>4. MutexSound'
    BY DEF IInv, TypeOK, MqttTypeOK, MutexSound, on_connect, PublisherUnchanged
  <1>5. delivered \subseteq delivered' /\ UNCHANGED arg
    BY DEF on_connect
  <1> QED BY <1>1, <1>2, <1>3, <1>4, <1>5, PublisherKept DEF IInv

(* PUBACKs on their way are lost, waiting threads are woken. *)
LEMMA OnDisconnectKeeps ==
    ASSUME IInv, on_disconnect, PublisherUnchanged
    PROVE  IInv'
  <1>1. TypeOK'
    BY FaultType, ZenonT(60) DEF IInv, TypeOK, MqttTypeOK, CallStates, Packets, on_disconnect,
       NotifyAll, PublisherUnchanged
  <1>2. PacketsSound'
    BY DEF IInv, TypeOK, MqttTypeOK, PacketsSound, Packets, on_disconnect, NotifyAll,
       PublisherUnchanged
  <1>3. WaitSound'
    BY DEF IInv, TypeOK, MqttTypeOK, PacketsSound, WaitSound, Waiting, Packets, on_disconnect,
       NotifyAll
  <1>4. MutexSound'
    BY DEF IInv, TypeOK, MqttTypeOK, MutexSound, on_disconnect, NotifyAll, PublisherUnchanged
  <1>5. delivered \subseteq delivered' /\ UNCHANGED arg
    BY DEF on_disconnect, NotifyAll
  <1> QED BY <1>1, <1>2, <1>3, <1>4, <1>5, PublisherKept DEF IInv

(* The id recorded as acknowledged is the id of a packet whose message the
   broker has; a thread that waits for that id is publishing that message. *)
LEMMA OnPublishKeeps ==
    ASSUME IInv, NEW k \in pubacks, on_publish(k), PublisherUnchanged
    PROVE  IInv'
  <1>1. TypeOK'
    BY DEF IInv, TypeOK, MqttTypeOK, CallStates, Packets, on_publish, NotifyAll, PublisherUnchanged
  <1>2. PacketsSound'
    BY DEF IInv, TypeOK, MqttTypeOK, PacketsSound, Packets, on_publish, NotifyAll,
       PublisherUnchanged
  <1>3. WaitSound'
    BY DEF IInv, TypeOK, MqttTypeOK, PacketsSound, WaitSound, Waiting, Packets, on_publish,
       NotifyAll
  <1>4. MutexSound'
    BY DEF IInv, TypeOK, MqttTypeOK, MutexSound, on_publish, NotifyAll, PublisherUnchanged
  <1>5. delivered \subseteq delivered' /\ UNCHANGED arg
    BY DEF on_publish, NotifyAll
  <1> QED BY <1>1, <1>2, <1>3, <1>4, <1>5, PublisherKept DEF IInv

(* The broker has the message before its PUBACK travels. *)
LEMMA BrokerReceiveKeeps ==
    ASSUME IInv, NEW p \in inflight, BrokerReceive(p), PublisherUnchanged
    PROVE  IInv'
  <1>1. TypeOK'
    BY DEF IInv, TypeOK, MqttTypeOK, CallStates, Packets, BrokerReceive, PublisherUnchanged
  <1>2. PacketsSound'
    BY DEF IInv, TypeOK, MqttTypeOK, PacketsSound, Packets, BrokerReceive, PublisherUnchanged
  <1>3. WaitSound'
    BY DEF IInv, TypeOK, MqttTypeOK, PacketsSound, WaitSound, Waiting, Packets, BrokerReceive
  <1>4. MutexSound'
    BY DEF IInv, TypeOK, MqttTypeOK, MutexSound, BrokerReceive, PublisherUnchanged
  <1>5. delivered \subseteq delivered' /\ UNCHANGED arg
    BY DEF BrokerReceive
  <1> QED BY <1>1, <1>2, <1>3, <1>4, <1>5, PublisherKept DEF IInv

-----------------------------------------------------------------------------
(* Steps of the publisher itself.                                          *)

(* load_all() returns a sequence of messages whether or not it fails.      *)
LEMMA LoadAllType ==
    ASSUME IInv, NEW loaded \in {cache, <<>>}, LoadAll(loaded)
    PROVE  /\ loaded \in Seq(Messages) /\ Len(loaded) \in Nat
           /\ faults' \in 0..MaxFaults /\ depthStale' \in BOOLEAN
  <1>1. loaded \in Seq(Messages) /\ Len(loaded) \in Nat
    <2>1. cache \in Seq(Messages) /\ Len(cache) \in Nat
      BY DEF IInv, TypeOK
    <2>2. <<>> \in Seq(Messages) /\ Len(<<>>) \in Nat
      OBVIOUS
    <2> QED BY <2>1, <2>2, ZenonT(60)
  <1>2. faults \in 0..MaxFaults
    BY DEF IInv, TypeOK, MqttTypeOK
  <1>3. faults' \in 0..MaxFaults
    BY <1>2, FaultType DEF LoadAll
  <1>4. depthStale' \in BOOLEAN
    BY ZenonT(60) DEF LoadAll
  <1> QED BY <1>1, <1>3, <1>4

(* publish() starts: mutex_ was free, so no other thread is inside; the
   message is new, so neither cached nor in flight. *)
LEMMA PublishKeeps ==
    ASSUME IInv, NEW w \in Workers, NEW m \in Messages, publish(w, m)
    PROVE  IInv'
  <1> USE ThreadAssumption DEF IInv, TypeOK, MqttTypeOK, publish, Lock, Begin
  <1>1. TypeOK'
    BY FaultType DEF CallStates, WorkerStates, MainStates, Results, MutexSound, WaitSound
  <1>2. PacketsSound'
    BY DEF PacketsSound, Packets
  <1>3. WaitSound'
    BY DEF WaitSound, Waiting, MutexSound
  <1>4. MutexSound'
    BY MqttAssumption DEF MutexSound
  <1>5. WorkersSound'
    BY DEF WorkersSound, MutexSound, Range
  <1>6. FlushSound'
    BY DEF FlushSound, MutexSound
  <1>7. DepthSound'
    BY DEF DepthSound, MutexSound
  <1>8. PublishedMeansDelivered'
    BY DEF PublishedMeansDelivered, WaitSound, MutexSound
  <1>9. NoLoss'
    BY DEF NoLoss, WaitSound, MutexSound, WorkersSound
  <1>10. CachedOnce'
    BY DEF CachedOnce, WorkersSound
  <1> QED BY <1>1, <1>2, <1>3, <1>4, <1>5, <1>6, <1>7, <1>8, <1>9, <1>10

(* publish() answers Published: MqttClient::publish returned true, so the
   broker has the message. *)
LEMMA PublishSucceedsKeeps ==
    ASSUME IInv, NEW w \in Workers, PublishSucceeds(w)
    PROVE  IInv'
  <1> USE ThreadAssumption DEF IInv, TypeOK, MqttTypeOK, PublishSucceeds, Unlock, Return
  <1>1. TypeOK'
    BY FaultType DEF CallStates, WorkerStates, MainStates, Results, MutexSound, WaitSound
  <1>2. PacketsSound'
    BY DEF PacketsSound, Packets
  <1>3. WaitSound'
    BY DEF WaitSound, Waiting, MutexSound
  <1>4. MutexSound'
    BY MqttAssumption DEF MutexSound
  <1>5. WorkersSound'
    BY DEF WorkersSound, MutexSound, Range
  <1>6. FlushSound'
    BY DEF FlushSound, MutexSound
  <1>7. DepthSound'
    BY DEF DepthSound, MutexSound
  <1>8. PublishedMeansDelivered'
    BY DEF PublishedMeansDelivered, WaitSound, MutexSound
  <1>9. NoLoss'
    BY DEF NoLoss, WaitSound, MutexSound, WorkersSound
  <1>10. CachedOnce'
    BY DEF CachedOnce, WorkersSound
  <1> QED BY <1>1, <1>2, <1>3, <1>4, <1>5, <1>6, <1>7, <1>8, <1>9, <1>10

(* append() stores a message that was not stored before. *)
LEMMA CacheAppendKeeps ==
    ASSUME IInv, NEW w \in Workers, CacheAppend(w)
    PROVE  IInv'
  <1> USE ThreadAssumption DEF IInv, TypeOK, MqttTypeOK, CacheAppend, mqttVars
  <1>0. /\ arg[w] \in Messages /\ arg[w] \notin Range(cache)
        /\ mutex = w /\ \A t \in Threads : t # w => pc[t] = "idle"
    <2>1. w \in Threads /\ mutex = w /\ call[w] # "none"
      BY DEF MutexSound
    <2>2. arg[w] \in Messages
      BY <2>1 DEF WaitSound
    <2>3. arg[w] \notin Range(cache)
      BY DEF WorkersSound
    <2>4. \A t \in Threads : t # w => pc[t] = "idle"
      BY <2>1 DEF MutexSound
    <2> QED  BY <2>1, <2>2, <2>3, <2>4
  <1>a. /\ cache' \in Seq(Messages)
        /\ Range(cache') = Range(cache) \cup {arg[w]}
        /\ IsInjective(cache) => IsInjective(cache')
    BY <1>0, AppendRange
  <1>1. TypeOK'
    BY <1>a DEF CallStates, WorkerStates, MainStates, Results, MutexSound, WaitSound
  <1>2. PacketsSound'
    BY DEF PacketsSound, Packets
  <1>3. WaitSound'
    BY DEF WaitSound, Waiting, MutexSound
  <1>4. MutexSound'
    BY MqttAssumption DEF MutexSound
  <1>5. WorkersSound'
    BY <1>0, <1>a DEF WorkersSound
  <1>6. FlushSound'
    BY DEF FlushSound, MutexSound
  <1>7. DepthSound'
    BY DEF DepthSound, MutexSound
  <1>8. PublishedMeansDelivered'
    BY DEF PublishedMeansDelivered, WaitSound, MutexSound
  <1>9. NoLoss'
    BY <1>a DEF NoLoss
  <1>10. CachedOnce'
    BY <1>a DEF CachedOnce
  <1> QED BY <1>1, <1>2, <1>3, <1>4, <1>5, <1>6, <1>7, <1>8, <1>9, <1>10

(* publish() answers Deferred: the message is in the cache. *)
LEMMA PublishDeferredKeeps ==
    ASSUME IInv, NEW w \in Workers, PublishDeferred(w)
    PROVE  IInv'
  <1> USE ThreadAssumption DEF IInv, TypeOK, MqttTypeOK, PublishDeferred, Unlock, Return
  <1>0. cache_depth' \in Nat /\ faults' \in 0..MaxFaults /\ depthStale' \in BOOLEAN
    BY LoadAllType
  <1>1. TypeOK'
    BY <1>0 DEF CallStates, WorkerStates, MainStates, Results, MutexSound, WaitSound
  <1>2. PacketsSound'
    BY DEF PacketsSound, Packets
  <1>3. WaitSound'
    BY DEF WaitSound, Waiting, MutexSound
  <1>4. MutexSound'
    BY MqttAssumption DEF MutexSound
  <1>5. WorkersSound'
    BY DEF WorkersSound, MutexSound, Range
  <1>6. FlushSound'
    BY DEF FlushSound, MutexSound
  <1>7. DepthSound'
    BY DEF LoadAll, DepthSound, MutexSound
  <1>8. PublishedMeansDelivered'
    BY DEF PublishedMeansDelivered, WaitSound, MutexSound
  <1>9. NoLoss'
    BY DEF NoLoss, WaitSound, MutexSound, WorkersSound
  <1>10. CachedOnce'
    BY DEF CachedOnce, WorkersSound
  <1> QED BY <1>1, <1>2, <1>3, <1>4, <1>5, <1>6, <1>7, <1>8, <1>9, <1>10

(* publish() answers Failed: it promises nothing. *)
LEMMA PublishFailsKeeps ==
    ASSUME IInv, NEW w \in Workers, PublishFails(w)
    PROVE  IInv'
  <1> USE ThreadAssumption DEF IInv, TypeOK, MqttTypeOK, PublishFails, Fault, Unlock, Return
  <1>1. TypeOK'
    BY FaultType DEF CallStates, WorkerStates, MainStates, Results, MutexSound, WaitSound
  <1>2. PacketsSound'
    BY DEF PacketsSound, Packets
  <1>3. WaitSound'
    BY DEF WaitSound, Waiting, MutexSound
  <1>4. MutexSound'
    BY MqttAssumption DEF MutexSound
  <1>5. WorkersSound'
    BY DEF WorkersSound, MutexSound, Range
  <1>6. FlushSound'
    BY DEF FlushSound, MutexSound
  <1>7. DepthSound'
    BY DEF DepthSound, MutexSound
  <1>8. PublishedMeansDelivered'
    BY DEF PublishedMeansDelivered, WaitSound, MutexSound
  <1>9. NoLoss'
    BY DEF NoLoss, WaitSound, MutexSound, WorkersSound
  <1>10. CachedOnce'
    BY DEF CachedOnce, WorkersSound
  <1> QED BY <1>1, <1>2, <1>3, <1>4, <1>5, <1>6, <1>7, <1>8, <1>9, <1>10

(* flush_cache() starts: mutex_ was free. *)
LEMMA FlushCacheKeeps ==
    ASSUME IInv, flush_cache
    PROVE  IInv'
  <1> USE ThreadAssumption DEF IInv, TypeOK, MqttTypeOK, flush_cache, Lock, mqttVars
  <1>1. TypeOK'
    BY FaultType DEF CallStates, WorkerStates, MainStates, Results, MutexSound, WaitSound
  <1>2. PacketsSound'
    BY DEF PacketsSound, Packets
  <1>3. WaitSound'
    BY DEF WaitSound, Waiting, MutexSound
  <1>4. MutexSound'
    BY MqttAssumption DEF MutexSound
  <1>5. WorkersSound'
    <2>1. \A w \in Workers : arg'[w] = arg[w] /\ pc'[w] = pc[w]
      OBVIOUS
    <2> QED  BY <2>1 DEF WorkersSound
  <1>6. FlushSound'
    BY DEF FlushSound, MutexSound
  <1>7. DepthSound'
    BY DEF DepthSound, MutexSound
  <1>8. PublishedMeansDelivered'
    BY DEF PublishedMeansDelivered, WaitSound, MutexSound
  <1>9. NoLoss'
    BY DEF NoLoss, WaitSound, MutexSound, WorkersSound
  <1>10. CachedOnce'
    BY DEF CachedOnce, WorkersSound
  <1> QED BY <1>1, <1>2, <1>3, <1>4, <1>5, <1>6, <1>7, <1>8, <1>9, <1>10

(* The copy taken by load_all() equals the cache, or is empty. *)
LEMMA FlushLoadKeeps ==
    ASSUME IInv, FlushLoad
    PROVE  IInv'
  <1> USE ThreadAssumption DEF IInv, TypeOK, MqttTypeOK, FlushLoad, Unlock, Begin
  <1>0. /\ cache_depth' \in Nat /\ faults' \in 0..MaxFaults
        /\ depthStale' \in BOOLEAN /\ batch' \in Seq(Messages)
    <2> PICK loaded \in {cache, <<>>} :
              LoadAll(loaded) /\ cache_depth' = Len(loaded) /\ batch' = loaded
      OBVIOUS
    <2> QED BY LoadAllType, ZenonT(60)
  <1>1. TypeOK'
    <2>1. CASE batch' = <<>> /\ Unlock(Main) /\ UNCHANGED <<call, arg>>
      BY <1>0, <2>1 DEF WorkerStates, MainStates
    <2>2. CASE /\ batch' # <<>> /\ pc' = [pc EXCEPT ![Main] = "replay"]
               /\ Begin(Main, batch'[1]) /\ UNCHANGED mutex
      <3>1. batch'[1] \in Messages
        BY <1>0, <2>2
      <3>2. call' \in [Threads -> CallStates] /\ arg' \in [Threads -> Messages \cup {None}]
        BY <2>2, <3>1 DEF CallStates
      <3>3. pc' \in [Threads -> WorkerStates \cup MainStates] /\ pc'[Main] \in MainStates
        BY <2>2 DEF MainStates
      <3>4. \A w \in Workers : pc'[w] \in WorkerStates
        BY <2>2
      <3> QED  BY <1>0, <2>2, <3>2, <3>3, <3>4
    <2> QED  BY <2>1, <2>2, ZenonT(60)
  <1>2. PacketsSound'
    BY DEF PacketsSound, Packets
  <1>3. WaitSound'
    <2>1. CASE UNCHANGED <<call, arg, mid, inflight, acknowledged_message_ids, delivered>>
      BY <2>1 DEF WaitSound, Waiting
    <2>2. CASE batch' # <<>> /\ Begin(Main, batch'[1])
      <3>1. batch'[1] \in Messages
        BY <1>0, <2>2
      <3>2. call'[Main] = "enter" /\ arg'[Main] = batch'[1]
        BY <2>2
      <3>3. \A t \in Threads : t # Main => call'[t] = call[t] /\ arg'[t] = arg[t]
        BY <2>2
      <3>4. UNCHANGED <<mid, inflight, acknowledged_message_ids, delivered>>
        BY <2>2
      <3> QED  BY <3>1, <3>2, <3>3, <3>4 DEF WaitSound, Waiting
    <2> QED  BY <2>1, <2>2
  <1>4. MutexSound'
    BY MqttAssumption DEF MutexSound
  <1>5. WorkersSound'
    <2>1. \A w \in Workers : arg'[w] = arg[w] /\ pc'[w] = pc[w]
      OBVIOUS
    <2> QED  BY <2>1 DEF WorkersSound
  <1>6. FlushSound'
    BY DEF LoadAll, FlushSound, MutexSound
  <1>7. DepthSound'
    BY DEF LoadAll, DepthSound, MutexSound
  <1>8. PublishedMeansDelivered'
    BY DEF PublishedMeansDelivered, WaitSound, MutexSound
  <1>9. NoLoss'
    BY DEF NoLoss, WaitSound, MutexSound, WorkersSound
  <1>10. CachedOnce'
    BY DEF CachedOnce, WorkersSound
  <1> QED BY <1>1, <1>2, <1>3, <1>4, <1>5, <1>6, <1>7, <1>8, <1>9, <1>10

(* The main thread goes on with its replay, or leaves it: only its own      *)
(* place and its own call to MqttClient::publish change.                    *)
LEMMA MainStepKeeps ==
    ASSUME IInv, mutex = Main,
           NEW c \in {"none", "enter"}, NEW a \in Messages \cup {None}, NEW p \in MainStates,
           c = "enter" => a \in Messages,
           p \in {"idle", "load", "remove"} <=> c = "none",
           call' = [call EXCEPT ![Main] = c],
           arg' = [arg EXCEPT ![Main] = a],
           mid' = [mid EXCEPT ![Main] = None],
           pc' = [pc EXCEPT ![Main] = p],
           mutex' = IF p = "idle" THEN None ELSE mutex,
           count' \in Nat, FlushSound',
           UNCHANGED <<network_loop_started, connected, acknowledged_message_ids, inflight,
                       pubacks, delivered, faults, batch, cache, result, cache_depth,
                       depthStale>>
    PROVE  IInv'
  <1>0. /\ Main \in Threads /\ Main \notin Workers /\ Workers \subseteq Threads
        /\ None \notin Threads
    BY ThreadAssumption, MqttAssumption
  <1>a. /\ call \in [Threads -> CallStates] /\ arg \in [Threads -> Messages \cup {None}]
        /\ mid \in [Threads -> Mids \cup {None}]
        /\ pc \in [Threads -> WorkerStates \cup MainStates]
    BY DEF IInv, TypeOK, MqttTypeOK
  <1>b. \A t \in Threads : t # Main => /\ call'[t] = call[t] /\ arg'[t] = arg[t]
                                       /\ mid'[t] = mid[t] /\ pc'[t] = pc[t]
    BY <1>a
  <1>c. call'[Main] = c /\ arg'[Main] = a /\ pc'[Main] = p
    BY <1>0, <1>a
  <1>d. \A w \in Workers : arg'[w] = arg[w] /\ pc'[w] = pc[w]
    BY <1>0, <1>b
  <1>1. TypeOK'
    <2>1. /\ call' \in [Threads -> CallStates] /\ arg' \in [Threads -> Messages \cup {None}]
          /\ mid' \in [Threads -> Mids \cup {None}]
          /\ pc' \in [Threads -> WorkerStates \cup MainStates]
      BY <1>a, ZenonT(60) DEF CallStates
    <2>2. pc'[Main] \in MainStates /\ \A w \in Workers : pc'[w] \in WorkerStates
      BY <1>c, <1>d DEF IInv, TypeOK
    <2>3. mutex' \in Threads \cup {None}
      BY <1>0
    <2> QED  BY <2>1, <2>2, <2>3 DEF IInv, TypeOK, MqttTypeOK
  <1>2. PacketsSound'
    BY DEF IInv, PacketsSound
  <1>3. WaitSound'
    BY <1>b, <1>c DEF IInv, WaitSound, Waiting
  <1>4. MutexSound'
    <2>1. ASSUME NEW t \in Threads, t # Main
          PROVE  pc[t] = "idle" /\ mutex' # t
      BY <1>0, <2>1 DEF IInv, MutexSound
    <2>2. p \notin {"publish", "appended"}
      BY DEF MainStates
    <2>3. mutex' = Main <=> p # "idle"
      BY <1>0
    <2> QED  BY <1>b, <1>c, <2>1, <2>2, <2>3 DEF IInv, MutexSound
  <1>5. WorkersSound'
    BY <1>d DEF IInv, WorkersSound
  <1>6. DepthSound'
    BY <1>d DEF IInv, DepthSound
  <1>7. PublishedMeansDelivered' /\ NoLoss' /\ CachedOnce'
    BY DEF IInv, PublishedMeansDelivered, NoLoss, CachedOnce
  <1> QED  BY <1>1, <1>2, <1>3, <1>4, <1>5, <1>6, <1>7 DEF IInv

(* What holds while flush_cache replays.                                   *)
LEMMA ReplayFacts ==
    ASSUME IInv, pc[Main] = "replay"
    PROVE  /\ mutex = Main /\ batch = cache /\ batch \in Seq(Messages)
           /\ count \in Nat /\ Len(batch) \in Nat /\ count < Len(batch)
           /\ arg[Main] = batch[count + 1]
           /\ \A i \in 1..count : batch[i] \in delivered
           /\ pc \in [Threads -> WorkerStates \cup MainStates]
  <1>1. mutex = Main
    BY ThreadAssumption DEF IInv, MutexSound
  <1>2. /\ batch = cache /\ count < Len(batch) /\ arg[Main] = batch[count + 1]
        /\ \A i \in 1..count : batch[i] \in delivered
    BY DEF IInv, FlushSound
  <1>3. batch \in Seq(Messages) /\ count \in Nat
        /\ pc \in [Threads -> WorkerStates \cup MainStates]
    BY DEF IInv, TypeOK
  <1> QED  BY <1>1, <1>2, <1>3

(* The index after a valid count.                                          *)
LEMMA NextIndex == ASSUME NEW n \in Nat, NEW l \in Nat, n < l
                   PROVE  n + 1 \in 1..l
  OBVIOUS

(* The message just acknowledged joins the counted ones. *)
LEMMA FlushNextKeeps ==
    ASSUME IInv, FlushNext
    PROVE  IInv'
  <1>1. /\ mutex = Main /\ batch = cache /\ batch \in Seq(Messages)
        /\ count \in Nat /\ Len(batch) \in Nat /\ count < Len(batch)
        /\ arg[Main] = batch[count + 1]
        /\ \A i \in 1..count : batch[i] \in delivered
        /\ pc \in [Threads -> WorkerStates \cup MainStates]
    BY ReplayFacts DEF FlushNext
  <1>2. Main \in Threads /\ batch[count + 1] \in delivered
    BY <1>1, ThreadAssumption, ZenonT(60) DEF FlushNext, IInv, WaitSound
  <1>3. /\ pc[Main] = "replay" /\ count' = count + 1
        /\ UNCHANGED <<network_loop_started, connected, acknowledged_message_ids, inflight,
                       pubacks, delivered, faults, mutex, batch, cache, result, cache_depth,
                       depthStale>>
    BY DEF FlushNext, Return
  <1>4. count' \in 1..Len(batch) /\ count' \in Nat
    BY <1>1, <1>3
  <1>5. \A i \in 1..count' : batch[i] \in delivered
    <2> SUFFICES ASSUME NEW i \in 1..count' PROVE batch[i] \in delivered
      OBVIOUS
    <2>1. i \in 1..count \/ i = count + 1
      BY <1>1, <1>3
    <2> QED  BY <1>1, <1>2, <2>1
  <1>6. CASE /\ count' < Len(batch)
             /\ call' = [call EXCEPT ![Main] = "enter"]
             /\ arg' = [arg EXCEPT ![Main] = batch[count' + 1]]
             /\ mid' = [mid EXCEPT ![Main] = None]
             /\ UNCHANGED pc
    <2>0. count' < Len(batch) /\ Len(batch) \in Nat
      BY <1>1, <1>6
    <2>1. count' + 1 \in 1..Len(batch)
      BY <1>4, <2>0, NextIndex, ZenonT(60)
    <2>2. batch[count' + 1] \in Messages
      BY <1>1, <2>1
    <2>3. pc' = [pc EXCEPT ![Main] = "replay"]
      BY <1>1, <1>2, <1>3, <1>6
    <2>4. arg'[Main] = batch[count' + 1]
      BY <1>2, <1>6 DEF IInv, TypeOK, MqttTypeOK
    <2>5. FlushSound'
      BY <1>1, <1>3, <1>5, <1>6, <2>4 DEF FlushSound
    <2> QED  BY <1>1, <1>3, <1>4, <1>6, <2>2, <2>3, <2>5, MainStepKeeps DEF MainStates
  <1>7. CASE Return(Main) /\ pc' = [pc EXCEPT ![Main] = "remove"]
    <2>1. pc'[Main] = "remove"
      BY <1>1, <1>2, <1>7
    <2>2. FlushSound'
      BY <1>1, <1>3, <1>4, <1>5, <2>1, ZenonT(60) DEF FlushSound
    <2> QED  BY <1>1, <1>3, <1>4, <1>7, <2>2, MainStepKeeps, ZenonT(60) DEF MainStates, Return
  <1> QED  BY <1>6, <1>7 DEF FlushNext

(* The replay stops; the counted messages are those acknowledged before. *)
LEMMA FlushBreakKeeps ==
    ASSUME IInv, FlushBreak
    PROVE  IInv'
  <1>1. /\ mutex = Main /\ batch = cache /\ batch \in Seq(Messages)
        /\ count \in Nat /\ Len(batch) \in Nat /\ count < Len(batch)
        /\ arg[Main] = batch[count + 1]
        /\ \A i \in 1..count : batch[i] \in delivered
        /\ pc \in [Threads -> WorkerStates \cup MainStates]
    BY ReplayFacts DEF FlushBreak
  <1>2. Main \in Threads
    BY ThreadAssumption
  <1>3. /\ Return(Main)
        /\ UNCHANGED <<network_loop_started, connected, acknowledged_message_ids, inflight,
                       pubacks, delivered, faults, batch, count, cache, result, cache_depth,
                       depthStale>>
    BY DEF FlushBreak, Return
  <1>4. CASE Unlock(Main)
    <2>1. pc' = [pc EXCEPT ![Main] = "idle"] /\ mutex' = None /\ pc'[Main] = "idle"
      BY <1>1, <1>2, <1>4 DEF Unlock
    <2>2. FlushSound'
      BY <2>1 DEF FlushSound
    <2> QED  BY <1>1, <1>3, <2>1, <2>2, MainStepKeeps, ZenonT(60) DEF MainStates, Return
  <1>5. CASE count # 0 /\ pc' = [pc EXCEPT ![Main] = "remove"] /\ UNCHANGED mutex
    <2>1. pc'[Main] = "remove" /\ count \in 1..Len(batch)
      BY <1>1, <1>2, <1>5
    <2>2. FlushSound'
      BY <1>1, <1>3, <2>1, ZenonT(60) DEF FlushSound
    <2> QED  BY <1>1, <1>3, <1>5, <2>2, MainStepKeeps, ZenonT(60) DEF MainStates, Return
  <1> QED  BY <1>4, <1>5 DEF FlushBreak

(* The messages removed are the counted ones, all with the broker. *)
LEMMA FlushRemoveKeeps ==
    ASSUME IInv, FlushRemove
    PROVE  IInv'
  <1> USE ThreadAssumption DEF IInv, TypeOK, MqttTypeOK, FlushRemove, Unlock, mqttVars
  <1>0. /\ batch = cache /\ count \in 1..Len(cache)
        /\ \A i \in 1..count : cache[i] \in delivered
        /\ mutex = Main /\ \A w \in Workers : pc[w] = "idle"
    <2>1. /\ batch = cache /\ count \in 1..Len(batch)
          /\ \A i \in 1..count : batch[i] \in delivered
      BY DEF FlushSound
    <2>2. mutex = Main
      BY DEF MutexSound
    <2>3. \A w \in Workers : pc[w] = "idle"
      BY <2>2 DEF MutexSound
    <2> QED  BY <2>1, <2>2, <2>3
  <1>a. /\ cache' \in Seq(Messages) /\ Len(cache') = Len(cache) - count
        /\ Range(cache') \subseteq Range(cache)
        /\ \A x \in Range(cache) : x \in Range(cache') \/ x \in delivered
        /\ IsInjective(cache) => IsInjective(cache')
    <2>1. cache \in Seq(Messages) /\ count \in 0..Len(cache)
      BY <1>0
    <2>2. /\ cache' \in Seq(Messages) /\ Len(cache') = Len(cache) - count
          /\ Range(cache') \subseteq Range(cache)
          /\ \A x \in Range(cache) :
                x \in Range(cache') \/ \E i \in 1..count : cache[i] = x
          /\ IsInjective(cache) => IsInjective(cache')
      BY <2>1, SuffixRange
    <2>3. ASSUME NEW x \in Range(cache), x \notin Range(cache')
          PROVE  x \in delivered
      BY <1>0, <2>2, <2>3
    <2> QED BY <2>2, <2>3
  <1>b. cache_depth' = Len(cache') /\ cache_depth' \in Nat
    BY <1>0, <1>a
  <1>1. TypeOK'
    BY <1>a, <1>b, ZenonT(60) DEF CallStates, WorkerStates, MainStates, Results, MutexSound,
       WaitSound
  <1>2. PacketsSound'
    BY ZenonT(60) DEF PacketsSound, Packets
  <1>3. WaitSound'
    BY DEF WaitSound, Waiting, MutexSound
  <1>4. MutexSound'
    BY MqttAssumption DEF MutexSound
  <1>5. WorkersSound'
    BY <1>0, <1>a DEF WorkersSound
  <1>6. FlushSound'
    BY DEF FlushSound, MutexSound
  <1>7. DepthSound'
    BY <1>b DEF DepthSound
  <1>8. PublishedMeansDelivered'
    BY ZenonT(60) DEF PublishedMeansDelivered, WaitSound, MutexSound
  <1>9. NoLoss'
    BY <1>a DEF NoLoss
  <1>10. CachedOnce'
    BY <1>a DEF CachedOnce
  <1> QED BY <1>1, <1>2, <1>3, <1>4, <1>5, <1>6, <1>7, <1>8, <1>9, <1>10, ZenonT(60)

(* The cache is as it was. *)
LEMMA FlushRemoveFailsKeeps ==
    ASSUME IInv, FlushRemoveFails
    PROVE  IInv'
  <1> USE ThreadAssumption DEF IInv, TypeOK, MqttTypeOK, FlushRemoveFails, Fault, Unlock
  <1>1. TypeOK'
    BY FaultType DEF CallStates, WorkerStates, MainStates, Results, MutexSound, WaitSound
  <1>2. PacketsSound'
    BY ZenonT(60) DEF PacketsSound, Packets
  <1>3. WaitSound'
    BY DEF WaitSound, Waiting, MutexSound
  <1>4. MutexSound'
    BY MqttAssumption DEF MutexSound
  <1>5. WorkersSound'
    <2>1. \A w \in Workers : arg'[w] = arg[w] /\ pc'[w] = pc[w]
      OBVIOUS
    <2> QED  BY <2>1 DEF WorkersSound
  <1>6. FlushSound'
    BY DEF FlushSound, MutexSound
  <1>7. DepthSound'
    BY ZenonT(60) DEF DepthSound, MutexSound
  <1>8. PublishedMeansDelivered'
    BY DEF PublishedMeansDelivered, WaitSound, MutexSound
  <1>9. NoLoss'
    BY ZenonT(60) DEF NoLoss, WaitSound, MutexSound, WorkersSound
  <1>10. CachedOnce'
    BY DEF CachedOnce, WorkersSound
  <1> QED BY <1>1, <1>2, <1>3, <1>4, <1>5, <1>6, <1>7, <1>8, <1>9, <1>10, ZenonT(60)

(* After a crash no thread is inside the publisher and no packet is in flight. *)
LEMMA CrashKeeps ==
    ASSUME IInv, Crash
    PROVE  IInv'
  <1> USE ThreadAssumption DEF IInv, TypeOK, MqttTypeOK, Crash, MqttRestart, Fault
  <1>0. cache_depth' \in Nat /\ depthStale' \in BOOLEAN
    OBVIOUS
  <1>a. faults' \in 0..MaxFaults
    BY FaultType
  <1>b. batch' \in Seq(Messages) /\ count' \in Nat /\ result' \in [Messages -> Results]
    BY DEF Results
  <1>1. TypeOK'
    BY <1>0, <1>a, <1>b, ZenonT(60) DEF CallStates, WorkerStates, MainStates
  <1>2. PacketsSound'
    BY DEF PacketsSound, Packets
  <1>3. WaitSound'
    BY ZenonT(60) DEF WaitSound, Waiting, MutexSound
  <1>4. MutexSound'
    BY MqttAssumption DEF MutexSound
  <1>5. WorkersSound'
    <2>1. \A w \in Workers : pc'[w] = "idle"
      OBVIOUS
    <2>2. \A m \in Range(cache) : result[m] # "new" /\ m \in Messages
      BY DEF WorkersSound, Range
    <2>3. \A m \in Range(cache) : result'[m] # "new"
      BY <2>2
    <2>4. cache' = cache
      OBVIOUS
    <2> QED  BY <2>1, <2>3, <2>4 DEF WorkersSound
  <1>6. FlushSound'
    BY DEF FlushSound, MutexSound
  <1>7. DepthSound'
    BY ZenonT(60) DEF DepthSound, MutexSound
  <1>8. PublishedMeansDelivered'
    BY DEF PublishedMeansDelivered, WaitSound, MutexSound
  <1>9. NoLoss'
    BY ZenonT(60) DEF NoLoss, WaitSound, MutexSound, WorkersSound
  <1>10. CachedOnce'
    BY DEF CachedOnce, WorkersSound
  <1> QED BY <1>1, <1>2, <1>3, <1>4, <1>5, <1>6, <1>7, <1>8, <1>9, <1>10

-----------------------------------------------------------------------------
(* The theorems.                                                           *)

(* The invariant holds initially.                                          *)
LEMMA InitIInv == Init => IInv
  <1> SUFFICES ASSUME Init PROVE IInv
    OBVIOUS
  <1> USE ThreadAssumption DEF Init, MqttInit
  <1>0. faults \in 0..MaxFaults /\ cache \in Seq(Messages) /\ batch \in Seq(Messages)
    BY MqttAssumption
  <1>1. TypeOK
    BY <1>0, ZenonT(60) DEF TypeOK, MqttTypeOK, CallStates, Results, WorkerStates, MainStates
  <1>2. PacketsSound /\ WaitSound /\ FlushSound /\ PublishedMeansDelivered /\ NoLoss
    BY DEF PacketsSound, WaitSound, Waiting, FlushSound, PublishedMeansDelivered, NoLoss
  <1>3. MutexSound
    BY MqttAssumption DEF MutexSound
  <1>4. WorkersSound /\ CachedOnce
    BY DEF WorkersSound, CachedOnce, IsInjective, Range
  <1>5. DepthSound
    BY DEF DepthSound
  <1> QED BY <1>1, <1>2, <1>3, <1>4, <1>5 DEF IInv

(* A step that changes nothing keeps the invariant.                        *)
LEMMA StutterIInv == IInv /\ UNCHANGED vars => IInv'
  <1> SUFFICES ASSUME IInv, UNCHANGED vars PROVE IInv'
    OBVIOUS
  <1> USE DEF vars, mqttVars, IInv
  <1>1. TypeOK'
    BY DEF TypeOK, MqttTypeOK
  <1>2. PacketsSound' /\ MutexSound'
    BY ZenonT(60) DEF PacketsSound, MutexSound
  <1>3. WaitSound'
    BY ZenonT(60) DEF WaitSound, Waiting
  <1>4. WorkersSound' /\ FlushSound'
    BY DEF WorkersSound, FlushSound
  <1>5. DepthSound' /\ PublishedMeansDelivered' /\ NoLoss' /\ CachedOnce'
    BY DEF DepthSound, PublishedMeansDelivered, NoLoss, CachedOnce
  <1> QED BY <1>1, <1>2, <1>3, <1>4, <1>5

(* Every step keeps the invariant.                                         *)
LEMMA NextIInv == IInv /\ [Next]_vars => IInv'
  <1> SUFFICES ASSUME IInv, [Next]_vars PROVE IInv'
    OBVIOUS
  <1>1. ASSUME NEW w \in Workers, Worker(w) PROVE IInv'
    BY <1>1, PublishKeeps, PublishSucceedsKeeps, CacheAppendKeeps, PublishDeferredKeeps,
       PublishFailsKeeps DEF Worker
  <1>2. ASSUME MainThread PROVE IInv'
    BY <1>2, FlushCacheKeeps, FlushLoadKeeps, FlushNextKeeps, FlushBreakKeeps,
       FlushRemoveKeeps, FlushRemoveFailsKeeps DEF MainThread
  <1>3. ASSUME Network, PublisherUnchanged PROVE IInv'
    BY <1>3, OnConnectKeeps, OnDisconnectKeeps, OnPublishKeeps, BrokerReceiveKeeps
       DEF Network
  <1>4. ASSUME NEW t \in Threads, PublishStep(t), PublisherUnchanged PROVE IInv'
    BY <1>4, EnterKeeps, SendKeeps, SendErrorKeeps, ParkKeeps, WakeKeeps, TimeoutKeeps
       DEF PublishStep
  <1> QED BY <1>1, <1>2, <1>3, <1>4, CrashKeeps, StutterIInv DEF Next, MqttStep

(* The inductive invariant holds in every reachable state.                 *)
THEOREM Invariance == Spec => []IInv
  BY InitIInv, NextIInv, PTL DEF Spec

(* The variables stay within their types.                                  *)
THEOREM TypeCorrect == Spec => []TypeOK
  <1>1. IInv => TypeOK
    BY DEF IInv
  <1> QED BY <1>1, Invariance, PTL

(* At-least-once delivery: a message answered Published or Deferred is     *)
(* with the broker or in the cache, whatever faults happen.                *)
THEOREM AtLeastOnce == Spec => []NoLoss
  <1>1. IInv => NoLoss
    BY DEF IInv
  <1> QED BY <1>1, Invariance, PTL

(* publish() confirms only what the broker has.                            *)
THEOREM ConfirmationSound == Spec => []PublishedMeansDelivered
  <1>1. IInv => PublishedMeansDelivered
    BY DEF IInv
  <1> QED BY <1>1, Invariance, PTL

(* No message is in the cache twice.                                       *)
THEOREM CacheWithoutDuplicates == Spec => []CachedOnce
  <1>1. IInv => CachedOnce
    BY DEF IInv
  <1> QED BY <1>1, Invariance, PTL

(* Between calls the cache_depth gauge is right unless load_all() failed.  *)
THEOREM GaugeAccurate == Spec => []DepthAccurate
  <1>1. IInv => DepthAccurate
    <2> SUFFICES ASSUME IInv, mutex = None, ~depthStale PROVE cache_depth = Len(cache)
      BY DEF DepthAccurate
    <2>1. \A w \in Workers : pc[w] = "idle"
      BY ThreadAssumption, MqttAssumption DEF IInv, MutexSound
    <2> QED BY <2>1 DEF IInv, DepthSound
  <1> QED BY <1>1, Invariance, PTL

-----------------------------------------------------------------------------
(* The cache changes in two steps only.                                    *)
LEMMA CacheChanges ==
    ASSUME [Next]_vars, cache' # cache
    PROVE  FlushRemove \/ \E w \in Workers : CacheAppend(w)
  BY ZenonT(60) DEF Next, vars, Worker, MainThread, MqttStep, PublisherUnchanged, publish,
         PublishSucceeds, PublishDeferred, PublishFails, flush_cache, FlushLoad,
         FlushNext, FlushBreak, FlushRemoveFails, Crash

(* flush_cache() removes the oldest messages, and only acknowledged ones;  *)
(* publish() adds at the end.                                              *)
THEOREM RemovalSound == Spec => RemovedAfterDelivery
  <1> DEFINE A == \E n \in 0..Len(cache) :
                     /\ \A i \in 1..n : cache[i] \in delivered
                     /\ \/ cache' = SubSeq(cache, n + 1, Len(cache))
                        \/ n = 0 /\ \E m \in Messages : cache' = Append(cache, m)
  <1>1. ASSUME IInv, [Next]_vars PROVE [A]_cache
    <2> SUFFICES ASSUME cache' # cache PROVE A
      OBVIOUS
    <2>1. CASE FlushRemove
      <3>1. /\ count \in 0..Len(cache)
            /\ \A i \in 1..count : cache[i] \in delivered
            /\ cache' = SubSeq(cache, count + 1, Len(cache))
        <4>1. pc[Main] = "remove" /\ cache' = SubSeq(cache, count + 1, Len(cache))
          BY <2>1 DEF FlushRemove
        <4>2. /\ batch = cache /\ count \in 1..Len(batch)
              /\ \A i \in 1..count : batch[i] \in delivered
          BY <1>1, <4>1 DEF IInv, FlushSound
        <4>3. Len(cache) \in Nat
          BY <1>1 DEF IInv, TypeOK
        <4> QED  BY <4>1, <4>2, <4>3
      <3> QED BY <3>1
    <2>2. ASSUME NEW w \in Workers, CacheAppend(w) PROVE A
      <3>1. arg[w] \in Messages /\ cache' = Append(cache, arg[w])
        BY <1>1, <2>2, ThreadAssumption, ZenonT(60) DEF CacheAppend, IInv, WaitSound
      <3>2. 0 \in 0..Len(cache) /\ \A i \in 1..0 : cache[i] \in delivered
        BY <1>1 DEF IInv, TypeOK
      <3> QED BY <3>1, <3>2
    <2> QED BY <1>1, <2>1, <2>2, CacheChanges
  <1> QED BY <1>1, Invariance, PTL DEF Spec, RemovedAfterDelivery

(* A recorded PUBACK stays until the thread that waits for it returns:     *)
(* whoever would clear it has to hold mutex_.                              *)
THEOREM AckSafe == Spec => AckNotDiscarded
  <1> DEFINE Kept(t) == \/ mid[t] \in acknowledged_message_ids' /\ call'[t] # "false"
                        \/ call'[t] \in {"true", "none"}
             A == \A t \in Threads :
                    (call[t] \in {"parking", "blocked", "woken"}
                       /\ mid[t] \in acknowledged_message_ids)
                    => Kept(t)
  <1>1. ASSUME IInv, [Next]_vars PROVE [A]_vars
    <2> SUFFICES ASSUME Next, NEW t \in Threads,
                        call[t] \in {"parking", "blocked", "woken"},
                        mid[t] \in acknowledged_message_ids
                 PROVE  Kept(t)
      BY <1>1
    <2>1. mutex = t /\ pc[t] # "idle" /\ \A u \in Threads : u # t => call[u] = "none"
      BY <1>1, CallerFacts DEF IInv, MutexSound
    <2>2. ASSUME NEW u \in Threads, PublishStep(u) PROVE Kept(t)
      <3>0. /\ call \in [Threads -> CallStates]
            /\ u # t => call[u] = "none"
        BY <1>1, <2>1 DEF IInv, TypeOK, MqttTypeOK
      <3>1. CASE Enter(u) \/ Send(u) \/ SendError(u)
        BY <3>0, <3>1, ZenonT(60) DEF Enter, Send, SendError
      <3>2. CASE Park(u)
        BY <3>0, <3>2 DEF Park
      <3>3. CASE Wake(u) \/ Timeout(u)
        <4>1. u = t
          BY <3>0, <3>3 DEF Wake, Timeout
        <4>2. Resolve(t)
          BY <3>3, <4>1, ZenonT(60) DEF Wake, Timeout
        <4> QED  BY <3>0, <4>2 DEF Resolve
      <3> QED  BY <2>2, <3>1, <3>2, <3>3 DEF PublishStep
    <2>3. ASSUME Network PROVE Kept(t)
      BY <1>1, <2>3, ZenonT(60) DEF IInv, TypeOK, MqttTypeOK, Network, on_connect,
         on_disconnect, on_publish,
         BrokerReceive, NotifyAll
    <2>4. ASSUME NEW w \in Workers, Worker(w) PROVE Kept(t)
      BY <1>1, <2>1, <2>4, ThreadAssumption, MqttAssumption, ZenonT(60)
         DEF IInv, TypeOK, MqttTypeOK, MutexSound, Worker, publish, Lock, PublishSucceeds,
         CacheAppend, mqttVars, PublishDeferred, PublishFails, Return, Begin
    <2>5. ASSUME MainThread PROVE Kept(t)
      BY <1>1, <2>1, <2>5, ThreadAssumption, MqttAssumption, ZenonT(60)
         DEF IInv, TypeOK, MqttTypeOK, MutexSound, MainThread, flush_cache, Lock, FlushLoad,
         FlushNext, FlushBreak, FlushRemove, FlushRemoveFails, mqttVars, Return, Begin
    <2>6. ASSUME Crash PROVE Kept(t)
      BY <2>6 DEF Crash, MqttRestart
    <2> QED BY <2>2, <2>3, <2>4, <2>5, <2>6 DEF Next, MqttStep
  <1> QED BY <1>1, Invariance, PTL DEF Spec, AckNotDiscarded

-----------------------------------------------------------------------------
(* The publisher implements the store-and-forward queue: every step is a   *)
(* step of the queue or changes nothing the queue sees.                    *)
LEMMA StepRefines ==
    ASSUME IInv, [Next]_vars
    PROVE  [SF!Next]_<<result, cache, delivered>>
  <1> USE DEF SF!Next
  <1>1. ASSUME NEW w \in Workers, NEW m \in Messages, publish(w, m)
        PROVE  SF!Submit(m)
    BY <1>1 DEF publish, Begin, SF!Submit
  <1>2. ASSUME NEW w \in Workers, pc[w] # "idle"
        PROVE  /\ result[arg[w]] = "calling" /\ arg[w] \in Messages
               /\ pc[w] = "publish" => ~SF!IsStored(arg[w])
               /\ pc[w] = "appended" => SF!IsStored(arg[w])
    <2>1. w \in Threads /\ call[w] # "none"
      BY <1>2, ThreadAssumption DEF IInv, TypeOK, WorkerStates, MutexSound
    <2>2. result[arg[w]] = "calling" /\ arg[w] \in Messages
      BY <1>2, <2>1 DEF IInv, WorkersSound, WaitSound
    <2>3. /\ pc[w] = "publish" => arg[w] \notin Range(cache)
          /\ pc[w] = "appended" => arg[w] \in Range(cache)
      BY DEF IInv, WorkersSound
    <2> QED  BY <2>2, <2>3 DEF Range, SF!IsStored
  <1>3. ASSUME NEW w \in Workers, PublishSucceeds(w) PROVE SF!Answer(arg[w])
    BY <1>2, <1>3, ThreadAssumption, ZenonT(60)
       DEF PublishSucceeds, Return, SF!Answer, IInv, WaitSound
  <1>4. ASSUME NEW w \in Workers, CacheAppend(w) PROVE SF!Store(arg[w])
    BY <1>2, <1>4 DEF CacheAppend, mqttVars, SF!Store
  <1>5. ASSUME NEW w \in Workers, PublishDeferred(w) PROVE SF!Answer(arg[w])
    BY <1>2, <1>5 DEF PublishDeferred, Return, SF!Answer
  <1>6. ASSUME NEW w \in Workers, PublishFails(w) PROVE SF!Answer(arg[w])
    BY <1>2, <1>6 DEF PublishFails, Return, SF!Answer
  <1>7. ASSUME NEW w \in Workers, Worker(w) PROVE SF!Next
    <2>1. pc[w] # "idle" \/ \E m \in Messages : publish(w, m)
      BY <1>7, ZenonT(60) DEF Worker, PublishSucceeds, CacheAppend, PublishDeferred, PublishFails
    <2> QED BY <1>1, <1>2, <1>3, <1>4, <1>5, <1>6, <1>7, <2>1, ZenonT(60) DEF Worker
  <1>8. ASSUME FlushRemove PROVE count \in 1..Len(cache) /\ SF!Forward(count)
    <2>1. /\ pc[Main] = "remove" /\ cache' = SubSeq(cache, count + 1, Len(cache))
          /\ result' = result /\ delivered' = delivered
      BY <1>8, ZenonT(60) DEF FlushRemove, mqttVars
    <2>2. batch = cache /\ (\A i \in 1..count : batch[i] \in delivered) /\ count \in 1..Len(batch)
      BY <2>1, ZenonT(60) DEF IInv, FlushSound
    <2> QED BY <2>1, <2>2, ZenonT(60) DEF SF!Forward
  <1>9. ASSUME MainThread PROVE [SF!Next]_<<result, cache, delivered>>
    BY <1>8, <1>9 DEF MainThread, flush_cache, mqttVars, FlushLoad, Begin, FlushNext,
       Return,
       FlushBreak, FlushRemoveFails
  <1>10. ASSUME NEW p \in inflight, BrokerReceive(p), PublisherUnchanged
         PROVE  p.msg \in Messages /\ SF!Deliver(p.msg)
    BY <1>10 DEF BrokerReceive, PublisherUnchanged, SF!Deliver, IInv, TypeOK, MqttTypeOK,
       Packets, PacketsSound
  <1>11. ASSUME MqttStep PROVE [SF!Next]_<<result, cache, delivered>>
    BY <1>10, <1>11, ZenonT(60) DEF MqttStep, Network, PublishStep, PublisherUnchanged, on_connect,
       on_disconnect, on_publish, Enter, Send, SendError, Park, Wake, Timeout
  <1>12. ASSUME Crash PROVE SF!Die
    BY <1>12 DEF Crash, MqttRestart, SF!Die
  <1> QED BY <1>7, <1>9, <1>11, <1>12 DEF Next, vars, mqttVars

(* Refinement: whatever the threads, the network and the faults do, a      *)
(* caller sees the store-and-forward queue of StoreAndForward.             *)
THEOREM Refinement == Spec => StoreAndForwardSpec
  <1>1. Init => SF!Init
    BY DEF Init, MqttInit, SF!Init
  <1>2. IInv /\ [Next]_vars => [SF!Next]_<<result, cache, delivered>>
    BY StepRefines
  <1> QED BY <1>1, <1>2, Invariance, PTL DEF Spec, StoreAndForwardSpec, SF!Spec, SF!sfVars
=============================================================================

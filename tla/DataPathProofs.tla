---------------------------- MODULE DataPathProofs ----------------------------
(***************************************************************************)
(* The way of a reading from an adapter to the publishers, and first the   *)
(* TCP publisher at its end, proved for any workers, readings, messages,   *)
(* pieces of a line, connections and reads.                                *)
(***************************************************************************)
EXTENDS DataPath, Integers, TLAPS, FiniteSetTheorems

(* Most steps need no arithmetic: Zenon is tried first, and SMT where it   *)
(* finds no proof.                                                         *)
USE ZenonT(2), SMTT(15), SMTT(30), ZenonT(30), SMTT(60)

-----------------------------------------------------------------------------
(* TcpPublisher: the steps that hand nothing to a connection.              *)

(* They keep the lines as they are.                                        *)
LEMMA StreamsKept ==
    ASSUME UNCHANGED streams
    PROVE  /\ JsonLines => JsonLines'
           /\ \A m : SentOn(m)' = SentOn(m)
           /\ \A c : LineEnded(c)' = LineEnded(c)
           /\ \A c, piece : EndsWith(c, piece)' = EndsWith(c, piece)
  BY DEF JsonLines, SentOn, LineEnded, EndsWith, Connections

LEMMA publishKeeps ==
    ASSUME TcpIInv, NEW w \in Workers, NEW m \in Messages, publish(w, m)
    PROVE  TcpIInv'
  <1> USE TcpAssumption DEF TcpIInv, publish, Goto
  <1>1. TypeOK' /\ LockSound'
    BY DEF TypeOK, LockSound, Connections
  <1>2. MessagesSound'
    BY DEF TypeOK, MessagesSound
  <1>3. ConnectionSound' /\ JsonLines'
    BY StreamsKept DEF TypeOK, ConnectionSound
  <1>4. SentSound'
    <2>1. \A n \in Messages : Whole(n)' <=> Whole(n)
      BY DEF TypeOK, Whole
    <2> QED  BY <2>1, StreamsKept DEF SentSound
  <1>5. CountedSound'
    <2>1. \A s \in {"Published", "Failed"} : Settled(s)' = Settled(s)
      <3>1. message[w] = None /\ outcome[m] = None
        BY DEF MessagesSound
      <3> QED  BY <3>1 DEF TypeOK, Settled
    <2> QED  BY <2>1 DEF CountedSound
  <1> QED  BY <1>1, <1>2, <1>3, <1>4, <1>5

LEMMA MqttDoneKeeps ==
    ASSUME TcpIInv, NEW w \in Workers, MqttDone(w)
    PROVE  TcpIInv'
  <1> USE TcpAssumption DEF TcpIInv, MqttDone, Goto
  <1>1. TypeOK' /\ LockSound'
    BY DEF TypeOK, LockSound, Connections
  <1>2. MessagesSound'
    BY DEF TypeOK, MessagesSound
  <1>3. ConnectionSound' /\ JsonLines'
    BY StreamsKept DEF TypeOK, ConnectionSound
  <1>4. SentSound'
    <2>1. \A n \in Messages : Whole(n)' <=> Whole(n)
      BY DEF TypeOK, Whole
    <2> QED  BY <2>1, StreamsKept DEF SentSound
  <1>5. CountedSound'
    BY DEF CountedSound, Settled
  <1> QED  BY <1>1, <1>2, <1>3, <1>4, <1>5

LEMMA LockKeeps ==
    ASSUME TcpIInv, NEW w \in Workers, Lock(w)
    PROVE  TcpIInv'
  <1> USE TcpAssumption DEF TcpIInv, Lock, Goto
  <1>1. TypeOK' /\ LockSound'
    BY DEF TypeOK, LockSound, Connections
  <1>2. MessagesSound'
    BY DEF TypeOK, MessagesSound
  <1>3. ConnectionSound' /\ JsonLines'
    BY StreamsKept DEF TypeOK, ConnectionSound
  <1>4. SentSound'
    <2>1. \A n \in Messages : Whole(n)' <=> Whole(n)
      BY DEF TypeOK, Whole
    <2> QED  BY <2>1, StreamsKept DEF SentSound
  <1>5. CountedSound'
    BY DEF CountedSound, Settled
  <1> QED  BY <1>1, <1>2, <1>3, <1>4, <1>5

(* A call of publish() that has sent nothing of a line, or a part of it    *)
(* and closed the connection, fails: the message is on no connection as a  *)
(* whole.                                                                  *)
LEMMA FailKeeps ==
    ASSUME TcpIInv, NEW w \in Workers, ConnectFails(w) \/ SendFails(w)
    PROVE  TcpIInv'
  <1> USE TcpAssumption DEF TcpIInv
  <1>1. /\ pc[w] \in {"connect", "send"} /\ sent[w] # Pieces
        /\ Return(w, "Failed") /\ socket_fd' = None
        /\ UNCHANGED <<message, sent, streams, counted, main>>
    BY DEF ConnectFails, SendFails, LockSound, TypeOK
  <1>2. message[w] \in Messages /\ outcome[message[w]] = None
    BY <1>1 DEF MessagesSound, TypeOK
  <1>3. TypeOK' /\ LockSound'
    BY <1>1 DEF TypeOK, LockSound, Return, Goto, Connections
  <1>4. MessagesSound'
    BY <1>1, <1>2 DEF TypeOK, MessagesSound, Return, Goto
  <1>5. ConnectionSound' /\ JsonLines'
    BY <1>1, StreamsKept DEF ConnectionSound
  <1>6. SentSound'
    <2>1. \A n \in Messages : Whole(n)' <=> Whole(n)
      BY <1>1, <1>2 DEF TypeOK, Whole, Return, Goto
    <2> QED  BY <1>1, <2>1, StreamsKept DEF SentSound
  <1>7. CountedSound'
    <2>1. \A s \in {"Published", "Failed"} : Settled(s)' = Settled(s)
      BY <1>1, <1>2 DEF TypeOK, Settled, Return
    <2> QED  BY <1>1, <2>1 DEF CountedSound
  <1> QED  BY <1>3, <1>4, <1>5, <1>6, <1>7

LEMMA SendDoneKeeps ==
    ASSUME TcpIInv, NEW w \in Workers, SendDone(w)
    PROVE  TcpIInv'
  <1> USE TcpAssumption DEF TcpIInv, SendDone, Return, Goto
  <1>1. message[w] \in Messages /\ outcome[message[w]] = None /\ socket_fd # None
    BY DEF MessagesSound, LockSound, TypeOK
  <1>2. TypeOK' /\ LockSound'
    BY <1>1 DEF TypeOK, LockSound, Connections
  <1>3. MessagesSound'
    BY <1>1 DEF TypeOK, MessagesSound
  <1>4. ConnectionSound'
    <2>1. EndsWith(socket_fd, <<message[w], Pieces>>)
      BY <1>1 DEF ConnectionSound
    <2>2. LineEnded(socket_fd)
      BY <2>1 DEF LineEnded, EndsWith
    <2>3. \A v \in Workers : pc'[v] # "send"
      BY DEF LockSound, TypeOK
    <2> QED  BY <2>2, <2>3, StreamsKept DEF ConnectionSound
  <1>5. SentSound' /\ JsonLines'
    <2>1. \A n \in Messages : Whole(n)' <=> Whole(n)
      BY <1>1 DEF TypeOK, Whole
    <2> QED  BY <2>1, StreamsKept DEF SentSound
  <1>6. CountedSound'
    <2>1. \A s \in {"Published", "Failed"} : Settled(s)' = Settled(s)
      BY <1>1 DEF TypeOK, Settled
    <2> QED  BY <2>1 DEF CountedSound
  <1> QED  BY <1>2, <1>3, <1>4, <1>5, <1>6

(* The outcome is counted when the worker is done with the message.        *)
LEMMA RecordKeeps ==
    ASSUME TcpIInv, NEW w \in Workers, Record(w)
    PROVE  /\ TcpIInv'
           /\ outcome[message[w]] \in {"Published", "Failed"}
  <1> USE TcpAssumption DEF TcpIInv, Record, Goto
  <1> DEFINE m == message[w]
             s == outcome[m]
  <1>1. m \in Messages /\ s \in {"Published", "Failed"}
    BY DEF MessagesSound, TypeOK
  <1>2. TypeOK' /\ LockSound'
    BY <1>1 DEF TypeOK, LockSound, Connections
  <1>3. MessagesSound'
    BY DEF TypeOK, MessagesSound
  <1>4. ConnectionSound' /\ JsonLines'
    BY StreamsKept DEF TypeOK, ConnectionSound
  <1>5. SentSound'
    <2>1. \A n \in Messages : Whole(n)' <=> Whole(n)
      BY DEF TypeOK, Whole
    <2> QED  BY <2>1, StreamsKept DEF SentSound
  <1>6. CountedSound'
    <2>1. PICK n \in Messages, t \in {"Published", "Failed"} : n = m /\ t = s
      BY <1>1
    <2>2. \A v \in Workers : v # w => message[v] # n
      BY <2>1 DEF MessagesSound
    <2>3. Settled(t)' = Settled(t) \cup {n} /\ n \notin Settled(t)
      BY <2>1, <2>2 DEF Settled, TypeOK
    <2>4. \A u \in {"Published", "Failed"} : u # t => Settled(u)' = Settled(u)
      BY <2>1 DEF Settled, TypeOK
    <2>5. IsFiniteSet(Settled(t)') /\ Cardinality(Settled(t)') = Cardinality(Settled(t)) + 1
      <3>1. IsFiniteSet(Settled(t))
        BY DEF CountedSound
      <3>2. /\ IsFiniteSet(Settled(t) \cup {n})
            /\ Cardinality(Settled(t) \cup {n}) = Cardinality(Settled(t)) + 1
        BY <2>3, <3>1, FS_AddElement
      <3> QED  BY <2>3, <3>2
    <2>6. /\ counted'[t] = counted[t] + 1
          /\ \A u \in {"Published", "Failed"} : u # t => counted'[u] = counted[u]
      BY <2>1 DEF TypeOK
    <2>7. \A u \in {"Published", "Failed"} :
             IsFiniteSet(Settled(u)') /\ counted'[u] = Cardinality(Settled(u)')
      BY <2>4, <2>5, <2>6 DEF CountedSound
    <2> QED  BY <2>7 DEF CountedSound
  <1> QED  BY <1>1, <1>2, <1>3, <1>4, <1>5, <1>6

(* The main thread's steps.                                                *)
LEMMA MainKeeps ==
    ASSUME TcpIInv, StopDevices \/ Join \/ disconnect
    PROVE  TcpIInv'
  <1> USE TcpAssumption DEF TcpIInv
  <1>1. /\ UNCHANGED <<mutex, pc, message, sent, streams, outcome, counted>>
        /\ main' \in {"joining", "joined", "done"}
        /\ UNCHANGED socket_fd \/ socket_fd' = None
    BY DEF StopDevices, Join, disconnect
  <1>2. TypeOK'
    BY <1>1 DEF TypeOK, Connections
  <1>3. LockSound'
    BY DEF StopDevices, Join, disconnect, LockSound
  <1>4. MessagesSound' /\ ConnectionSound' /\ JsonLines'
    BY <1>1, StreamsKept DEF MessagesSound, ConnectionSound
  <1>5. SentSound'
    <2>1. \A n \in Messages : Whole(n)' <=> Whole(n)
      BY <1>1 DEF Whole
    <2> QED  BY <1>1, <2>1, StreamsKept DEF SentSound
  <1>6. CountedSound'
    BY <1>1 DEF CountedSound, Settled
  <1> QED  BY <1>2, <1>3, <1>4, <1>5, <1>6

(* A new connection has carried nothing yet.                               *)
LEMMA ConnectKeeps ==
    ASSUME TcpIInv, NEW w \in Workers, Connect(w)
    PROVE  TcpIInv'
  <1> USE TcpAssumption DEF TcpIInv, Connect, Goto
  <1>1. /\ Len(streams) \in Nat /\ Len(streams') = Len(streams) + 1
        /\ \A c \in Connections : streams'[c] = streams[c]
        /\ streams'[Len(streams) + 1] = <<>>
        /\ streams' \in Seq(Seq(Messages \X (1..Pieces)))
    BY DEF TypeOK, Connections
  <1>2. Connections' = Connections \cup {Len(streams) + 1}
    BY <1>1 DEF Connections
  <1>3. TypeOK' /\ LockSound'
    <2>1. TypeOK'
      BY <1>1, <1>2 DEF TypeOK
    <2>2. socket_fd' # None
      BY <1>1
    <2> QED  BY <2>1, <2>2 DEF TypeOK, LockSound
  <1>4. MessagesSound'
    BY DEF TypeOK, MessagesSound
  <1>5. ConnectionSound'
    <2>1. \A v \in Workers : pc'[v] = "send" => sent'[v] = 0
      BY DEF LockSound, TypeOK
    <2>2. LineEnded(socket_fd)'
      BY <1>1 DEF LineEnded
    <2> QED  BY <2>1, <2>2 DEF ConnectionSound
  <1>6. JsonLines'
    <2> DEFINE Lines(s) == \A i \in DOMAIN s :
                 IF s[i][2] = 1 THEN i = 1 \/ s[i - 1][2] = Pieces
                                ELSE i > 1 /\ s[i - 1] = <<s[i][1], s[i][2] - 1>>
    <2>1. Lines(<<>>)
      OBVIOUS
    <2>2. \A c \in Connections : Lines(streams[c])
      BY DEF JsonLines
    <2> HIDE DEF Lines
    <2>3. \A c \in Connections' : Lines(streams'[c])
      BY <1>1, <1>2, <2>1, <2>2
    <2> QED  BY <2>3 DEF JsonLines, Lines
  <1>7. SentSound'
    <2>1. \A n \in Messages : SentOn(n)' = SentOn(n)
      <3>1. DOMAIN streams'[Len(streams) + 1] = {}
        BY <1>1
      <3> QED  BY <1>1, <1>2, <3>1 DEF SentOn
    <2>2. \A n \in Messages : Whole(n)' <=> Whole(n)
      BY DEF TypeOK, Whole, LockSound
    <2> QED  BY <2>1, <2>2 DEF SentSound
  <1>8. CountedSound'
    BY DEF CountedSound, Settled
  <1> QED  BY <1>3, <1>4, <1>5, <1>6, <1>7, <1>8

(* A sequence with one more element.                                       *)
LEMMA OneLonger ==
    ASSUME NEW S, NEW s \in Seq(S), NEW x \in S, NEW n \in Nat, n = Len(s)
    PROVE  /\ Len(Append(s, x)) = n + 1 /\ Append(s, x)[n + 1] = x
           /\ DOMAIN s = 1..n /\ DOMAIN Append(s, x) = 1..(n + 1)
           /\ \A i \in 1..n : Append(s, x)[i] = s[i]
  OBVIOUS

(* One of several sequences with one more element.                         *)
LEMMA OneAppended ==
    ASSUME NEW S, NEW ss \in Seq(Seq(S)), NEW c \in 1..Len(ss), NEW x \in S,
           NEW tt, tt = [ss EXCEPT ![c] = Append(@, x)]
    PROVE  /\ ss[c] \in Seq(S) /\ tt \in Seq(Seq(S)) /\ Len(tt) = Len(ss)
           /\ tt[c] = Append(ss[c], x)
           /\ \A d \in 1..Len(ss) : d # c => tt[d] = ss[d]
  OBVIOUS

(* What is found in the longer sequence.                                   *)
LEMMA FoundIn ==
    ASSUME NEW n \in Nat, NEW s, NEW t, \A i \in 1..n : t[i] = s[i], NEW x
    PROVE  (\E i \in 1..(n + 1) : t[i] = x) <=> (\E i \in 1..n : s[i] = x) \/ t[n + 1] = x
  <1>1. \A i \in 1..(n + 1) : i \in 1..n \/ i = n + 1
    OBVIOUS
  <1>2. n + 1 \in 1..(n + 1) /\ \A i \in 1..n : i \in 1..(n + 1)
    OBVIOUS
  <1> QED  BY <1>1, <1>2

(* The next piece of a line follows the one before it, and the last piece  *)
(* is sent of no other message.                                            *)
LEMMA SendKeeps ==
    ASSUME TcpIInv, NEW w \in Workers, Send(w)
    PROVE  TcpIInv'
  <1> USE TcpAssumption
  <1>1. PICK c \in Connections : c = socket_fd /\ c # None
    BY DEF TcpIInv, Send, LockSound, TypeOK
  <1>2. PICK m \in Messages : m = message[w]
    BY DEF TcpIInv, Send, MessagesSound, TypeOK
  <1>3. PICK k \in 1..Pieces : k = sent[w] + 1
    BY DEF TcpIInv, Send, TypeOK
  <1>4. \A v \in Workers : pc[v] = "send" <=> v = w
    BY DEF TcpIInv, Send, LockSound, TypeOK
  <1>5. PICK n \in Nat : n = Len(streams[c])
    BY <1>1 DEF TcpIInv, TypeOK, Connections
  <1>6. /\ streams[c] \in Seq(Messages \X (1..Pieces))
        /\ <<m, k>> \in Messages \X (1..Pieces)
        /\ streams' \in Seq(Seq(Messages \X (1..Pieces)))
        /\ Len(streams') = Len(streams) /\ Connections' = Connections
        /\ \A d \in Connections : d # c => streams'[d] = streams[d]
        /\ streams'[c] = Append(streams[c], <<m, k>>)
    <2>1. <<m, k>> \in Messages \X (1..Pieces)
      OBVIOUS
    <2>2. streams \in Seq(Seq(Messages \X (1..Pieces))) /\ c \in 1..Len(streams)
      BY DEF TcpIInv, TypeOK, Connections
    <2>3. streams' = [streams EXCEPT ![c] = Append(@, <<m, k>>)]
      BY <1>1, <1>2, <1>3 DEF Send
    <2> QED  BY <2>1, <2>2, <2>3, OneAppended DEF Connections
  <1>7. /\ Len(streams'[c]) = n + 1 /\ streams'[c][n + 1] = <<m, k>>
        /\ DOMAIN streams[c] = 1..n /\ DOMAIN streams'[c] = 1..(n + 1)
        /\ \A i \in 1..n : streams'[c][i] = streams[c][i]
    BY <1>5, <1>6, OneLonger
  <1>8. TypeOK' /\ LockSound'
    <2>1. TypeOK'
      BY <1>6 DEF TcpIInv, Send, TypeOK
    <2> QED  BY <2>1 DEF TcpIInv, Send, TypeOK, LockSound
  <1>9. MessagesSound'
    BY DEF TcpIInv, Send, TypeOK, MessagesSound
  <1>10. ConnectionSound'
    <2>1. sent'[w] = k /\ k > 0 /\ message'[w] = m /\ socket_fd' = c
      BY <1>1, <1>2, <1>3 DEF TcpIInv, Send, TypeOK
    <2>2. EndsWith(socket_fd, <<message[w], sent[w]>>)'
      BY <1>7, <2>1 DEF EndsWith
    <2> QED  BY <1>4, <2>1, <2>2 DEF TcpIInv, Send, ConnectionSound
  <1>11. JsonLines'
    <2>1. IF k = 1 THEN n = 0 \/ streams[c][n][2] = Pieces
                   ELSE n > 0 /\ streams[c][n] = <<m, k - 1>>
      <3>1. CASE k = 1
        <4>1. sent[w] = 0
          BY <1>3, <3>1 DEF TcpIInv, TypeOK
        <4>2. LineEnded(c)
          BY <1>1, <1>4, <4>1 DEF TcpIInv, ConnectionSound
        <4> QED  BY <1>5, <3>1, <4>2 DEF LineEnded
      <3>2. CASE k # 1
        <4>1. sent[w] > 0 /\ sent[w] = k - 1
          BY <1>3, <3>2 DEF TcpIInv, TypeOK
        <4>2. EndsWith(c, <<m, k - 1>>)
          BY <1>1, <1>2, <4>1 DEF TcpIInv, Send, ConnectionSound
        <4> QED  BY <1>5, <3>2, <4>2 DEF EndsWith
      <3> QED  BY <3>1, <3>2
    <2>2. ASSUME NEW d \in Connections, NEW i \in DOMAIN streams'[d]
          PROVE  IF streams'[d][i][2] = 1
                 THEN i = 1 \/ streams'[d][i - 1][2] = Pieces
                 ELSE i > 1 /\ streams'[d][i - 1] = <<streams'[d][i][1], streams'[d][i][2] - 1>>
      <3>1. CASE d # c
        <4>1. streams'[d] = streams[d]
          BY <1>6, <3>1
        <4>2. i \in DOMAIN streams[d]
          BY <2>2, <4>1
        <4> QED  BY <4>1, <4>2 DEF TcpIInv, JsonLines
      <3>2. CASE d = c /\ i \in 1..n
        <4>1. IF streams[c][i][2] = 1
                 THEN i = 1 \/ streams[c][i - 1][2] = Pieces
                 ELSE i > 1 /\ streams[c][i - 1] = <<streams[c][i][1], streams[c][i][2] - 1>>
          BY <1>7, <3>2 DEF TcpIInv, JsonLines
        <4>2. i > 1 => i - 1 \in 1..n
          BY <3>2
        <4> QED  BY <1>7, <3>2, <4>1, <4>2
      <3>3. CASE d = c /\ i = n + 1
        <4>1. streams'[c][i] = <<m, k>> /\ (n > 0 => streams'[c][i - 1] = streams[c][n])
          BY <1>7, <3>3
        <4> QED  BY <2>1, <3>3, <4>1
      <3> QED  BY <1>7, <3>1, <3>2, <3>3
    <2> QED  BY <1>6, <2>2 DEF JsonLines
  <1>12. SentSound'
    <2>1. ASSUME NEW x \in Messages
          PROVE  SentOn(x)' = IF x = m /\ k = Pieces THEN SentOn(x) \cup {c} ELSE SentOn(x)
      <3>1. \A d \in Connections : d # c => (d \in SentOn(x)' <=> d \in SentOn(x))
        BY <1>6 DEF SentOn
      <3>2. c \in SentOn(x)' <=> c \in SentOn(x) \/ (x = m /\ k = Pieces)
        <4>1. c \in SentOn(x)' <=> \E i \in 1..(n + 1) : streams'[c][i] = <<x, Pieces>>
          BY <1>6, <1>7 DEF SentOn
        <4>2. c \in SentOn(x) <=> \E i \in 1..n : streams[c][i] = <<x, Pieces>>
          BY <1>7 DEF SentOn
        <4>3. <<m, k>> = <<x, Pieces>> <=> x = m /\ k = Pieces
          OBVIOUS
        <4>4. (\E i \in 1..(n + 1) : streams'[c][i] = <<x, Pieces>>) <=>
                 (\E i \in 1..n : streams[c][i] = <<x, Pieces>>) \/ <<m, k>> = <<x, Pieces>>
          <5>1. \A i \in 1..n : streams'[c][i] = streams[c][i]
            BY <1>7
          <5>2. (\E i \in 1..(n + 1) : streams'[c][i] = <<x, Pieces>>) <=>
                   (\E i \in 1..n : streams[c][i] = <<x, Pieces>>)
                     \/ streams'[c][n + 1] = <<x, Pieces>>
            BY <5>1, FoundIn
          <5> QED  BY <1>7, <5>2
        <4> QED  BY <4>1, <4>2, <4>3, <4>4
      <3>3. SentOn(x) \subseteq Connections /\ SentOn(x)' \subseteq Connections
        BY <1>6 DEF SentOn
      <3> QED  BY <3>1, <3>2, <3>3
    <2>2. \A x \in Messages : Whole(x)' <=> Whole(x) \/ (x = m /\ k = Pieces)
      BY <1>2, <1>3, <1>4 DEF TcpIInv, Send, TypeOK, Whole
    <2>3. ~Whole(m)
      <3>1. outcome[m] = None
        BY <1>2 DEF TcpIInv, Send, MessagesSound
      <3>2. \A v \in Workers : pc[v] = "send" => sent[v] # Pieces
        BY <1>4 DEF TcpIInv, Send, TypeOK
      <3> QED  BY <3>1, <3>2 DEF Whole
    <2> QED  BY <2>1, <2>2, <2>3 DEF TcpIInv, SentSound
  <1>13. CountedSound'
    BY DEF TcpIInv, Send, CountedSound, Settled
  <1> QED  BY <1>8, <1>9, <1>10, <1>11, <1>12, <1>13 DEF TcpIInv

-----------------------------------------------------------------------------
(* TcpPublisher: the theorems.                                             *)

LEMMA TcpInit == Init => TcpIInv
  <1> SUFFICES ASSUME Init PROVE TcpIInv
    OBVIOUS
  <1> USE TcpAssumption DEF Init
  <1>1. Len(streams) = 0 /\ Connections = {} /\ streams \in Seq(Seq(Messages \X (1..Pieces)))
    BY DEF Connections
  <1>2. TypeOK /\ LockSound /\ MessagesSound /\ ConnectionSound
    BY <1>1 DEF TypeOK, LockSound, MessagesSound, ConnectionSound
  <1>3. JsonLines /\ SentSound
    BY <1>1 DEF JsonLines, SentSound, SentOn, Whole
  <1>4. CountedSound
    <2>1. \A s \in {"Published", "Failed"} : Settled(s) = {}
      BY DEF Settled
    <2> QED  BY <2>1, FS_EmptySet DEF CountedSound
  <1> QED  BY <1>2, <1>3, <1>4 DEF TcpIInv

LEMMA TcpStutter ==
    ASSUME TcpIInv, UNCHANGED vars
    PROVE  TcpIInv'
  <1> USE DEF TcpIInv, vars
  <1>1. TypeOK' /\ LockSound' /\ MessagesSound'
    BY DEF TypeOK, Connections, LockSound, MessagesSound
  <1>2. ConnectionSound' /\ JsonLines'
    BY StreamsKept DEF ConnectionSound
  <1>3. \A n \in Messages : Whole(n)' <=> Whole(n)
    BY DEF Whole
  <1>4. SentSound' /\ CountedSound'
    BY <1>3, StreamsKept DEF SentSound, CountedSound, Settled
  <1> QED  BY <1>1, <1>2, <1>4

LEMMA TcpNext ==
    ASSUME TcpIInv, [Next]_vars
    PROVE  TcpIInv'
  <1>1. ASSUME NEW w \in Workers, Worker(w)
        PROVE  TcpIInv'
    BY <1>1, publishKeeps, MqttDoneKeeps, LockKeeps, ConnectKeeps, FailKeeps, SendKeeps,
       SendDoneKeeps, RecordKeeps DEF Worker
  <1>2. ASSUME StopDevices \/ Join \/ disconnect
        PROVE  TcpIInv'
    BY <1>2, MainKeeps
  <1>3. ASSUME Finished \/ UNCHANGED vars
        PROVE  TcpIInv'
    BY <1>3, TcpStutter DEF Finished
  <1> QED  BY <1>1, <1>2, <1>3 DEF Next

(* The inductive invariant of the publisher holds for any workers that     *)
(* call publish(), however they interleave.                                *)
THEOREM TcpInvariance == Spec => []TcpIInv
  <1>1. TcpIInv /\ [Next]_vars => TcpIInv'
    BY TcpNext
  <1> QED  BY <1>1, TcpInit, PTL DEF Spec

(* Every connection carries whole lines one after the other, the last one  *)
(* possibly cut off.                                                       *)
THEOREM LinesIntact == Spec => []JsonLines
  <1>1. TcpIInv => JsonLines
    BY DEF TcpIInv
  <1> QED  BY <1>1, TcpInvariance, PTL

(* publish() says Published for the messages that one connection was       *)
(* handed whole, once, and Failed for messages that none was.              *)
THEOREM OutcomesTrue == Spec => []OutcomeHonest
  <1>1. ASSUME TcpIInv
        PROVE  OutcomeHonest
    <2> USE <1>1, TcpAssumption DEF TcpIInv
    <2> SUFFICES ASSUME NEW m \in Messages
                 PROVE  /\ outcome[m] = "Published" => Cardinality(SentOn(m)) = 1
                        /\ outcome[m] = "Failed" => SentOn(m) = {}
      BY DEF OutcomeHonest
    <2>1. ASSUME outcome[m] = "Published"
          PROVE  Cardinality(SentOn(m)) = 1
      <3>1. PICK c : c \in SentOn(m)
        BY <2>1 DEF SentSound, Whole
      <3>2. SentOn(m) = {c}
        BY <3>1 DEF SentSound
      <3> QED  BY <3>2, FS_Singleton
    <2>2. ASSUME outcome[m] = "Failed"
          PROVE  SentOn(m) = {}
      BY <2>2 DEF SentSound, Whole, MessagesSound
    <2> QED  BY <2>1, <2>2
  <1> QED  BY <1>1, TcpInvariance, PTL

(* The connection a worker sends on stays open until it is done, and no    *)
(* connection is left open, although disconnect() takes no mutex.          *)
THEOREM CleanShutdown == Spec => []ShutdownClean
  <1>1. TcpIInv => ShutdownClean
    BY DEF TcpIInv, LockSound, ShutdownClean
  <1> QED  BY <1>1, TcpInvariance, PTL

-----------------------------------------------------------------------------
(* DataPath uses TcpPublisher as it is specified.                          *)

LEMMA DataStepPublishes ==
    ASSUME [DataNext]_allVars
    PROVE  [Next]_vars
  <1>1. ASSUME NEW w \in Workers, DataWorker(w)
        PROVE  [Next]_vars
    <2>1. CASE publish_sensor_data(w)
      BY <2>1 DEF publish_sensor_data, Next, Worker
    <2>2. CASE Publishing(w)
      BY <2>2 DEF Publishing, Next, Worker
    <2>3. CASE ~publish_sensor_data(w) /\ ~Publishing(w)
      BY <1>1, <2>3 DEF DataWorker, BeginRead, ReadPending, ReadNothing, ReadFrames,
         HandleData, HandleError, EndIteration, Add
    <2> QED  BY <2>1, <2>2, <2>3
  <1>2. ASSUME render_prometheus \/ Shutdown \/ JoinWorkers \/ CloseConnection
                 \/ (Finished /\ UNCHANGED dataVars)
        PROVE  [Next]_vars
    BY <1>2 DEF render_prometheus, Shutdown, JoinWorkers, CloseConnection, Next
  <1>3. ASSUME UNCHANGED allVars
        PROVE  UNCHANGED vars
    BY <1>3 DEF allVars
  <1> QED  BY <1>1, <1>2, <1>3 DEF DataNext

(* The workers of the data path use the publisher as its specification     *)
(* says, so that the theorems above hold of it.                            *)
THEOREM DataPathPublishes == DataSpec => Spec
  <1>1. DataInit => Init
    BY DEF DataInit
  <1>2. [DataNext]_allVars => [Next]_vars
    BY DataStepPublishes
  <1> QED  BY <1>1, <1>2, PTL DEF DataSpec, Spec

-----------------------------------------------------------------------------
(* DataPath: the balances, seen from the one worker that takes a step.     *)

OthersKept(w) ==
    \A v \in Workers \ {w} :
        /\ stage'[v] = stage[v] /\ result'[v] = result[v] /\ todo'[v] = todo[v]
        /\ pc'[v] = pc[v]

DueNat ==
    /\ ExcessDue \in [Workers -> Nat] /\ CountDue \in [Workers -> Nat]
    /\ EndDue \in [Workers -> Nat] /\ OutcomeDue \in [Workers -> Nat]

(* What is due is a number.                                                *)
LEMMA DueTypes == DataTypeOK => DueNat
  <1> SUFFICES ASSUME DataTypeOK, NEW w \in Workers
               PROVE  /\ ExcessDue[w] \in Nat /\ CountDue[w] \in Nat
                      /\ EndDue[w] \in Nat /\ OutcomeDue[w] \in Nat
    BY DEF DueNat, ExcessDue, CountDue, EndDue, OutcomeDue
  <1>1. CASE stage[w] \in {"loop", "read"}
    <2>1. DataLeft(w) = 0 /\ ErrorsLeft(w) = 0
      BY <1>1 DEF DataLeft, ErrorsLeft
    <2> QED  BY <1>1, <2>1 DEF ExcessDue, CountDue, EndDue, OutcomeDue, If
  <1>2. CASE stage[w] \notin {"loop", "read"}
    <2>1. /\ result[w].errors.crc \in Nat /\ result[w].errors.length \in Nat
          /\ result[w].errors.generic \in Nat
      BY <1>2 DEF DataTypeOK, Results, ErrorStats
    <2>2. /\ invalid_frame_count(result[w].errors) \in Nat
          /\ invalid_frame_count(result[w].errors)
               >= result[w].errors.crc + result[w].errors.length
      BY <2>1 DEF invalid_frame_count
    <2>3. ProtocolErrors(result[w].errors) \in Nat
      BY <2>2 DEF ProtocolErrors
    <2>4. ExcessDue[w] \in Nat
      BY <2>1, <2>2 DEF ExcessDue, If
    <2>5. CountDue[w] \in Nat
      BY <2>2, <2>3 DEF CountDue, If
    <2>6. OutcomeDue[w] \in Nat
      BY DEF OutcomeDue, If
    <2>7. EndDue[w] \in Nat
      BY <2>3, <2>6 DEF EndDue, If
    <2> QED  BY <2>4, <2>5, <2>6, <2>7
  <1> QED  BY <1>1, <1>2

LEMMA DueOfOthers ==
    ASSUME NEW w \in Workers, OthersKept(w), NEW v \in Workers \ {w}
    PROVE  /\ ExcessDue'[v] = ExcessDue[v] /\ CountDue'[v] = CountDue[v]
           /\ EndDue'[v] = EndDue[v] /\ OutcomeDue'[v] = OutcomeDue[v]
  <1>1. DataLeft(v)' = DataLeft(v) /\ ErrorsLeft(v)' = ErrorsLeft(v)
    BY DEF OthersKept, DataLeft, ErrorsLeft
  <1>2. result'[v] = result[v] /\ stage'[v] = stage[v]
    BY DEF OthersKept
  <1>3. OutcomeDue'[v] = OutcomeDue[v]
    BY <1>2 DEF OutcomeDue
  <1> QED  BY <1>1, <1>2, <1>3 DEF ExcessDue, CountDue, EndDue

(* A sum over the workers moves with the part of the one that changes it.  *)
LEMMA TotalMoves ==
    ASSUME NEW f \in [Workers -> Nat], NEW g \in [Workers -> Nat], NEW w \in Workers,
           \A v \in Workers \ {w} : g[v] = f[v]
    PROVE  /\ Total(f) \in Nat /\ Total(g) \in Nat /\ f[w] \in Nat /\ g[w] \in Nat
           /\ Total(g) + f[w] = Total(f) + g[w]
  <1>1. CASE w = Uart
    BY <1>1, DataPathAssumption DEF Total
  <1>2. CASE w = Modbus
    BY <1>2, DataPathAssumption DEF Total
  <1>3. CASE w = Can
    BY <1>3, DataPathAssumption DEF Total
  <1> QED  BY <1>1, <1>2, <1>3, DataPathAssumption

SumsNat ==
    /\ FramesCounted \in Nat /\ FramesReceived \in Nat /\ Ended \in Nat /\ EndsReceived \in Nat
    /\ Causes \in Nat /\ Invalid \in Nat /\ GoodCounted \in Nat /\ GoodReceived \in Nat

MetricsNat ==
    /\ metrics["frames_parsed"] \in Nat /\ metrics["frames_invalid"] \in Nat
    /\ metrics["crc_errors"] \in Nat /\ metrics["length_errors"] \in Nat
    /\ metrics["protocol_error"] \in Nat /\ metrics["modbus_error"] \in Nat
    /\ metrics["can_error"] \in Nat

ReceivedNat ==
    /\ received.reads \in Nat /\ received.frames \in Nat /\ received.good \in Nat
    /\ received.generic \in Nat /\ received.faults[Uart] \in Nat
    /\ received.faults[Modbus] \in Nat /\ received.faults[Can] \in Nat

LEMMA SumOfFive ==
    ASSUME NEW a \in Nat, NEW b \in Nat, NEW c \in Nat, NEW d \in Nat, NEW e \in Nat
    PROVE  a + b + c + d + e \in Nat
  OBVIOUS

LEMMA SumsTypes ==
    TypeOK /\ DataTypeOK =>
        SumsNat /\ MetricsNat /\ ReceivedNat /\ Outcomes \in Nat /\ Len(pending) \in Nat
  <1> SUFFICES ASSUME TypeOK, DataTypeOK
               PROVE  /\ SumsNat /\ MetricsNat /\ ReceivedNat
                      /\ Outcomes \in Nat /\ Len(pending) \in Nat
    OBVIOUS
  <1>1. Outcomes \in Nat
    BY DEF TypeOK, Outcomes
  <1>2. Len(pending) \in Nat
    BY DEF DataTypeOK
  <1>3. ReceivedNat
    BY DataPathAssumption DEF ReceivedNat, DataTypeOK, Receipts
  <1>4. MetricsNat
    BY DEF MetricsNat, DataTypeOK, Counters
  <1>5. FramesCounted \in Nat
    <2>1. /\ metrics["frames_parsed"] \in Nat /\ metrics["frames_invalid"] \in Nat
          /\ metrics["modbus_error"] \in Nat /\ metrics["can_error"] \in Nat
      BY <1>4 DEF MetricsNat
    <2> QED  BY <1>2, <2>1, SumOfFive DEF FramesCounted
  <1>6. FramesReceived \in Nat /\ EndsReceived \in Nat
    BY <1>3 DEF FramesReceived, EndsReceived, Total, ReceivedNat
  <1>7. Ended \in Nat /\ GoodCounted \in Nat
    BY <1>1, <1>2, <1>4 DEF Ended, GoodCounted, MetricsNat
  <1>8. Causes \in Nat /\ Invalid \in Nat
    BY <1>3, <1>4 DEF Causes, Invalid, MetricsNat, ReceivedNat
  <1> QED  BY <1>1, <1>2, <1>3, <1>4, <1>5, <1>6, <1>7, <1>8
           DEF SumsNat, GoodReceived, ReceivedNat

(* The step of w keeps each of the balances.                               *)
FramesKept(w) == FramesCounted' + CountDue'[w] + FramesReceived
                   = FramesCounted + CountDue[w] + FramesReceived'

EndsKept(w) == Ended' + EndDue'[w] + EndsReceived
                 = Ended + EndDue[w] + EndsReceived'

CausesKept(w) == Invalid' + ExcessDue'[w] + Causes
                   = Invalid + ExcessDue[w] + Causes'

GoodKept(w) == GoodCounted' + OutcomeDue'[w] + GoodReceived
                 = GoodCounted + OutcomeDue[w] + GoodReceived'

LEMMA Balances ==
    ASSUME DataIInv, TypeOK', DataTypeOK', NEW w \in Workers, OthersKept(w)
    PROVE  /\ FramesKept(w) => FramesBalance'
           /\ EndsKept(w) => EndsBalance'
           /\ CausesKept(w) => CausesBalance'
           /\ GoodKept(w) /\ GoodCounted + Total(OutcomeDue) = GoodReceived
                => (GoodCounted + Total(OutcomeDue) = GoodReceived)'
  <1>1. TypeOK /\ DataTypeOK
    BY DEF DataIInv, TcpIInv
  <1>2. DueNat' /\ SumsNat'
    BY DueTypes, SumsTypes, PTL
  <1>3. DueNat /\ SumsNat
    BY <1>1, DueTypes, SumsTypes
  <1>4. ASSUME FramesKept(w) PROVE FramesBalance'
    <2>1. CountDue \in [Workers -> Nat] /\ CountDue' \in [Workers -> Nat]
      BY <1>2, <1>3 DEF DueNat
    <2>2. \A v \in Workers \ {w} : CountDue'[v] = CountDue[v]
      BY DueOfOthers
    <2>3. /\ FramesCounted \in Nat /\ FramesReceived \in Nat
          /\ FramesCounted' \in Nat /\ FramesReceived' \in Nat
      BY <1>2, <1>3 DEF SumsNat
    <2>4. FramesCounted + Total(CountDue) = FramesReceived
      BY DEF DataIInv, FramesBalance
    <2>5. FramesCounted' + CountDue'[w] + FramesReceived = FramesCounted + CountDue[w] + FramesReceived'
      BY <1>4 DEF FramesKept
    <2>6. /\ Total(CountDue) \in Nat /\ Total(CountDue') \in Nat
          /\ CountDue[w] \in Nat /\ CountDue'[w] \in Nat
          /\ Total(CountDue') + CountDue[w] = Total(CountDue) + CountDue'[w]
      BY <2>1, <2>2, TotalMoves
    <2>7. FramesCounted' + Total(CountDue') = FramesReceived'
      BY <2>3, <2>4, <2>5, <2>6
    <2> QED  BY <2>7 DEF FramesBalance, Total
  <1>5. ASSUME EndsKept(w) PROVE EndsBalance'
    <2>1. EndDue \in [Workers -> Nat] /\ EndDue' \in [Workers -> Nat]
      BY <1>2, <1>3 DEF DueNat
    <2>2. \A v \in Workers \ {w} : EndDue'[v] = EndDue[v]
      BY DueOfOthers
    <2>3. /\ Ended \in Nat /\ EndsReceived \in Nat
          /\ Ended' \in Nat /\ EndsReceived' \in Nat
      BY <1>2, <1>3 DEF SumsNat
    <2>4. Ended + Total(EndDue) = EndsReceived
      BY DEF DataIInv, EndsBalance
    <2>5. Ended' + EndDue'[w] + EndsReceived = Ended + EndDue[w] + EndsReceived'
      BY <1>5 DEF EndsKept
    <2>6. /\ Total(EndDue) \in Nat /\ Total(EndDue') \in Nat
          /\ EndDue[w] \in Nat /\ EndDue'[w] \in Nat
          /\ Total(EndDue') + EndDue[w] = Total(EndDue) + EndDue'[w]
      BY <2>1, <2>2, TotalMoves
    <2>7. Ended' + Total(EndDue') = EndsReceived'
      BY <2>3, <2>4, <2>5, <2>6
    <2> QED  BY <2>7 DEF EndsBalance, Total
  <1>6. ASSUME CausesKept(w) PROVE CausesBalance'
    <2>1. ExcessDue \in [Workers -> Nat] /\ ExcessDue' \in [Workers -> Nat]
      BY <1>2, <1>3 DEF DueNat
    <2>2. \A v \in Workers \ {w} : ExcessDue'[v] = ExcessDue[v]
      BY DueOfOthers
    <2>3. /\ Invalid \in Nat /\ Causes \in Nat
          /\ Invalid' \in Nat /\ Causes' \in Nat
      BY <1>2, <1>3 DEF SumsNat
    <2>4. Invalid + Total(ExcessDue) = Causes
      BY DEF DataIInv, CausesBalance
    <2>5. Invalid' + ExcessDue'[w] + Causes = Invalid + ExcessDue[w] + Causes'
      BY <1>6 DEF CausesKept
    <2>6. /\ Total(ExcessDue) \in Nat /\ Total(ExcessDue') \in Nat
          /\ ExcessDue[w] \in Nat /\ ExcessDue'[w] \in Nat
          /\ Total(ExcessDue') + ExcessDue[w] = Total(ExcessDue) + ExcessDue'[w]
      BY <2>1, <2>2, TotalMoves
    <2>7. Invalid' + Total(ExcessDue') = Causes'
      BY <2>3, <2>4, <2>5, <2>6
    <2> QED  BY <2>7 DEF CausesBalance, Total
  <1>7. ASSUME GoodKept(w), GoodCounted + Total(OutcomeDue) = GoodReceived
        PROVE (GoodCounted + Total(OutcomeDue) = GoodReceived)'
    <2>1. OutcomeDue \in [Workers -> Nat] /\ OutcomeDue' \in [Workers -> Nat]
      BY <1>2, <1>3 DEF DueNat
    <2>2. \A v \in Workers \ {w} : OutcomeDue'[v] = OutcomeDue[v]
      BY DueOfOthers
    <2>3. /\ GoodCounted \in Nat /\ GoodReceived \in Nat
          /\ GoodCounted' \in Nat /\ GoodReceived' \in Nat
      BY <1>2, <1>3 DEF SumsNat
    <2>4. GoodCounted + Total(OutcomeDue) = GoodReceived
      BY <1>7
    <2>5. GoodCounted' + OutcomeDue'[w] + GoodReceived = GoodCounted + OutcomeDue[w] + GoodReceived'
      BY <1>7 DEF GoodKept
    <2>6. /\ Total(OutcomeDue) \in Nat /\ Total(OutcomeDue') \in Nat
          /\ OutcomeDue[w] \in Nat /\ OutcomeDue'[w] \in Nat
          /\ Total(OutcomeDue') + OutcomeDue[w] = Total(OutcomeDue) + OutcomeDue'[w]
      BY <2>1, <2>2, TotalMoves
    <2>7. GoodCounted' + Total(OutcomeDue') = GoodReceived'
      BY <2>3, <2>4, <2>5, <2>6
    <2> QED  BY <2>7 DEF Total
  <1> QED  BY <1>4, <1>5, <1>6, <1>7

-----------------------------------------------------------------------------
(* DataPath: what the step of one worker has to keep.                      *)

(* The three ways in which the history of a read changes.                  *)
LEMMA Received ==
    ASSUME NEW x \in Receipts
    PROVE  /\ [x EXCEPT !.reads = @ + 1] \in Receipts
           /\ \A w \in Workers : [x EXCEPT !.faults[w] = @ + 1] \in Receipts
           /\ \A f, g, h \in Nat :
                 [x EXCEPT !.frames = @ + f, !.good = @ + g, !.generic = @ + h] \in Receipts
  <1>1. [x EXCEPT !.reads = @ + 1] \in Receipts
    BY DEF Receipts
  <1>2. ASSUME NEW w \in Workers
        PROVE  [x EXCEPT !.faults[w] = @ + 1] \in Receipts
    BY DEF Receipts
  <1>3. ASSUME NEW f \in Nat, NEW g \in Nat, NEW h \in Nat
        PROVE  [x EXCEPT !.frames = @ + f, !.good = @ + g, !.generic = @ + h] \in Receipts
    <2>1. x.frames + f \in Nat /\ x.good + g \in Nat /\ x.generic + h \in Nat
      BY DEF Receipts
    <2>2. \A i, j, k \in Nat :
             [x EXCEPT !.frames = i, !.good = j, !.generic = k] \in Receipts
      BY DEF Receipts
    <2>3. [x EXCEPT !.frames = x.frames + f, !.good = x.good + g, !.generic = x.generic + h]
            \in Receipts
      BY <2>1, <2>2
    <2> QED  BY <2>3
  <1> QED  BY <1>1, <1>2, <1>3

SumsKept == UNCHANGED <<FramesCounted, FramesReceived, Ended, EndsReceived,
                        Invalid, Causes, GoodCounted, GoodReceived>>

DueKept(w) == /\ CountDue'[w] = CountDue[w] /\ EndDue'[w] = EndDue[w]
              /\ ExcessDue'[w] = ExcessDue[w] /\ OutcomeDue'[w] = OutcomeDue[w]

BalancesKept(w) == FramesKept(w) /\ EndsKept(w) /\ CausesKept(w) /\ GoodKept(w)

LEMMA NothingCounted ==
    ASSUME NEW w \in Workers, SumsKept, DueKept(w)
    PROVE  BalancesKept(w)
  BY DEF SumsKept, DueKept, BalancesKept, FramesKept, EndsKept, CausesKept, GoodKept

LEMMA SumsUntouched ==
    ASSUME UNCHANGED <<metrics, pending, counted>>,
           UNCHANGED <<received.frames, received.good, received.generic, received.faults>>
    PROVE  SumsKept
  BY DEF SumsKept, FramesCounted, FramesReceived, Ended, EndsReceived, Invalid, Causes,
         GoodCounted, GoodReceived, Outcomes, Total

(* The others' part of the invariant depends on nothing else.              *)
LEMMA OthersSound ==
    ASSUME NEW w \in Workers, OthersKept(w), NEW v \in Workers \ {w}, WorkerSound(v)
    PROVE  WorkerSound(v)'
  BY DEF OthersKept, WorkerSound

(* Counters only grow.                                                     *)
LEMMA ScrapeBehind ==
    ASSUME TypeOK, DataTypeOK, DataTypeOK', ScrapeSound, UNCHANGED <<counted, scrape>>,
           metrics'["crc_errors"] >= metrics["crc_errors"],
           metrics'["length_errors"] >= metrics["length_errors"],
           received'.generic >= received.generic
    PROVE  ScrapeSound'
  <1>1. /\ metrics["length_errors"] \in Nat /\ metrics'["length_errors"] \in Nat
        /\ received.generic \in Nat /\ received'.generic \in Nat
    BY DEF DataTypeOK, Receipts, Counters
  <1>2. /\ Len(scrape) \in Nat /\ Len(scrape) <= 3
        /\ Len(scrape) >= 1 => scrape[1] \in Nat
        /\ Len(scrape) >= 2 => scrape[2] \in Nat
        /\ Len(scrape) >= 3 => scrape[3] \in Nat
    BY DEF ScrapeSound, DataTypeOK
  <1>3. Len(scrape) = 1 => scrape[1] <= Causes'
    <2>1. metrics["crc_errors"] \in Nat /\ metrics'["crc_errors"] \in Nat
      BY DEF DataTypeOK, Counters
    <2>2. Causes <= Causes' /\ Causes \in Nat /\ Causes' \in Nat
      BY <1>1, <2>1 DEF Causes
    <2> QED  BY <1>2, <2>2 DEF ScrapeSound
  <1>4. Len(scrape) = 2 => scrape[1] <= scrape[2] + metrics'["length_errors"] + received'.generic
    <2>1. /\ metrics["length_errors"] + received.generic \in Nat
          /\ metrics'["length_errors"] + received'.generic \in Nat
          /\ metrics["length_errors"] + received.generic
               <= metrics'["length_errors"] + received'.generic
      BY <1>1
    <2> QED  BY <1>1, <1>2, <2>1 DEF ScrapeSound
  <1>5. Len(scrape) = 3 => scrape[1] <= scrape[2] + scrape[3] + received'.generic
    BY <1>1, <1>2 DEF ScrapeSound
  <1> QED  BY <1>2, <1>3, <1>4, <1>5 DEF ScrapeSound

LEMMA BeginReadKeeps ==
    ASSUME DataIInv, NEW w \in Workers, BeginRead(w)
    PROVE  OthersKept(w) /\ DataTypeOK' /\ WorkerSound(w)' /\ BalancesKept(w) /\ ScrapeSound'
  <1> USE DEF BeginRead, To
  <1>1. OthersKept(w)
    BY DEF OthersKept, DataTypeOK, vars
  <1>2. DataTypeOK'
    <2>1. received' \in Receipts
      BY Received DEF DataIInv, DataTypeOK
    <2>2. /\ stage' \in [Workers -> Stages]
          /\ \A v \in Workers : stage'[v] \notin {"loop", "read"} => result'[v] \in Results
      BY DEF DataIInv, DataTypeOK, Stages
    <2> QED  BY <2>1, <2>2 DEF DataIInv, DataTypeOK
  <1>3. WorkerSound(w)'
    BY DEF DataIInv, WorkerSound, DataTypeOK, vars
  <1>4. DueKept(w)
    <2>1. DataLeft(w) = 0 /\ ErrorsLeft(w) = 0 /\ DataLeft(w)' = 0 /\ ErrorsLeft(w)' = 0
      BY DEF DataLeft, ErrorsLeft, DataTypeOK
    <2> QED  BY <2>1 DEF DueKept, CountDue, EndDue, ExcessDue, OutcomeDue, If, DataTypeOK
  <1>5. BalancesKept(w)
    BY <1>4, SumsUntouched, NothingCounted DEF DataTypeOK, vars
  <1>6. ScrapeSound'
    BY DEF DataIInv, ScrapeSound, Causes, DataTypeOK
  <1> QED  BY <1>1, <1>2, <1>3, <1>5, <1>6

LEMMA ReadPendingKeeps ==
    ASSUME DataIInv, NEW w \in Workers, ReadPending(w)
    PROVE  /\ OthersKept(w) /\ DataTypeOK' /\ WorkerSound(w)'
           /\ FramesKept(w) /\ EndsKept(w) /\ CausesKept(w) /\ ScrapeSound'
           /\ pending[1].valid => GoodKept(w)
           /\ \A i \in DOMAIN pending' : i + 1 \in DOMAIN pending /\ pending'[i] = pending[i + 1]
  <1> USE ReadsAssumption DEF ReadPending, Returns, To
  <1>1. /\ Len(pending) \in Nat \ {0} /\ Len(pending') = Len(pending) - 1
        /\ pending[1] \in AllData /\ pending' \in Seq(AllData)
        /\ \A i \in DOMAIN pending' : i + 1 \in DOMAIN pending /\ pending'[i] = pending[i + 1]
    BY DEF DataIInv, DataTypeOK
  <1>2. /\ result'[w] = [data |-> pending[1], errors |-> NoErrors, report |-> FALSE]
        /\ result'[w] \in Results /\ result'[w].data # None
        /\ stage[w] = "read" /\ stage'[w] = "handle"
        /\ \A v \in Workers \ {w} : stage'[v] = stage[v] /\ result'[v] = result[v]
    BY <1>1 DEF DataIInv, DataTypeOK, Results, NoErrors, ErrorStats
  <1>3. OthersKept(w)
    BY <1>2 DEF OthersKept, vars
  <1>4. DataTypeOK'
    BY <1>1, <1>2 DEF DataIInv, DataTypeOK, Stages
  <1>5. WorkerSound(w)'
    BY <1>2 DEF DataIInv, WorkerSound, vars
  <1>6. /\ DataLeft(w) = 0 /\ ErrorsLeft(w) = 0 /\ DataLeft(w)' = 2 /\ ErrorsLeft(w)' = 0
    BY <1>2 DEF DataLeft, ErrorsLeft
  <1>7. /\ CountDue[w] = 0 /\ CountDue'[w] = 1 /\ ExcessDue[w] = 0 /\ ExcessDue'[w] = 0
        /\ EndDue[w] = 0 /\ EndDue'[w] = 1 /\ OutcomeDue[w] = 0
        /\ pending[1].valid => OutcomeDue'[w] = 1
    BY <1>1, <1>2, <1>6 DEF CountDue, ExcessDue, EndDue, OutcomeDue, If
  <1>8. SumsNat /\ MetricsNat /\ Outcomes \in Nat
    BY SumsTypes DEF DataIInv, TcpIInv
  <1>9. /\ FramesCounted' = FramesCounted - 1 /\ Ended' = Ended - 1
        /\ GoodCounted' = GoodCounted - 1
    <2>1. UNCHANGED <<metrics, Outcomes>>
      BY DEF Outcomes, vars
    <2>2. FramesCounted' = FramesCounted - 1
      BY <1>1, <1>8, <2>1 DEF FramesCounted, MetricsNat
    <2>3. Ended' = Ended - 1
      BY <1>1, <1>8, <2>1 DEF Ended, MetricsNat
    <2>4. GoodCounted' = GoodCounted - 1
      BY <1>1, <1>8, <2>1 DEF GoodCounted
    <2> QED  BY <2>2, <2>3, <2>4
  <1>10. UNCHANGED <<FramesReceived, EndsReceived, Invalid, Causes, GoodReceived>>
    BY DEF FramesReceived, EndsReceived, Invalid, Causes, GoodReceived, Total
  <1>11. FramesKept(w) /\ EndsKept(w) /\ CausesKept(w) /\ (pending[1].valid => GoodKept(w))
    <2>1. FramesKept(w)
      BY <1>7, <1>8, <1>9, <1>10 DEF FramesKept, SumsNat
    <2>2. EndsKept(w)
      BY <1>7, <1>8, <1>9, <1>10 DEF EndsKept, SumsNat
    <2>3. CausesKept(w)
      BY <1>7, <1>8, <1>10 DEF CausesKept, SumsNat
    <2>4. ASSUME pending[1].valid
          PROVE  GoodKept(w)
      <3>1. OutcomeDue[w] = 0 /\ OutcomeDue'[w] = 1
        BY <1>7, <2>4
      <3>2. GoodCounted \in Nat /\ GoodReceived \in Nat
        BY <1>8 DEF SumsNat
      <3> QED  BY <1>9, <1>10, <3>1, <3>2 DEF GoodKept
    <2> QED  BY <2>1, <2>2, <2>3, <2>4
  <1>12. ScrapeSound'
    BY <1>10 DEF DataIInv, ScrapeSound
  <1> QED  BY <1>1, <1>3, <1>4, <1>5, <1>11, <1>12

(* A read() that returns no frame.                                         *)
LEMMA ReadNothingKeeps ==
    ASSUME DataIInv, NEW w \in Workers, ReadNothing(w)
    PROVE  OthersKept(w) /\ DataTypeOK' /\ WorkerSound(w)' /\ BalancesKept(w) /\ ScrapeSound'
  <1> USE DataPathAssumption
  <1>1. PICK failed \in BOOLEAN :
           /\ Returns(w, None, NoErrors, failed \/ w = Modbus)
           /\ received' = IF failed \/ w = Modbus
                          THEN [received EXCEPT !.faults[w] = @ + 1] ELSE received
    BY DEF ReadNothing
  <1> DEFINE report == failed \/ w = Modbus
  <1>2. /\ result'[w] = [data |-> None, errors |-> NoErrors, report |-> report]
        /\ result'[w] \in Results
        /\ stage[w] = "read" /\ stage'[w] = "handle"
        /\ \A v \in Workers \ {w} : stage'[v] = stage[v] /\ result'[v] = result[v]
        /\ stage' \in [Workers -> Stages]
        /\ DOMAIN result' = Workers
    BY <1>1 DEF DataIInv, ReadNothing, Returns, To, DataTypeOK, Stages, Results, NoErrors,
       ErrorStats
  <1>3. UNCHANGED <<mutex, pc, message, counted, pending, todo, metrics, scrape>>
    BY DEF ReadNothing, vars
  <1>4. /\ received' \in Receipts
        /\ UNCHANGED <<received.frames, received.good, received.generic>>
        /\ report => /\ received'.faults[w] = received.faults[w] + 1
                     /\ \A v \in Workers \ {w} : received'.faults[v] = received.faults[v]
        /\ ~report => received' = received
    <2>1. received \in Receipts
      BY DEF DataIInv, DataTypeOK
    <2>2. CASE report
      BY <1>1, <2>1, <2>2, Received DEF Receipts
    <2>3. CASE ~report
      BY <1>1, <2>1, <2>3
    <2> QED  BY <2>2, <2>3
  <1>5. OthersKept(w)
    BY <1>2, <1>3 DEF OthersKept
  <1>6. DataTypeOK'
    BY <1>2, <1>3, <1>4 DEF DataIInv, DataTypeOK
  <1>7. WorkerSound(w)'
    BY <1>2, <1>3 DEF DataIInv, WorkerSound
  <1>8. /\ DataLeft(w) = 0 /\ ErrorsLeft(w) = 0
        /\ DataLeft(w)' = 0 /\ ErrorsLeft(w)' = IF report THEN 6 ELSE 0
    <2>1. DataLeft(w) = 0 /\ ErrorsLeft(w) = 0
      BY <1>2 DEF DataLeft, ErrorsLeft
    <2>2. result'[w].data = None /\ result'[w].report = report
      BY <1>2
    <2>3. DataLeft(w)' = 0
      BY <1>2, <2>2 DEF DataLeft
    <2>4. ErrorsLeft(w)' = IF report THEN 6 ELSE 0
      <3>1. CASE report
        BY <1>2, <2>2, <3>1 DEF ErrorsLeft
      <3>2. CASE ~report
        BY <1>2, <2>2, <3>2 DEF ErrorsLeft
      <3> QED  BY <3>1, <3>2
    <2> QED  BY <2>1, <2>3, <2>4
  <1>9. /\ CountDue[w] = 0 /\ CountDue'[w] = If(report /\ w # Uart, 1)
        /\ ExcessDue[w] = 0 /\ ExcessDue'[w] = 0
        /\ EndDue[w] = 0 /\ EndDue'[w] = If(report, 1) /\ OutcomeDue[w] = 0 /\ OutcomeDue'[w] = 0
    <2>1. invalid_frame_count(NoErrors) = 0 /\ ProtocolErrors(NoErrors) = 1
          /\ NoErrors.crc = 0 /\ NoErrors.length = 0
      BY DEF invalid_frame_count, ProtocolErrors, NoErrors
    <2>2. OutcomeDue[w] = 0 /\ OutcomeDue'[w] = 0
      BY <1>2 DEF OutcomeDue, If
    <2>3. CASE report
      <3>1. /\ DataLeft(w) = 0 /\ ErrorsLeft(w) = 0 /\ DataLeft(w)' = 0 /\ ErrorsLeft(w)' = 6
            /\ result'[w].errors = NoErrors
        BY <1>2, <1>8, <2>3
      <3>2. CountDue[w] = 0 /\ CountDue'[w] = If(report /\ w # Uart, 1)
        BY <1>2, <1>8, <2>1, <2>3, <3>1 DEF CountDue, If
      <3>3. ExcessDue[w] = 0 /\ ExcessDue'[w] = 0
        BY <2>1, <3>1 DEF ExcessDue, If
      <3>4. EndDue[w] = 0 /\ EndDue'[w] = If(report, 1)
        BY <2>1, <2>2, <2>3, <3>1 DEF EndDue, If
      <3> QED  BY <2>2, <3>2, <3>3, <3>4
    <2>4. CASE ~report
      BY <1>2, <1>8, <2>2, <2>4 DEF CountDue, ExcessDue, EndDue, If
    <2> QED  BY <2>2, <2>3, <2>4
  <1>10. SumsNat /\ ReceivedNat
    BY SumsTypes DEF DataIInv, TcpIInv
  <1>11. UNCHANGED <<FramesCounted, Ended, Invalid, Causes, GoodCounted, GoodReceived>>
    BY <1>3, <1>4 DEF FramesCounted, Ended, Invalid, Causes, GoodCounted, GoodReceived, Outcomes
  <1>12. /\ FramesReceived' = FramesReceived + If(report /\ w # Uart, 1)
         /\ EndsReceived' = EndsReceived + If(report, 1)
    <2>1. CASE report
      BY <1>4, <1>10, <2>1 DEF FramesReceived, EndsReceived, Total, If, ReceivedNat
    <2>2. CASE ~report
      BY <1>4, <1>10, <2>2 DEF FramesReceived, EndsReceived, If, SumsNat
    <2> QED  BY <2>1, <2>2
  <1>13. BalancesKept(w)
    <2>1. FramesKept(w)
      BY <1>9, <1>10, <1>11, <1>12 DEF FramesKept, SumsNat, If
    <2>2. EndsKept(w)
      BY <1>9, <1>10, <1>11, <1>12 DEF EndsKept, SumsNat, If
    <2>3. CausesKept(w) /\ GoodKept(w)
      BY <1>9, <1>11 DEF CausesKept, GoodKept
    <2> QED  BY <2>1, <2>2, <2>3 DEF BalancesKept
  <1>14. ScrapeSound'
    BY <1>3, <1>4, <1>11 DEF DataIInv, ScrapeSound
  <1> QED  BY <1>5, <1>6, <1>7, <1>13, <1>14

(* A read() that returns what it made of frames.  That good frames are in  *)
(* balance is up to the codecs.                                            *)
LEMMA ReadFramesKeeps ==
    ASSUME DataIInv, NEW w \in Workers, ReadFrames(w)
    PROVE  /\ OthersKept(w) /\ DataTypeOK' /\ WorkerSound(w)'
           /\ FramesKept(w) /\ EndsKept(w) /\ CausesKept(w) /\ ScrapeSound'
           /\ CodecSound => /\ GoodKept(w)
                            /\ (\A i \in DOMAIN pending : pending[i].valid)
                                => \A i \in DOMAIN pending' : pending'[i].valid
  <1> USE DataPathAssumption
  <1>1. PICK r \in Reads[w] :
           /\ Returns(w, IF r.data = <<>> THEN None ELSE Head(r.data), r.errors,
                      r.rejected \/ r.errors # NoErrors)
           /\ pending' = IF w = Uart /\ r.data # <<>> THEN Tail(r.data) ELSE pending
           /\ received' = [received EXCEPT !.frames = @ + r.frames, !.good = @ + r.good,
                                           !.generic = @ + r.errors.generic]
    BY DEF ReadFrames
  <1> DEFINE report == r.rejected \/ r.errors # NoErrors
             d == IF r.data = <<>> THEN None ELSE Head(r.data)
             n == Len(r.data)
             bad == r.errors.crc + r.errors.length + r.errors.generic
  <1>2. /\ r.data \in Seq(AllData) /\ r.errors \in ErrorStats /\ n \in Nat
        /\ r.frames \in Nat /\ r.good \in Nat /\ r.rejected \in BOOLEAN
    BY ReadsAssumption
  <1>3. /\ r.errors.crc \in Nat /\ r.errors.length \in Nat /\ r.errors.generic \in Nat
        /\ r.errors = NoErrors <=> bad = 0
    BY <1>2 DEF ErrorStats, NoErrors
  <1>4. /\ w = Uart => r.frames = n + bad /\ (r.rejected => r.errors # NoErrors)
        /\ w # Uart => r.frames = 1 /\ n <= 1 /\ r.errors = NoErrors /\ (r.rejected <=> n = 0)
    <2>1. w = Uart =>
             /\ r.frames = Len(r.data) + r.errors.crc + r.errors.length + r.errors.generic
             /\ r.rejected => r.errors # NoErrors
      BY ReadsAssumption
    <2>2. Len(r.data) + r.errors.crc + r.errors.length + r.errors.generic = n + bad
      BY <1>2, <1>3
    <2>3. w # Uart => /\ r.frames = 1 /\ Len(r.data) <= 1 /\ r.errors = NoErrors
                      /\ r.rejected <=> Len(r.data) = 0
      BY ReadsAssumption
    <2> QED  BY <2>1, <2>2, <2>3
  <1>5. /\ d # None <=> n > 0
        /\ n > 0 => d = r.data[1] /\ d \in AllData /\ d.valid \in BOOLEAN
        /\ d \in AllData \cup {None}
    BY <1>2, ReadsAssumption
  <1>6. /\ result'[w] = [data |-> d, errors |-> r.errors, report |-> report]
        /\ result'[w] \in Results
        /\ stage[w] = "read" /\ stage'[w] = "handle"
        /\ \A v \in Workers \ {w} : stage'[v] = stage[v] /\ result'[v] = result[v]
        /\ stage' \in [Workers -> Stages]
        /\ DOMAIN result' = Workers
    BY <1>1, <1>2, <1>5 DEF DataIInv, ReadFrames, Returns, To, DataTypeOK, Stages, Results
  <1>7. UNCHANGED <<mutex, pc, message, counted, todo, metrics, scrape>>
    BY DEF ReadFrames, vars
  <1>8. /\ pending' \in Seq(AllData)
        /\ w = Uart /\ n > 0 => /\ Len(pending') = n - 1 /\ Len(pending) = 0
                               /\ \A i \in DOMAIN pending' : i + 1 \in DOMAIN r.data
                                                            /\ pending'[i] = r.data[i + 1]
        /\ w # Uart \/ n = 0 => pending' = pending
    <2>1. pending \in Seq(AllData) /\ (w = Uart => pending = <<>>)
      BY DEF DataIInv, DataTypeOK, ReadFrames
    <2>2. n = 0 <=> r.data = <<>>
      BY <1>2
    <2>3. CASE w = Uart /\ n > 0
      BY <1>1, <1>2, <2>1, <2>2, <2>3
    <2>4. CASE w # Uart \/ n = 0
      BY <1>1, <1>2, <2>1, <2>2, <2>4
    <2> QED  BY <1>2, <2>3, <2>4
  <1>9. /\ received' \in Receipts
        /\ received'.frames = received.frames + r.frames
        /\ received'.good = received.good + r.good
        /\ received'.generic = received.generic + r.errors.generic
        /\ received'.faults = received.faults
    <2>1. received \in Receipts
      BY DEF DataIInv, DataTypeOK
    <2>2. received' \in Receipts
      BY <1>1, <1>2, <1>3, <2>1, Received
    <2>3. /\ received'.frames = received.frames + r.frames
          /\ received'.good = received.good + r.good
          /\ received'.generic = received.generic + r.errors.generic
          /\ received'.faults = received.faults
      BY <1>1, <2>1 DEF Receipts
    <2> QED  BY <2>2, <2>3
  <1>10. OthersKept(w)
    BY <1>6, <1>7 DEF OthersKept
  <1>11. DataTypeOK'
    BY <1>6, <1>7, <1>8, <1>9 DEF DataIInv, DataTypeOK
  <1>12. result'[w].data = d /\ result'[w].errors = r.errors /\ result'[w].report = report
    BY <1>6
  <1>13. report \in BOOLEAN /\ (~report => bad = 0) /\ (w = Uart => (report <=> bad > 0))
         /\ (w # Uart => (report <=> n = 0) /\ bad = 0)
    <2>1. bad \in Nat
      BY <1>3
    <2> HIDE DEF bad, n
    <2> QED  BY <1>2, <1>3, <1>4, <2>1
  <1> HIDE DEF report, d, n, bad
  <1>14. WorkerSound(w)'
    <2>1. todo'[w] = <<>> /\ pc'[w] = "idle"
      BY <1>6, <1>7 DEF DataIInv, WorkerSound
    <2>2. ~result'[w].report => result'[w].errors = NoErrors
      BY <1>12 DEF report
    <2>3. w # Uart => /\ result'[w].errors = NoErrors
                      /\ result'[w].report => result'[w].data = None
      BY <1>2, <1>4, <1>5, <1>12, <1>13
    <2> QED  BY <1>6, <2>1, <2>2, <2>3 DEF WorkerSound
  <1>15. DataLeft(w) = 0 /\ ErrorsLeft(w) = 0
    BY <1>6 DEF DataLeft, ErrorsLeft
  <1>16. DataLeft(w)' = If(n > 0, 2)
    BY <1>5, <1>6, <1>12 DEF DataLeft, If
  <1>17. ErrorsLeft(w)' = If(report, 6)
    <2>1. CASE report
      BY <1>6, <1>12, <2>1 DEF ErrorsLeft, If
    <2>2. CASE ~report
      BY <1>6, <1>12, <2>2 DEF ErrorsLeft, If
    <2> QED  BY <2>1, <2>2
  <1>18. CountDue[w] = 0 /\ ExcessDue[w] = 0 /\ EndDue[w] = 0 /\ OutcomeDue[w] = 0
    BY <1>6, <1>15 DEF CountDue, ExcessDue, EndDue, OutcomeDue, If
  <1>19. OutcomeDue'[w] = If(n > 0 /\ d.valid, 1)
    BY <1>5, <1>6, <1>12 DEF OutcomeDue, If
  <1>20. /\ invalid_frame_count(r.errors) = bad
         /\ ProtocolErrors(r.errors) = IF bad = 0 THEN 1 ELSE bad
    BY <1>2, <1>3 DEF invalid_frame_count, ProtocolErrors, bad
  <1>21. bad \in Nat /\ n \in Nat /\ bad - r.errors.crc - r.errors.length = r.errors.generic
         /\ (bad = 0 => r.errors.generic = 0)
    BY <1>2, <1>3 DEF bad
  <1>22. ExcessDue'[w] = r.errors.generic
    <2>1. CASE report
      BY <1>12, <1>17, <1>20, <1>21, <2>1 DEF ExcessDue, If
    <2>2. CASE ~report
      BY <1>13, <1>17, <1>21, <2>2 DEF ExcessDue, If
    <2> QED  BY <2>1, <2>2
  <1>23. EndDue'[w] = If(n > 0, 1) + If(report, IF bad = 0 THEN 1 ELSE bad)
    <2>1. If(DataLeft(w)' >= 1 /\ ~result'[w].data.valid, 1) + OutcomeDue'[w] = If(n > 0, 1)
      BY <1>5, <1>12, <1>16, <1>19 DEF If
    <2>2. If(ErrorsLeft(w)' >= 3, ProtocolErrors(result'[w].errors))
            = If(report, IF bad = 0 THEN 1 ELSE bad)
      <3>1. CASE report
        BY <1>12, <1>17, <1>20, <3>1 DEF If
      <3>2. CASE ~report
        BY <1>17, <3>2 DEF If
      <3> QED  BY <3>1, <3>2
    <2>3. EndDue'[w] = If(DataLeft(w)' >= 1 /\ ~result'[w].data.valid, 1)
                         + If(ErrorsLeft(w)' >= 3, ProtocolErrors(result'[w].errors)) + OutcomeDue'[w]
      BY DEF EndDue
    <2>4. /\ OutcomeDue'[w] \in Nat
          /\ If(DataLeft(w)' >= 1 /\ ~result'[w].data.valid, 1) \in Nat
          /\ If(ErrorsLeft(w)' >= 3, ProtocolErrors(result'[w].errors)) \in Nat
      BY <1>19, <1>21, <2>2 DEF If
    <2> HIDE DEF If
    <2> QED  BY <2>1, <2>2, <2>3, <2>4
  <1>24. CountDue'[w] = If(n > 0, 1) + bad + If(report /\ w # Uart, 1)
    <2>1. CASE report
      BY <1>12, <1>13, <1>16, <1>17, <1>20, <1>21, <2>1 DEF CountDue, If
    <2>2. CASE ~report
      BY <1>13, <1>16, <1>17, <2>2 DEF CountDue, If
    <2> QED  BY <2>1, <2>2
  <1> DEFINE more == If(w = Uart /\ n > 0, n - 1)
  <1>25. more \in Nat /\ more + CountDue'[w] = r.frames /\ more + EndDue'[w] = r.frames
         /\ CountDue'[w] \in Nat /\ EndDue'[w] \in Nat
    <2>1. CASE w = Uart
      <3>1. r.frames = n + bad /\ n \in Nat /\ bad \in Nat
        BY <1>4, <1>21, <2>1
      <3>2. CountDue'[w] = If(n > 0, 1) + bad /\ EndDue'[w] = If(n > 0, 1) + bad
        BY <1>13, <1>21, <1>23, <1>24, <2>1 DEF If
      <3>3. CASE n > 0
        BY <2>1, <3>1, <3>2, <3>3 DEF If
      <3>4. CASE n = 0
        BY <2>1, <3>1, <3>2, <3>4 DEF If
      <3> QED  BY <3>1, <3>3, <3>4
    <2>2. CASE w # Uart
      BY <1>4, <1>13, <1>21, <1>23, <1>24, <2>2 DEF If
    <2> QED  BY <2>1, <2>2
  <1>26. Len(pending') = Len(pending) + more
    <2>1. Len(pending) \in Nat /\ n \in Nat
      BY <1>21 DEF DataTypeOK
    <2>2. CASE w = Uart /\ n > 0
      BY <1>8, <2>1, <2>2 DEF If
    <2>3. CASE ~(w = Uart /\ n > 0)
      BY <1>8, <2>1, <2>3 DEF If
    <2> QED  BY <2>2, <2>3
  <1>27. ASSUME CodecSound
         PROVE  /\ more + OutcomeDue'[w] = r.good /\ OutcomeDue'[w] \in Nat
                /\ w = Uart => \A i \in DOMAIN r.data : r.data[i].valid
    <2>1. CASE w = Uart
      <3>1. r.good = n /\ \A i \in DOMAIN r.data : r.data[i].valid
        BY <1>27, <2>1 DEF CodecSound, n
      <3>2. n > 0 => 1 \in DOMAIN r.data
        BY <1>2 DEF n
      <3> QED  BY <1>5, <1>19, <1>21, <2>1, <3>1, <3>2 DEF If
    <2>2. CASE w # Uart
      <3>1. r.good = If(n = 1 /\ r.data[1].valid, 1)
        BY <1>27, <2>2 DEF CodecSound, n
      <3>2. n > 0 <=> n = 1
        BY <1>4, <1>21, <2>2
      <3> QED  BY <1>5, <1>19, <1>21, <2>2, <3>1, <3>2 DEF If
    <2> QED  BY <2>1, <2>2
  <1> HIDE DEF more
  <1>28. SumsNat /\ MetricsNat /\ ReceivedNat /\ Outcomes \in Nat /\ Len(pending) \in Nat
    BY SumsTypes DEF DataIInv, TcpIInv
  <1>29. UNCHANGED <<Outcomes, Invalid>>
    BY <1>7 DEF Outcomes, Invalid
  <1>30. FramesCounted' = FramesCounted + more
    BY <1>7, <1>25, <1>26, <1>28 DEF FramesCounted, MetricsNat
  <1>31. Ended' = Ended + more
    BY <1>7, <1>25, <1>26, <1>28, <1>29 DEF Ended, MetricsNat
  <1>32. GoodCounted' = GoodCounted + more
    BY <1>25, <1>26, <1>28, <1>29 DEF GoodCounted
  <1>33. /\ FramesReceived' = FramesReceived + r.frames
         /\ EndsReceived' = EndsReceived + r.frames
    <2>1. /\ received'.frames = received.frames + r.frames /\ received'.faults = received.faults
          /\ received.frames \in Nat /\ r.frames \in Nat
          /\ received.faults[Uart] \in Nat /\ received.faults[Modbus] \in Nat
          /\ received.faults[Can] \in Nat
      BY <1>2, <1>9, <1>28 DEF ReceivedNat
    <2>2. FramesReceived' = FramesReceived + r.frames
      BY <2>1 DEF FramesReceived
    <2>3. EndsReceived' = EndsReceived + r.frames
      BY <2>1 DEF EndsReceived, Total
    <2> QED  BY <2>2, <2>3
  <1>34. Causes' = Causes + r.errors.generic
    <2>1. /\ received'.generic = received.generic + r.errors.generic /\ metrics' = metrics
          /\ received.generic \in Nat /\ r.errors.generic \in Nat
          /\ metrics["crc_errors"] \in Nat /\ metrics["length_errors"] \in Nat
      BY <1>3, <1>7, <1>9, <1>28 DEF MetricsNat, ReceivedNat
    <2> QED  BY <2>1 DEF Causes
  <1>35. FramesKept(w)
    BY <1>18, <1>25, <1>28, <1>30, <1>33 DEF FramesKept, SumsNat
  <1>36. EndsKept(w)
    <2>1. Ended \in Nat /\ EndsReceived \in Nat
      BY <1>28 DEF SumsNat
    <2> QED  BY <1>18, <1>25, <1>31, <1>33, <2>1 DEF EndsKept
  <1>37. CausesKept(w)
    BY <1>3, <1>18, <1>22, <1>28, <1>29, <1>34 DEF CausesKept, SumsNat
  <1>38. ASSUME CodecSound
         PROVE  /\ GoodKept(w)
                /\ (\A i \in DOMAIN pending : pending[i].valid)
                     => \A i \in DOMAIN pending' : pending'[i].valid
    <2>1. GoodReceived' = GoodReceived + r.good
      BY <1>9 DEF GoodReceived
    <2>2. GoodKept(w)
      BY <1>18, <1>25, <1>27, <1>28, <1>32, <1>38, <2>1 DEF GoodKept, SumsNat
    <2>3. w = Uart /\ n > 0 => \A i \in DOMAIN pending' : pending'[i].valid
      BY <1>8, <1>27, <1>38
    <2>4. w # Uart \/ n = 0 => pending' = pending
      BY <1>8
    <2> QED  BY <1>21, <2>2, <2>3, <2>4
  <1>39. ScrapeSound'
    <2>1. received'.generic >= received.generic
      BY <1>3, <1>9, <1>28 DEF ReceivedNat
    <2>2. /\ metrics'["crc_errors"] >= metrics["crc_errors"]
          /\ metrics'["length_errors"] >= metrics["length_errors"]
      BY <1>7, <1>28 DEF MetricsNat
    <2> QED  BY <1>7, <1>11, <2>1, <2>2, ScrapeBehind DEF DataIInv, TcpIInv
  <1> QED  BY <1>10, <1>11, <1>14, <1>35, <1>36, <1>37, <1>38, <1>39

(* The lists of additions.                                                 *)
LEMMA TwoAdditions ==
    ASSUME NEW S, NEW a \in S, NEW b \in S
    PROVE  Len(<<a, b>>) = 2 /\ <<a, b>> \in Seq(S)
  OBVIOUS

LEMMA SixAdditions ==
    ASSUME NEW S, NEW a \in S, NEW b \in S, NEW c \in S, NEW d \in S, NEW e \in S, NEW f \in S
    PROVE  Len(<<a, b, c, d, e, f>>) = 6 /\ <<a, b, c, d, e, f>> \in Seq(S)
  OBVIOUS

LEMMA AllRemain ==
    ASSUME NEW s, Len(s) \in Nat
    PROVE  Remaining(s, s)
  BY DEF Remaining

(* How many additions on_data() and on_protocol_error() make.              *)
LEMMA DataAdditionsLength ==
    ASSUME NEW d
    PROVE  Len(DataAdditions(d)) = 2 /\ Len(DataAdditions(d)) \in Nat
  BY DEF DataAdditions

LEMMA ErrorAdditionsLength ==
    ASSUME NEW w, NEW e
    PROVE  Len(ErrorAdditions(w, e)) = 6 /\ Len(ErrorAdditions(w, e)) \in Nat
  BY DEF ErrorAdditions

(* The handlers are called, with their additions still to make.            *)
LEMMA HandleDataKeeps ==
    ASSUME DataIInv, NEW w \in Workers, HandleData(w)
    PROVE  OthersKept(w) /\ DataTypeOK' /\ WorkerSound(w)' /\ BalancesKept(w) /\ ScrapeSound'
  <1>1. /\ stage[w] = "handle" /\ stage'[w] = "data" /\ result[w].data # None
        /\ todo'[w] = DataAdditions(result[w].data)
        /\ \A v \in Workers \ {w} : stage'[v] = stage[v] /\ todo'[v] = todo[v]
        /\ stage' \in [Workers -> Stages] /\ result[w] \in Results
        /\ UNCHANGED <<pc, message, counted, result, pending, metrics, scrape, received>>
    BY DEF DataIInv, HandleData, To, DataTypeOK, Stages, vars
  <1>2. Len(todo'[w]) = 2 /\ todo'[w] \in Seq(Counters \X Nat)
    <2> DEFINE wrong == IF result[w].data.valid THEN 0 ELSE 1
    <2>1. <<"frames_parsed", 1>> \in Counters \X Nat /\ <<"protocol_error", wrong>> \in Counters \X Nat
      BY DEF Counters
    <2>2. todo'[w] = <<<<"frames_parsed", 1>>, <<"protocol_error", wrong>>>>
      BY <1>1 DEF DataAdditions
    <2> HIDE DEF wrong
    <2> QED  BY <2>1, <2>2, TwoAdditions
  <1>3. OthersKept(w)
    BY <1>1 DEF OthersKept
  <1>4. DataTypeOK'
    <2>1. todo' \in [Workers -> Seq(Counters \X Nat)]
      BY <1>2 DEF DataIInv, HandleData, DataTypeOK
    <2> QED  BY <1>1, <2>1 DEF DataIInv, DataTypeOK
  <1>5. WorkerSound(w)'
    <2>1. DataAdditions(result'[w].data) = todo'[w]
      BY <1>1
    <2>2. Remaining(DataAdditions(result'[w].data), DataAdditions(result'[w].data))
      BY DataAdditionsLength, AllRemain
    <2>3. Remaining(todo'[w], DataAdditions(result'[w].data))
      BY <2>1, <2>2
    <2> QED  BY <1>1, <2>3 DEF DataIInv, WorkerSound
  <1>6. DueKept(w)
    <2>1. DataLeft(w)' = DataLeft(w)
      BY <1>1, <1>2 DEF DataLeft
    <2>2. ErrorsLeft(w)' = ErrorsLeft(w)
      BY <1>1 DEF ErrorsLeft
    <2>3. OutcomeDue'[w] = OutcomeDue[w]
      BY <1>1 DEF OutcomeDue
    <2> QED  BY <1>1, <2>1, <2>2, <2>3 DEF DueKept, CountDue, EndDue, ExcessDue
  <1>7. BalancesKept(w)
    BY <1>1, <1>6, SumsUntouched, NothingCounted
  <1>8. ScrapeSound'
    BY <1>1 DEF DataIInv, ScrapeSound, Causes
  <1> QED  BY <1>3, <1>4, <1>5, <1>7, <1>8

LEMMA HandleErrorKeeps ==
    ASSUME DataIInv, NEW w \in Workers, HandleError(w)
    PROVE  OthersKept(w) /\ DataTypeOK' /\ WorkerSound(w)' /\ BalancesKept(w) /\ ScrapeSound'
  <1>1. /\ stage[w] \in {"handle", "handled"} /\ (stage[w] = "handle" => result[w].data = None)
        /\ stage'[w] = "errors" /\ result[w].report
        /\ todo'[w] = ErrorAdditions(w, result[w].errors)
        /\ \A v \in Workers \ {w} : stage'[v] = stage[v] /\ todo'[v] = todo[v]
        /\ stage' \in [Workers -> Stages] /\ result[w] \in Results
        /\ UNCHANGED <<pc, message, counted, result, pending, metrics, scrape, received>>
    BY DEF DataIInv, HandleError, To, DataTypeOK, Stages, vars
  <1>2. Len(todo'[w]) = 6 /\ todo'[w] \in Seq(Counters \X Nat)
    <2>1. result[w].errors \in ErrorStats
      BY <1>1 DEF Results
    <2>2. /\ result[w].errors.crc \in Nat /\ result[w].errors.length \in Nat
          /\ invalid_frame_count(result[w].errors) \in Nat
      BY <2>1 DEF ErrorStats, invalid_frame_count
    <2>3. ProtocolErrors(result[w].errors) \in Nat
      BY <2>2 DEF ProtocolErrors
    <2> DEFINE e == result[w].errors
               S == Counters \X Nat
               modbus == IF w = Modbus THEN ProtocolErrors(e) ELSE 0
               can == IF w = Can THEN ProtocolErrors(e) ELSE 0
    <2>4. /\ <<"crc_errors", e.crc>> \in S /\ <<"length_errors", e.length>> \in S
          /\ <<"frames_invalid", invalid_frame_count(e)>> \in S
          /\ <<"protocol_error", ProtocolErrors(e)>> \in S
      BY <2>2, <2>3 DEF Counters
    <2>5. <<"modbus_error", modbus>> \in S /\ <<"can_error", can>> \in S
      BY <2>3 DEF Counters
    <2>6. todo'[w] = <<<<"crc_errors", e.crc>>, <<"length_errors", e.length>>,
                       <<"frames_invalid", invalid_frame_count(e)>>,
                       <<"protocol_error", ProtocolErrors(e)>>,
                       <<"modbus_error", modbus>>, <<"can_error", can>>>>
      BY <1>1 DEF ErrorAdditions
    <2> HIDE DEF e, S, modbus, can
    <2>7. Len(todo'[w]) = 6 /\ todo'[w] \in Seq(S)
      BY <2>4, <2>5, <2>6, SixAdditions
    <2> QED  BY <2>7 DEF S
  <1>3. OthersKept(w)
    BY <1>1 DEF OthersKept
  <1>4. DataTypeOK'
    <2>1. todo' \in [Workers -> Seq(Counters \X Nat)]
      BY <1>2 DEF DataIInv, HandleError, DataTypeOK
    <2> QED  BY <1>1, <2>1 DEF DataIInv, DataTypeOK
  <1>5. WorkerSound(w)'
    <2>1. ErrorAdditions(w, result'[w].errors) = todo'[w]
      BY <1>1
    <2>2. Remaining(ErrorAdditions(w, result'[w].errors), ErrorAdditions(w, result'[w].errors))
      BY ErrorAdditionsLength, AllRemain
    <2>3. Remaining(todo'[w], ErrorAdditions(w, result'[w].errors))
      BY <2>1, <2>2
    <2> QED  BY <1>1, <2>3 DEF DataIInv, WorkerSound
  <1>6. DueKept(w)
    <2>1. DataLeft(w)' = 0 /\ DataLeft(w) = 0
      BY <1>1 DEF DataLeft
    <2>2. ErrorsLeft(w)' = 6 /\ ErrorsLeft(w) = 6
      BY <1>1, <1>2 DEF ErrorsLeft
    <2>3. OutcomeDue'[w] = 0 /\ OutcomeDue[w] = 0
      BY <1>1 DEF OutcomeDue, If
    <2>4. result' = result
      BY <1>1
    <2>5. CountDue'[w] = CountDue[w]
      BY <2>1, <2>2, <2>4 DEF CountDue
    <2>6. EndDue'[w] = EndDue[w]
      BY <2>1, <2>2, <2>3, <2>4 DEF EndDue
    <2>7. ExcessDue'[w] = ExcessDue[w]
      BY <2>2, <2>4 DEF ExcessDue
    <2> QED  BY <2>3, <2>5, <2>6, <2>7 DEF DueKept
  <1>7. BalancesKept(w)
    BY <1>1, <1>6, SumsUntouched, NothingCounted
  <1>8. ScrapeSound'
    BY <1>1 DEF DataIInv, ScrapeSound, Causes
  <1> QED  BY <1>3, <1>4, <1>5, <1>7, <1>8

LEMMA EndIterationKeeps ==
    ASSUME DataIInv, NEW w \in Workers, EndIteration(w)
    PROVE  OthersKept(w) /\ DataTypeOK' /\ WorkerSound(w)' /\ BalancesKept(w) /\ ScrapeSound'
  <1>1. /\ stage[w] \in {"handle", "handled", "errors"} /\ stage'[w] = "loop"
        /\ stage[w] = "handle" => result[w].data = None
        /\ stage[w] # "errors" => ~result[w].report
        /\ todo[w] = <<>> /\ pc[w] = "idle"
        /\ \A v \in Workers \ {w} : stage'[v] = stage[v] /\ result'[v] = result[v]
        /\ stage' \in [Workers -> Stages] /\ DOMAIN result' = Workers
        /\ UNCHANGED <<pc, message, counted, todo, pending, metrics, scrape, received>>
    BY DEF DataIInv, EndIteration, To, DataTypeOK, Stages, vars, WorkerSound
  <1>2. OthersKept(w)
    BY <1>1 DEF OthersKept
  <1>3. DataTypeOK'
    BY <1>1 DEF DataIInv, DataTypeOK
  <1>4. WorkerSound(w)'
    BY <1>1 DEF WorkerSound
  <1>5. DueKept(w)
    <2>1. DataLeft(w)' = 0 /\ DataLeft(w) = 0
      BY <1>1 DEF DataLeft
    <2>2. ErrorsLeft(w)' = 0 /\ ErrorsLeft(w) = 0
      BY <1>1 DEF ErrorsLeft
    <2>3. OutcomeDue'[w] = 0 /\ OutcomeDue[w] = 0
      BY <1>1 DEF OutcomeDue, If
    <2> QED  BY <2>1, <2>2, <2>3 DEF DueKept, CountDue, EndDue, ExcessDue, If
  <1>6. BalancesKept(w)
    BY <1>1, <1>5, SumsUntouched, NothingCounted
  <1>7. ScrapeSound'
    BY <1>1 DEF DataIInv, ScrapeSound, Causes
  <1> QED  BY <1>2, <1>3, <1>4, <1>6, <1>7

LEMMA PublishKeeps ==
    ASSUME DataIInv, NEW w \in Workers, publish_sensor_data(w)
    PROVE  OthersKept(w) /\ DataTypeOK' /\ WorkerSound(w)' /\ BalancesKept(w) /\ ScrapeSound'
  <1>1. /\ stage[w] = "data" /\ todo[w] = <<>>
        /\ stage'[w] = IF result[w].data.valid THEN "publish" ELSE "handled"
        /\ \A v \in Workers \ {w} : stage'[v] = stage[v]
        /\ stage' \in [Workers -> Stages] /\ result[w] \in Results /\ result[w].data # None
        /\ UNCHANGED <<result, todo, pending, metrics, scrape, received>>
    <2>1. stage \in [Workers -> Stages] /\ (stage[w] = "data" => result[w] \in Results)
      BY DEF DataIInv, DataTypeOK
    <2>2. stage[w] = "data" => result[w].data # None
      BY DEF DataIInv, WorkerSound
    <2>3. /\ stage[w] = "data" /\ todo[w] = <<>>
          /\ stage' = [stage EXCEPT ![w] = IF result[w].data.valid THEN "publish" ELSE "handled"]
          /\ UNCHANGED <<result, todo, pending, metrics, scrape, received>>
      BY DEF publish_sensor_data, To
    <2>4. "publish" \in Stages /\ "handled" \in Stages
      BY DEF Stages
    <2>5. /\ stage'[w] = IF result[w].data.valid THEN "publish" ELSE "handled"
          /\ \A v \in Workers \ {w} : stage'[v] = stage[v]
          /\ stage' \in [Workers -> Stages]
      BY <2>1, <2>3, <2>4
    <2> QED  BY <2>1, <2>2, <2>3, <2>5
  <1>2. /\ UNCHANGED counted
        /\ \A v \in Workers \ {w} : pc'[v] = pc[v]
        /\ result[w].data.valid => pc'[w] = "mqtt"
        /\ ~result[w].data.valid => pc'[w] = "idle"
    <2>1. pc \in [Workers -> {"idle", "mqtt", "tcp", "connect", "send", "record"}]
      BY DEF DataIInv, TcpIInv, TypeOK
    <2>2. pc[w] = "idle"
      BY <1>1 DEF DataIInv, WorkerSound
    <2>3. CASE result[w].data.valid
      <3>1. PICK k \in Messages : publish(w, k)
        BY <2>3 DEF publish_sensor_data
      <3> QED  BY <2>1, <2>3, <3>1 DEF publish, Goto
    <2>4. CASE ~result[w].data.valid
      BY <2>2, <2>4 DEF publish_sensor_data, vars
    <2> QED  BY <2>3, <2>4
  <1>3. OthersKept(w)
    BY <1>1, <1>2 DEF OthersKept
  <1>4. DataTypeOK'
    BY <1>1 DEF DataIInv, DataTypeOK
  <1>5. WorkerSound(w)'
    BY <1>1, <1>2 DEF DataIInv, WorkerSound
  <1>6. DueKept(w)
    <2>1. DataLeft(w)' = 0 /\ DataLeft(w) = 0
      BY <1>1 DEF DataLeft
    <2>2. ErrorsLeft(w)' = ErrorsLeft(w)
      BY <1>1 DEF ErrorsLeft
    <2>3. OutcomeDue'[w] = OutcomeDue[w]
      BY <1>1 DEF OutcomeDue, If
    <2> QED  BY <1>1, <2>1, <2>2, <2>3 DEF DueKept, CountDue, EndDue, ExcessDue, If
  <1>7. BalancesKept(w)
    BY <1>1, <1>2, <1>6, SumsUntouched, NothingCounted
  <1>8. ScrapeSound'
    BY <1>1 DEF DataIInv, ScrapeSound, Causes
  <1> QED  BY <1>3, <1>4, <1>5, <1>7, <1>8

LEMMA PublishingKeeps ==
    ASSUME DataIInv, NEW w \in Workers, Publishing(w)
    PROVE  OthersKept(w) /\ DataTypeOK' /\ WorkerSound(w)' /\ BalancesKept(w) /\ ScrapeSound'
  <1>1. /\ stage[w] = "publish" /\ result[w].data # None /\ result[w].data.valid
        /\ result[w] \in Results /\ todo[w] = <<>>
        /\ UNCHANGED <<result, todo, pending, metrics, scrape, received>>
    BY DEF DataIInv, Publishing, WorkerSound, DataTypeOK
  <1>2. pc \in [Workers -> {"idle", "mqtt", "tcp", "connect", "send", "record"}]
    BY DEF DataIInv, TcpIInv, TypeOK
  <1>3. CASE /\ MqttDone(w) \/ Lock(w) \/ Connect(w) \/ ConnectFails(w) \/ Send(w)
                   \/ SendFails(w) \/ SendDone(w)
             /\ UNCHANGED stage
    <2>1. /\ UNCHANGED counted /\ pc'[w] # "idle"
          /\ \A v \in Workers \ {w} : pc'[v] = pc[v]
      BY <1>2, <1>3 DEF MqttDone, Lock, Connect, ConnectFails, Send, SendFails, SendDone,
         Return, Goto
    <2>2. OthersKept(w)
      BY <1>1, <1>3, <2>1 DEF OthersKept
    <2>3. DataTypeOK'
      BY <1>1, <1>3 DEF DataIInv, DataTypeOK
    <2>4. WorkerSound(w)'
      BY <1>1, <1>3, <2>1 DEF DataIInv, WorkerSound
    <2>5. DueKept(w)
      BY <1>1, <1>3 DEF DueKept, CountDue, EndDue, ExcessDue, OutcomeDue, DataLeft, ErrorsLeft
    <2>6. BalancesKept(w)
      BY <1>1, <2>1, <2>5, SumsUntouched, NothingCounted
    <2>7. ScrapeSound'
      BY <1>1 DEF DataIInv, ScrapeSound, Causes
    <2> QED  BY <2>2, <2>3, <2>4, <2>6, <2>7
  <1>4. CASE Record(w) /\ To(w, "handled")
    <2>1. outcome[message[w]] \in {"Published", "Failed"}
      BY <1>4, RecordKeeps DEF DataIInv
    <2>2. Outcomes' = Outcomes + 1
      BY <1>4, <2>1 DEF DataIInv, Record, Outcomes, TcpIInv, TypeOK
    <2>3. /\ stage'[w] = "handled" /\ stage' \in [Workers -> Stages] /\ pc'[w] = "idle"
          /\ \A v \in Workers \ {w} : pc'[v] = pc[v] /\ stage'[v] = stage[v]
      BY <1>2, <1>4 DEF DataIInv, Record, Goto, To, DataTypeOK, Stages
    <2>4. OthersKept(w)
      BY <1>1, <2>3 DEF OthersKept
    <2>5. DataTypeOK'
      BY <1>1, <2>3 DEF DataIInv, DataTypeOK
    <2>6. WorkerSound(w)'
      BY <1>1, <2>3 DEF DataIInv, WorkerSound
    <2>7. /\ DataLeft(w)' = 0 /\ DataLeft(w) = 0 /\ ErrorsLeft(w)' = ErrorsLeft(w)
          /\ OutcomeDue[w] = 1 /\ OutcomeDue'[w] = 0
      BY <1>1, <2>3 DEF DataLeft, ErrorsLeft, OutcomeDue, If
    <2>8. CountDue'[w] = CountDue[w] /\ ExcessDue'[w] = ExcessDue[w]
      <3>1. result' = result
        BY <1>1
      <3>2. CountDue'[w] = CountDue[w]
        BY <2>7, <3>1 DEF CountDue
      <3>3. ExcessDue'[w] = ExcessDue[w]
        BY <2>7, <3>1 DEF ExcessDue
      <3> QED  BY <3>2, <3>3
    <2>9. SumsNat /\ MetricsNat /\ Outcomes \in Nat /\ Len(pending) \in Nat /\ DueNat
      BY SumsTypes, DueTypes DEF DataIInv, TcpIInv
    <2>10. EndDue[w] = EndDue'[w] + 1 /\ EndDue'[w] \in Nat
      <3> DEFINE errors == If(ErrorsLeft(w) >= 3, ProtocolErrors(result[w].errors))
      <3>1. EndDue[w] = 0 + errors + 1 /\ EndDue'[w] = 0 + errors + 0
        BY <1>1, <2>7 DEF EndDue, If
      <3>2. errors \in Nat
        <4>1. result[w].errors \in ErrorStats
          BY <1>1 DEF Results
        <4>2. invalid_frame_count(result[w].errors) \in Nat
          BY <4>1 DEF ErrorStats, invalid_frame_count
        <4> QED  BY <4>2 DEF ProtocolErrors, If
      <3> HIDE DEF errors
      <3> QED  BY <3>1, <3>2
    <2>11. UNCHANGED <<FramesCounted, FramesReceived, EndsReceived, Invalid, Causes, GoodReceived>>
      BY <1>1 DEF FramesCounted, FramesReceived, EndsReceived, Invalid, Causes, GoodReceived, Total
    <2>12. Ended' = Ended + 1 /\ GoodCounted' = GoodCounted + 1
      <3>1. /\ metrics["protocol_error"] \in Nat /\ Outcomes \in Nat /\ Len(pending) \in Nat
            /\ metrics' = metrics /\ pending' = pending
        BY <1>1, <2>9 DEF MetricsNat
      <3> QED  BY <2>2, <3>1 DEF Ended, GoodCounted
    <2>13. FramesKept(w) /\ CausesKept(w)
      BY <2>8, <2>11 DEF FramesKept, CausesKept
    <2>14. EndsKept(w)
      <3>1. Ended \in Nat /\ EndsReceived \in Nat
        BY <2>9 DEF SumsNat
      <3>2. EndsReceived' = EndsReceived
        BY <2>11
      <3> QED  BY <2>10, <2>12, <3>1, <3>2 DEF EndsKept
    <2>15. GoodKept(w)
      BY <2>7, <2>9, <2>11, <2>12 DEF GoodKept, SumsNat
    <2>16. ScrapeSound'
      BY <1>1, <2>11 DEF DataIInv, ScrapeSound
    <2> QED  BY <2>4, <2>5, <2>6, <2>13, <2>14, <2>15, <2>16 DEF BalancesKept
  <1> QED  BY <1>3, <1>4 DEF Publishing

(* One addition moves its amount from what is due to what is counted.      *)
Counting == {"frames_parsed", "frames_invalid", "modbus_error", "can_error"}

Causing == {"crc_errors", "length_errors"}

LEMMA Added ==
    ASSUME TypeOK, DataTypeOK, NEW w \in Workers, Add(w),
           NEW c \in Counters, NEW a \in Nat, Head(todo[w]) = <<c, a>>
    PROVE  /\ \A k \in Counters : metrics'[k] = metrics[k] + If(k = c, a)
           /\ FramesCounted' = FramesCounted + If(c \in Counting, a)
           /\ Ended' = Ended + If(c = "protocol_error", a)
           /\ Invalid' = Invalid + If(c = "frames_invalid", a)
           /\ Causes' = Causes + If(c \in Causing, a)
           /\ UNCHANGED <<FramesReceived, EndsReceived, GoodCounted, GoodReceived>>
  <1>1. metrics \in [Counters -> Nat] /\ metrics' = [metrics EXCEPT ![c] = @ + a]
    <2>1. metrics' = [metrics EXCEPT ![Head(todo[w])[1]] = @ + Head(todo[w])[2]]
      BY DEF Add
    <2>2. Head(todo[w])[1] = c /\ Head(todo[w])[2] = a
      OBVIOUS
    <2> QED  BY <2>1, <2>2 DEF DataTypeOK
  <1>2. \A k \in Counters : metrics'[k] = metrics[k] + If(k = c, a)
    BY <1>1 DEF If
  <1>3. UNCHANGED <<pending, received, counted, Outcomes>>
    BY DEF Add, vars, Outcomes
  <1>4. MetricsNat /\ ReceivedNat /\ Outcomes \in Nat /\ Len(pending) \in Nat
    BY SumsTypes
  <1>5. /\ metrics'["frames_parsed"] = metrics["frames_parsed"] + If("frames_parsed" = c, a)
        /\ metrics'["frames_invalid"] = metrics["frames_invalid"] + If("frames_invalid" = c, a)
        /\ metrics'["modbus_error"] = metrics["modbus_error"] + If("modbus_error" = c, a)
        /\ metrics'["can_error"] = metrics["can_error"] + If("can_error" = c, a)
    BY <1>2 DEF Counters
  <1>6. /\ metrics'["crc_errors"] = metrics["crc_errors"] + If("crc_errors" = c, a)
        /\ metrics'["length_errors"] = metrics["length_errors"] + If("length_errors" = c, a)
        /\ metrics'["protocol_error"] = metrics["protocol_error"] + If("protocol_error" = c, a)
    BY <1>2 DEF Counters
  <1>7. FramesCounted' = FramesCounted + If(c \in Counting, a)
    <2>1. /\ metrics["frames_parsed"] \in Nat /\ metrics["frames_invalid"] \in Nat
          /\ metrics["modbus_error"] \in Nat /\ metrics["can_error"] \in Nat
          /\ Len(pending) \in Nat /\ pending' = pending
      BY <1>3, <1>4 DEF MetricsNat
    <2>2. CASE c = "frames_parsed"
      <3>1. /\ metrics'["frames_parsed"] = metrics["frames_parsed"] + a
            /\ metrics'["frames_invalid"] = metrics["frames_invalid"]
            /\ metrics'["modbus_error"] = metrics["modbus_error"]
            /\ metrics'["can_error"] = metrics["can_error"]
        BY <1>5, <2>1, <2>2 DEF If
      <3>2. If(c \in Counting, a) = a
        BY <2>2 DEF If, Counting
      <3> QED  BY <2>1, <3>1, <3>2 DEF FramesCounted
    <2>3. CASE c = "frames_invalid"
      <3>1. /\ metrics'["frames_parsed"] = metrics["frames_parsed"]
            /\ metrics'["frames_invalid"] = metrics["frames_invalid"] + a
            /\ metrics'["modbus_error"] = metrics["modbus_error"]
            /\ metrics'["can_error"] = metrics["can_error"]
        BY <1>5, <2>1, <2>3 DEF If
      <3>2. If(c \in Counting, a) = a
        BY <2>3 DEF If, Counting
      <3> QED  BY <2>1, <3>1, <3>2 DEF FramesCounted
    <2>4. CASE c = "modbus_error"
      <3>1. /\ metrics'["frames_parsed"] = metrics["frames_parsed"]
            /\ metrics'["frames_invalid"] = metrics["frames_invalid"]
            /\ metrics'["modbus_error"] = metrics["modbus_error"] + a
            /\ metrics'["can_error"] = metrics["can_error"]
        BY <1>5, <2>1, <2>4 DEF If
      <3>2. If(c \in Counting, a) = a
        BY <2>4 DEF If, Counting
      <3> QED  BY <2>1, <3>1, <3>2 DEF FramesCounted
    <2>5. CASE c = "can_error"
      <3>1. /\ metrics'["frames_parsed"] = metrics["frames_parsed"]
            /\ metrics'["frames_invalid"] = metrics["frames_invalid"]
            /\ metrics'["modbus_error"] = metrics["modbus_error"]
            /\ metrics'["can_error"] = metrics["can_error"] + a
        BY <1>5, <2>1, <2>5 DEF If
      <3>2. If(c \in Counting, a) = a
        BY <2>5 DEF If, Counting
      <3> QED  BY <2>1, <3>1, <3>2 DEF FramesCounted
    <2>6. CASE c \notin Counting
      <3>1. /\ metrics'["frames_parsed"] = metrics["frames_parsed"]
            /\ metrics'["frames_invalid"] = metrics["frames_invalid"]
            /\ metrics'["modbus_error"] = metrics["modbus_error"]
            /\ metrics'["can_error"] = metrics["can_error"]
        BY <1>5, <2>1, <2>6 DEF If, Counting
      <3>2. If(c \in Counting, a) = 0
        BY <2>6 DEF If
      <3> QED  BY <2>1, <3>1, <3>2 DEF FramesCounted
    <2> QED  BY <2>2, <2>3, <2>4, <2>5, <2>6 DEF Counting
  <1>8. Ended' = Ended + If(c = "protocol_error", a)
    <2>1. /\ metrics["protocol_error"] \in Nat /\ Outcomes \in Nat /\ Outcomes' = Outcomes
          /\ Len(pending) \in Nat /\ pending' = pending
      BY <1>3, <1>4 DEF MetricsNat
    <2> QED  BY <1>6, <2>1 DEF Ended, If
  <1>9. Invalid' = Invalid + If(c = "frames_invalid", a)
    BY <1>5 DEF Invalid
  <1>10. Causes' = Causes + If(c \in Causing, a)
    <2>1. /\ metrics["crc_errors"] \in Nat /\ metrics["length_errors"] \in Nat
          /\ received.generic \in Nat /\ received' = received
      BY <1>3, <1>4 DEF MetricsNat, ReceivedNat
    <2>2. CASE c = "crc_errors"
      BY <1>6, <2>1, <2>2 DEF Causes, Causing, If
    <2>3. CASE c = "length_errors"
      BY <1>6, <2>1, <2>3 DEF Causes, Causing, If
    <2>4. CASE c \notin Causing
      BY <1>6, <2>1, <2>4 DEF Causes, Causing, If
    <2> QED  BY <2>2, <2>3, <2>4 DEF Causing
  <1>11. UNCHANGED <<FramesReceived, EndsReceived, GoodCounted, GoodReceived>>
    BY <1>3 DEF FramesReceived, EndsReceived, GoodCounted, GoodReceived, Total
  <1> QED  BY <1>2, <1>7, <1>8, <1>9, <1>10, <1>11

LEMMA ErrorsNumbers ==
    ASSUME NEW x \in Results
    PROVE  /\ x.errors.crc \in Nat /\ x.errors.length \in Nat /\ x.errors.generic \in Nat
           /\ invalid_frame_count(x.errors) \in Nat /\ ProtocolErrors(x.errors) \in Nat
  <1>1. x.errors.crc \in Nat /\ x.errors.length \in Nat /\ x.errors.generic \in Nat
    BY DEF Results, ErrorStats
  <1>2. invalid_frame_count(x.errors) \in Nat
    BY <1>1 DEF invalid_frame_count
  <1> QED  BY <1>1, <1>2 DEF ProtocolErrors

(* What the addition takes from what is due, by its place in the handler.  *)
DueTaken(w, c, a) ==
    /\ CountDue[w] = CountDue'[w] + If(c \in Counting, a)
    /\ EndDue[w] = EndDue'[w] + If(c = "protocol_error", a)
    /\ ExcessDue[w] + If(c \in Causing, a) = ExcessDue'[w] + If(c = "frames_invalid", a)
    /\ OutcomeDue'[w] = OutcomeDue[w]

(* The next addition is the first of those that remain.                    *)
LEMMA NextAddition ==
    ASSUME NEW left \in Seq(Counters \X Nat), left # <<>>,
           NEW additions, Len(additions) \in Nat, Remaining(left, additions)
    PROVE  /\ Len(left) \in 1..Len(additions) /\ Len(Tail(left)) = Len(left) - 1
           /\ Head(left) = additions[Len(additions) - Len(left) + 1]
           /\ Tail(left) \in Seq(Counters \X Nat) /\ Remaining(Tail(left), additions)
  <1> DEFINE n == Len(additions)
  <1>1. /\ Len(left) \in Nat /\ Len(left) > 0 /\ Head(left) = left[1]
        /\ Len(Tail(left)) = Len(left) - 1 /\ Tail(left) \in Seq(Counters \X Nat)
    OBVIOUS
  <1>2. 1 \in 1..Len(left) /\ Len(left) <= n
    BY <1>1 DEF Remaining
  <1>3. \A i \in 1..Len(left) : left[i] = additions[n - Len(left) + i]
    BY DEF Remaining
  <1>4. left[1] = additions[n - Len(left) + 1]
    BY <1>2, <1>3
  <1>5. ASSUME NEW i \in 1..Len(Tail(left))
        PROVE  Tail(left)[i] = additions[n - Len(Tail(left)) + i]
    <2>1. Tail(left)[i] = left[i + 1]
      BY <1>1
    <2>2. i + 1 \in 1..Len(left) /\ n - Len(left) + (i + 1) = n - Len(Tail(left)) + i
      BY <1>1
    <2>3. left[i + 1] = additions[n - Len(left) + (i + 1)]
      BY <1>3, <2>2
    <2> QED  BY <2>1, <2>2, <2>3
  <1>6. Remaining(Tail(left), additions)
    BY <1>1, <1>2, <1>5 DEF Remaining
  <1> QED  BY <1>1, <1>2, <1>4, <1>6

LEMMA DataAdded ==
    ASSUME DataIInv, NEW w \in Workers, Add(w), stage[w] = "data"
    PROVE  \E c \in Counters, a \in Nat : Head(todo[w]) = <<c, a>> /\ DueTaken(w, c, a)
  <1> DEFINE d == result[w].data
  <1>1. /\ todo[w] \in Seq(Counters \X Nat) /\ todo[w] # <<>> /\ todo'[w] = Tail(todo[w])
        /\ UNCHANGED <<stage, result>> /\ result[w] \in Results /\ d # None
        /\ Remaining(todo[w], DataAdditions(d))
    BY DEF DataIInv, Add, DataTypeOK, WorkerSound
  <1>2. /\ Len(todo[w]) \in 1..2 /\ Len(todo'[w]) = Len(todo[w]) - 1
        /\ Head(todo[w]) = DataAdditions(d)[2 - Len(todo[w]) + 1]
    <2>1. Len(DataAdditions(d)) = 2
      BY DEF DataAdditions
    <2>2. /\ Len(todo[w]) \in 1..Len(DataAdditions(d)) /\ Len(Tail(todo[w])) = Len(todo[w]) - 1
          /\ Head(todo[w]) = DataAdditions(d)[Len(DataAdditions(d)) - Len(todo[w]) + 1]
      <3>1. Len(DataAdditions(d)) \in Nat
        BY <2>1
      <3> QED  BY <1>1, <3>1, NextAddition
    <2> QED  BY <1>1, <2>1, <2>2
  <1>3. /\ DataLeft(w) = Len(todo[w]) /\ DataLeft(w)' = Len(todo[w]) - 1
        /\ ErrorsLeft(w)' = ErrorsLeft(w) /\ OutcomeDue'[w] = OutcomeDue[w]
    BY <1>1, <1>2 DEF DataLeft, ErrorsLeft, OutcomeDue
  <1>4. /\ CountDue[w] \in Nat /\ EndDue[w] \in Nat /\ ExcessDue[w] \in Nat
    BY DueTypes DEF DataIInv, DueNat
  <1>5. ExcessDue'[w] = ExcessDue[w]
    BY <1>1, <1>3 DEF ExcessDue
  <1>6. CASE Len(todo[w]) = 2
    <2>1. Head(todo[w]) = <<"frames_parsed", 1>>
      BY <1>2, <1>6 DEF DataAdditions
    <2>2. EndDue'[w] = EndDue[w]
      BY <1>1, <1>3, <1>6 DEF EndDue
    <2>3. CountDue[w] = CountDue'[w] + 1
      <3>1. invalid_frame_count(result[w].errors) \in Nat /\ ProtocolErrors(result[w].errors) \in Nat
        BY <1>1, ErrorsNumbers
      <3>2. result' = result /\ DataLeft(w) = 2 /\ DataLeft(w)' = 1
        BY <1>1, <1>3, <1>6
      <3> QED  BY <1>3, <3>1, <3>2 DEF CountDue, If
    <2>4. DueTaken(w, "frames_parsed", 1)
      <3>1. /\ If("frames_parsed" \in Counting, 1) = 1 /\ If("frames_parsed" = "protocol_error", 1) = 0
            /\ If("frames_parsed" \in Causing, 1) = 0 /\ If("frames_parsed" = "frames_invalid", 1) = 0
        BY DEF Counting, Causing, If
      <3>2. EndDue[w] = EndDue'[w] + 0 /\ ExcessDue[w] + 0 = ExcessDue'[w] + 0
        BY <1>4, <1>5, <2>2
      <3> QED  BY <1>3, <2>3, <3>1, <3>2 DEF DueTaken
    <2> QED  BY <2>1, <2>4 DEF Counters
  <1>7. CASE Len(todo[w]) = 1
    <2> DEFINE a == IF d.valid THEN 0 ELSE 1
    <2>1. Head(todo[w]) = <<"protocol_error", a>>
      BY <1>2, <1>7 DEF DataAdditions
    <2>2. CountDue'[w] = CountDue[w]
      BY <1>1, <1>3, <1>7 DEF CountDue, If
    <2>3. EndDue[w] = EndDue'[w] + a
      <3> DEFINE errors == If(ErrorsLeft(w) >= 3, ProtocolErrors(result[w].errors))
      <3>1. errors \in Nat /\ OutcomeDue[w] \in Nat
        BY <1>1, ErrorsNumbers DEF If, OutcomeDue
      <3>2. EndDue[w] = a + errors + OutcomeDue[w] /\ EndDue'[w] = 0 + errors + OutcomeDue[w]
        BY <1>1, <1>3, <1>7 DEF EndDue, If
      <3> HIDE DEF errors
      <3> QED  BY <3>1, <3>2
    <2>4. DueTaken(w, "protocol_error", a)
      <3>1. /\ If("protocol_error" \in Counting, a) = 0 /\ If("protocol_error" = "protocol_error", a) = a
            /\ If("protocol_error" \in Causing, a) = 0 /\ If("protocol_error" = "frames_invalid", a) = 0
        BY DEF Counting, Causing, If
      <3>2. CountDue[w] = CountDue'[w] + 0 /\ ExcessDue[w] + 0 = ExcessDue'[w] + 0
        BY <1>4, <1>5, <2>2
      <3> QED  BY <1>3, <2>3, <3>1, <3>2 DEF DueTaken
    <2> QED  BY <2>1, <2>4 DEF Counters
  <1> QED  BY <1>2, <1>6, <1>7

(* What is due while n of the additions of on_protocol_error() are to be   *)
(* made, and what making the next one, a to the counter c, takes from it.  *)
CountLeft(w, n, bad, pe) ==
    0 + If(n >= 4, bad) + If(w = Modbus /\ n >= 2, pe) + If(w = Can /\ n >= 1, pe)

EndLeft(n, pe) == 0 + If(n >= 3, pe) + 0

ExcessLeft(n, bad, crc, length) == If(n >= 4, bad - If(n >= 6, crc) - If(n >= 5, length))

StepTakes(w, n, bad, pe, crc, length, c, a) ==
    /\ CountLeft(w, n, bad, pe) = CountLeft(w, n - 1, bad, pe) + If(c \in Counting, a)
    /\ EndLeft(n, pe) = EndLeft(n - 1, pe) + If(c = "protocol_error", a)
    /\ ExcessLeft(n, bad, crc, length) + If(c \in Causing, a)
          = ExcessLeft(n - 1, bad, crc, length) + If(c = "frames_invalid", a)

LEMMA StepsTake ==
    ASSUME NEW w, NEW bad \in Nat, NEW pe \in Nat, NEW crc \in Nat, NEW length \in Nat
    PROVE  /\ StepTakes(w, 6, bad, pe, crc, length, "crc_errors", crc)
           /\ StepTakes(w, 5, bad, pe, crc, length, "length_errors", length)
           /\ StepTakes(w, 4, bad, pe, crc, length, "frames_invalid", bad)
           /\ StepTakes(w, 3, bad, pe, crc, length, "protocol_error", pe)
           /\ StepTakes(w, 2, bad, pe, crc, length, "modbus_error", If(w = Modbus, pe))
           /\ StepTakes(w, 1, bad, pe, crc, length, "can_error", If(w = Can, pe))
  <1> DEFINE modbus == If(w = Modbus, pe)
             can == If(w = Can, pe)
  <1>1. modbus \in Nat /\ can \in Nat
    BY DEF If
  <1>2. /\ CountLeft(w, 6, bad, pe) = bad + modbus + can
        /\ CountLeft(w, 5, bad, pe) = bad + modbus + can
        /\ CountLeft(w, 4, bad, pe) = bad + modbus + can
    BY DEF CountLeft, If
  <1>3. /\ CountLeft(w, 3, bad, pe) = modbus + can
        /\ CountLeft(w, 2, bad, pe) = modbus + can
        /\ CountLeft(w, 1, bad, pe) = can
        /\ CountLeft(w, 0, bad, pe) = 0
    BY DEF CountLeft, If
  <1>4. /\ EndLeft(6, pe) = pe /\ EndLeft(5, pe) = pe /\ EndLeft(4, pe) = pe /\ EndLeft(3, pe) = pe
        /\ EndLeft(2, pe) = 0 /\ EndLeft(1, pe) = 0 /\ EndLeft(0, pe) = 0
    BY DEF EndLeft, If
  <1>5. /\ ExcessLeft(6, bad, crc, length) = bad - crc - length
        /\ ExcessLeft(5, bad, crc, length) = bad - length
        /\ ExcessLeft(4, bad, crc, length) = bad
        /\ ExcessLeft(3, bad, crc, length) = 0 /\ ExcessLeft(2, bad, crc, length) = 0
        /\ ExcessLeft(1, bad, crc, length) = 0 /\ ExcessLeft(0, bad, crc, length) = 0
    BY DEF ExcessLeft, If
  <1> HIDE DEF modbus, can
  <1>6. /\ StepTakes(w, 6, bad, pe, crc, length, "crc_errors", crc)
        /\ StepTakes(w, 5, bad, pe, crc, length, "length_errors", length)
    BY <1>1, <1>2, <1>4, <1>5 DEF StepTakes, Counting, Causing, If
  <1>7. /\ StepTakes(w, 4, bad, pe, crc, length, "frames_invalid", bad)
        /\ StepTakes(w, 3, bad, pe, crc, length, "protocol_error", pe)
    BY <1>1, <1>2, <1>3, <1>4, <1>5 DEF StepTakes, Counting, Causing, If
  <1>8. /\ StepTakes(w, 2, bad, pe, crc, length, "modbus_error", modbus)
        /\ StepTakes(w, 1, bad, pe, crc, length, "can_error", can)
    BY <1>1, <1>3, <1>4, <1>5 DEF StepTakes, Counting, Causing, If
  <1> QED  BY <1>6, <1>7, <1>8 DEF modbus, can

LEMMA ErrorAdded ==
    ASSUME DataIInv, NEW w \in Workers, Add(w), stage[w] = "errors"
    PROVE  \E c \in Counters, a \in Nat : Head(todo[w]) = <<c, a>> /\ DueTaken(w, c, a)
  <1> DEFINE e == result[w].errors
             n == Len(todo[w])
  <1>1. /\ todo[w] \in Seq(Counters \X Nat) /\ todo[w] # <<>> /\ todo'[w] = Tail(todo[w])
        /\ UNCHANGED <<stage, result>> /\ result[w] \in Results
        /\ Remaining(todo[w], ErrorAdditions(w, e))
    BY DEF DataIInv, Add, DataTypeOK, WorkerSound
  <1>2. /\ n \in 1..6 /\ Len(todo'[w]) = n - 1
        /\ Head(todo[w]) = ErrorAdditions(w, e)[6 - n + 1]
    <2>1. Len(ErrorAdditions(w, e)) = 6
      BY DEF ErrorAdditions
    <2>2. /\ Len(todo[w]) \in 1..Len(ErrorAdditions(w, e)) /\ Len(Tail(todo[w])) = Len(todo[w]) - 1
          /\ Head(todo[w]) = ErrorAdditions(w, e)[Len(ErrorAdditions(w, e)) - Len(todo[w]) + 1]
      <3>1. Len(ErrorAdditions(w, e)) \in Nat
        BY <2>1
      <3> QED  BY <1>1, <3>1, NextAddition
    <2> QED  BY <1>1, <2>1, <2>2
  <1>3. /\ ErrorsLeft(w) = n /\ ErrorsLeft(w)' = n - 1 /\ DataLeft(w) = 0 /\ DataLeft(w)' = 0
        /\ OutcomeDue[w] = 0 /\ OutcomeDue'[w] = 0
    BY <1>1, <1>2 DEF DataLeft, ErrorsLeft, OutcomeDue, If
  <1> DEFINE bad == invalid_frame_count(e)
             pe == ProtocolErrors(e)
  <1>4. /\ e.crc \in Nat /\ e.length \in Nat /\ e.generic \in Nat /\ bad \in Nat /\ pe \in Nat
        /\ bad = e.crc + e.length + e.generic
    BY <1>1, ErrorsNumbers DEF invalid_frame_count
  <1> HIDE DEF n, bad, pe
  <1>5. result'[w] = result[w]
    BY <1>1
  <1>6. /\ CountDue[w] = CountLeft(w, n, bad, pe) /\ CountDue'[w] = CountLeft(w, n - 1, bad, pe)
        /\ EndDue[w] = EndLeft(n, pe) /\ EndDue'[w] = EndLeft(n - 1, pe)
        /\ ExcessDue[w] = ExcessLeft(n, bad, e.crc, e.length)
        /\ ExcessDue'[w] = ExcessLeft(n - 1, bad, e.crc, e.length)
    <2>1. CountDue[w] = CountLeft(w, n, bad, pe)
      BY <1>3 DEF CountDue, CountLeft, If, bad, pe
    <2>2. CountDue'[w] = CountLeft(w, n - 1, bad, pe)
      BY <1>3, <1>5 DEF CountDue, CountLeft, If, bad, pe
    <2>3. EndDue[w] = EndLeft(n, pe) /\ EndDue'[w] = EndLeft(n - 1, pe)
      BY <1>3, <1>5 DEF EndDue, EndLeft, If, pe
    <2>4. ExcessDue[w] = ExcessLeft(n, bad, e.crc, e.length)
      BY <1>3 DEF ExcessDue, ExcessLeft, If, bad
    <2>5. ExcessDue'[w] = ExcessLeft(n - 1, bad, e.crc, e.length)
      BY <1>3, <1>5 DEF ExcessDue, ExcessLeft, If, bad
    <2> QED  BY <2>1, <2>2, <2>3, <2>4, <2>5
  <1>7. ASSUME NEW c, NEW a, StepTakes(w, n, bad, pe, e.crc, e.length, c, a)
        PROVE  DueTaken(w, c, a)
    BY <1>3, <1>6, <1>7 DEF StepTakes, DueTaken
  <1>8. CASE n = 6
    <2>1. Head(todo[w]) = <<"crc_errors", e.crc>>
      BY <1>2, <1>8 DEF ErrorAdditions
    <2>2. DueTaken(w, "crc_errors", e.crc)
      BY <1>4, <1>7, <1>8, StepsTake
    <2> QED  BY <1>4, <2>1, <2>2 DEF Counters
  <1>9. CASE n = 5
    <2>1. Head(todo[w]) = <<"length_errors", e.length>>
      BY <1>2, <1>9 DEF ErrorAdditions
    <2>2. DueTaken(w, "length_errors", e.length)
      BY <1>4, <1>7, <1>9, StepsTake
    <2> QED  BY <1>4, <2>1, <2>2 DEF Counters
  <1>10. CASE n = 4
    <2>1. Head(todo[w]) = <<"frames_invalid", bad>>
      BY <1>2, <1>10 DEF ErrorAdditions, bad
    <2>2. DueTaken(w, "frames_invalid", bad)
      BY <1>4, <1>7, <1>10, StepsTake
    <2> QED  BY <1>4, <2>1, <2>2 DEF Counters
  <1>11. CASE n = 3
    <2>1. Head(todo[w]) = <<"protocol_error", pe>>
      BY <1>2, <1>11 DEF ErrorAdditions, pe
    <2>2. DueTaken(w, "protocol_error", pe)
      BY <1>4, <1>7, <1>11, StepsTake
    <2> QED  BY <1>4, <2>1, <2>2 DEF Counters
  <1>12. CASE n = 2
    <2>1. Head(todo[w]) = <<"modbus_error", If(w = Modbus, pe)>>
      BY <1>2, <1>12 DEF ErrorAdditions, pe, If
    <2>2. DueTaken(w, "modbus_error", If(w = Modbus, pe))
      BY <1>4, <1>7, <1>12, StepsTake
    <2> QED  BY <1>4, <2>1, <2>2 DEF Counters, If
  <1>13. CASE n = 1
    <2>1. Head(todo[w]) = <<"can_error", If(w = Can, pe)>>
      BY <1>2, <1>13 DEF ErrorAdditions, pe, If
    <2>2. DueTaken(w, "can_error", If(w = Can, pe))
      BY <1>4, <1>7, <1>13, StepsTake
    <2> QED  BY <1>4, <2>1, <2>2 DEF Counters, If
  <1> QED  BY <1>2, <1>8, <1>9, <1>10, <1>11, <1>12, <1>13

LEMMA AddKeeps ==
    ASSUME DataIInv, NEW w \in Workers, Add(w)
    PROVE  OthersKept(w) /\ DataTypeOK' /\ WorkerSound(w)' /\ BalancesKept(w) /\ ScrapeSound'
  <1>1. /\ todo[w] \in Seq(Counters \X Nat) /\ todo[w] # <<>> /\ todo'[w] = Tail(todo[w])
        /\ \A v \in Workers \ {w} : todo'[v] = todo[v]
        /\ UNCHANGED <<stage, result, pc, message, counted, pending, scrape, received>>
        /\ stage[w] \in {"data", "errors"} /\ result[w] \in Results
    BY DEF DataIInv, Add, DataTypeOK, Stages, WorkerSound, vars
  <1>2. PICK c \in Counters, a \in Nat : Head(todo[w]) = <<c, a>> /\ DueTaken(w, c, a)
    BY <1>1, DataAdded, ErrorAdded
  <1>3. TypeOK /\ DataTypeOK
    BY DEF DataIInv, TcpIInv
  <1>4. /\ \A k \in Counters : metrics'[k] = metrics[k] + If(k = c, a)
        /\ FramesCounted' = FramesCounted + If(c \in Counting, a)
        /\ Ended' = Ended + If(c = "protocol_error", a)
        /\ Invalid' = Invalid + If(c = "frames_invalid", a)
        /\ Causes' = Causes + If(c \in Causing, a)
        /\ UNCHANGED <<FramesReceived, EndsReceived, GoodCounted, GoodReceived>>
    BY <1>2, <1>3, Added
  <1>5. OthersKept(w)
    BY <1>1 DEF OthersKept
  <1>6. DataTypeOK'
    <2>1. metrics' \in [Counters -> Nat]
      BY <1>2, <1>4 DEF DataIInv, Add, DataTypeOK, If
    <2>2. todo' \in [Workers -> Seq(Counters \X Nat)]
      <3>1. todo \in [Workers -> Seq(Counters \X Nat)]
        BY DEF DataIInv, DataTypeOK
      <3>2. todo' = [todo EXCEPT ![w] = Tail(todo[w])]
        BY DEF Add
      <3>3. todo[w] \in Seq(Counters \X Nat) /\ todo[w] # <<>>
        BY <3>1 DEF Add
      <3>4. Tail(todo[w]) \in Seq(Counters \X Nat)
        BY <3>3
      <3> QED  BY <3>1, <3>2, <3>4
    <2> QED  BY <1>1, <2>1, <2>2 DEF DataIInv, DataTypeOK
  <1>7. WorkerSound(w)'
    <2>1. CASE stage[w] = "data"
      <3>1. Remaining(todo[w], DataAdditions(result[w].data))
        BY <2>1 DEF DataIInv, WorkerSound
      <3>2. Remaining(todo'[w], DataAdditions(result[w].data))
        <4>1. todo[w] \in Seq(Counters \X Nat) /\ todo[w] # <<>> /\ todo'[w] = Tail(todo[w])
          BY <1>1
        <4>2. Len(DataAdditions(result[w].data)) \in Nat
          BY DataAdditionsLength
        <4> QED  BY <3>1, <4>1, <4>2, NextAddition
      <3> QED  BY <1>1, <2>1, <3>2 DEF DataIInv, WorkerSound
    <2>2. CASE stage[w] = "errors"
      <3>1. Remaining(todo[w], ErrorAdditions(w, result[w].errors))
        BY <2>2 DEF DataIInv, WorkerSound
      <3>2. Remaining(todo'[w], ErrorAdditions(w, result[w].errors))
        <4>1. todo[w] \in Seq(Counters \X Nat) /\ todo[w] # <<>> /\ todo'[w] = Tail(todo[w])
          BY <1>1
        <4>2. Len(ErrorAdditions(w, result[w].errors)) \in Nat
          BY ErrorAdditionsLength
        <4> QED  BY <3>1, <4>1, <4>2, NextAddition
      <3> QED  BY <1>1, <2>2, <3>2 DEF DataIInv, WorkerSound
    <2> QED  BY <1>1, <2>1, <2>2
  <1>8. BalancesKept(w)
    <2>1. SumsNat /\ DueNat
      BY <1>3, SumsTypes, DueTypes
    <2>2. DueNat'
      BY <1>6, DueTypes, PTL
    <2> DEFINE counts == If(c \in Counting, a)
               ends == If(c = "protocol_error", a)
               invalid == If(c = "frames_invalid", a)
               causes == If(c \in Causing, a)
    <2>3. counts \in Nat /\ ends \in Nat /\ invalid \in Nat /\ causes \in Nat
      BY DEF If
    <2>4. /\ CountDue[w] \in Nat /\ CountDue'[w] \in Nat /\ EndDue[w] \in Nat /\ EndDue'[w] \in Nat
          /\ ExcessDue[w] \in Nat /\ ExcessDue'[w] \in Nat
      BY <2>1, <2>2 DEF DueNat
    <2>5. /\ CountDue[w] = CountDue'[w] + counts /\ EndDue[w] = EndDue'[w] + ends
          /\ ExcessDue[w] + causes = ExcessDue'[w] + invalid /\ OutcomeDue'[w] = OutcomeDue[w]
      BY <1>2 DEF DueTaken
    <2>6. /\ FramesCounted' = FramesCounted + counts /\ Ended' = Ended + ends
          /\ Invalid' = Invalid + invalid /\ Causes' = Causes + causes
      BY <1>4
    <2> HIDE DEF counts, ends, invalid, causes
    <2>7. FramesKept(w)
      <3>1. FramesCounted \in Nat /\ FramesReceived \in Nat /\ FramesReceived' = FramesReceived
        BY <1>4, <2>1 DEF SumsNat
      <3>2. (FramesCounted + counts) + CountDue'[w] + FramesReceived
              = FramesCounted + (CountDue'[w] + counts) + FramesReceived
        BY <2>3, <2>4, <3>1
      <3> QED  BY <2>5, <2>6, <3>1, <3>2 DEF FramesKept
    <2>8. EndsKept(w)
      <3>1. Ended \in Nat /\ EndsReceived \in Nat /\ EndsReceived' = EndsReceived
        BY <1>4, <2>1 DEF SumsNat
      <3>2. (Ended + ends) + EndDue'[w] + EndsReceived
              = Ended + (EndDue'[w] + ends) + EndsReceived
        BY <2>3, <2>4, <3>1
      <3> QED  BY <2>5, <2>6, <3>1, <3>2 DEF EndsKept
    <2>9. CausesKept(w)
      <3>1. Invalid \in Nat /\ Causes \in Nat
        BY <2>1 DEF SumsNat
      <3> QED  BY <2>3, <2>4, <2>5, <2>6, <3>1 DEF CausesKept
    <2>10. GoodKept(w)
      BY <1>4, <2>5 DEF GoodKept
    <2> QED  BY <2>7, <2>8, <2>9, <2>10 DEF BalancesKept
  <1>9. ScrapeSound'
    <2>1. /\ metrics'["crc_errors"] >= metrics["crc_errors"]
          /\ metrics'["length_errors"] >= metrics["length_errors"]
      <3>1. \A k \in Counters : metrics[k] \in Nat /\ If(k = c, a) \in Nat
        BY <1>3 DEF DataTypeOK, If
      <3>2. \A k \in Counters : metrics'[k] >= metrics[k]
        BY <1>4, <3>1
      <3> QED  BY <3>2 DEF Counters
    <2>2. received'.generic >= received.generic
      <3>1. received.generic \in Nat /\ received' = received
        BY <1>1, <1>3 DEF DataTypeOK, Receipts
      <3> QED  BY <3>1
    <2> QED  BY <1>1, <1>3, <1>6, <2>1, <2>2, ScrapeBehind DEF DataIInv
  <1> QED  BY <1>5, <1>6, <1>7, <1>8, <1>9

(* The steps of the HTTP thread and of main touch no worker.               *)
LEMMA OtherThreadsKeep ==
    ASSUME DataIInv, TcpIInv',
           UNCHANGED <<pc, counted, stage, result, pending, todo, metrics, received>>,
           scrape' \in Seq(Nat), ScrapeSound'
    PROVE  DataIInv'
  <1>1. DataTypeOK'
    BY DEF DataIInv, DataTypeOK
  <1>2. \A w \in Workers : WorkerSound(w)'
    BY DEF DataIInv, WorkerSound
  <1>3. /\ \A w \in Workers : DataLeft(w)' = DataLeft(w) /\ ErrorsLeft(w)' = ErrorsLeft(w)
    BY DEF DataLeft, ErrorsLeft
  <1>4. OutcomeDue' = OutcomeDue /\ UNCHANGED <<result, stage>>
    BY DEF OutcomeDue
  <1>5. CountDue' = CountDue /\ EndDue' = EndDue /\ ExcessDue' = ExcessDue
    BY <1>3, <1>4 DEF CountDue, EndDue, ExcessDue
  <1>6. SumsKept
    BY SumsUntouched
  <1>7. FramesBalance' /\ EndsBalance' /\ CausesBalance'
    BY <1>5, <1>6 DEF DataIInv, SumsKept, FramesBalance, EndsBalance, CausesBalance, Total
  <1> QED  BY <1>1, <1>2, <1>7 DEF DataIInv

LEMMA Appended ==
    ASSUME NEW s \in Seq(Nat), NEW e \in Nat
    PROVE  /\ Append(s, e) \in Seq(Nat) /\ Len(Append(s, e)) = Len(s) + 1
           /\ Append(s, e)[Len(s) + 1] = e
           /\ \A i \in 1 .. Len(s) : Append(s, e)[i] = s[i]
  OBVIOUS

LEMMA RenderKeeps ==
    ASSUME DataIInv, render_prometheus
    PROVE  scrape' \in Seq(Nat) /\ ScrapeSound'
  <1>1. MetricsNat /\ ReceivedNat /\ SumsNat /\ DueNat
    BY SumsTypes, DueTypes DEF DataIInv, TcpIInv
  <1>2. /\ scrape \in Seq(Nat) /\ Len(scrape) \in Nat /\ Len(scrape) <= 3
        /\ UNCHANGED <<metrics, received>>
    BY DEF DataIInv, DataTypeOK, ScrapeSound, render_prometheus
  <1>3. CASE Len(scrape) = 3
    <2>1. scrape' = <<>>
      BY <1>3 DEF render_prometheus, RenderOrder
    <2> QED  BY <2>1 DEF ScrapeSound
  <1>4. CASE Len(scrape) = 0
    <2>1. scrape' = Append(scrape, Invalid)
      BY <1>4 DEF render_prometheus, RenderOrder, Invalid
    <2>2. scrape' \in Seq(Nat) /\ Len(scrape') = 1 /\ scrape'[1] = Invalid
      BY <1>1, <1>2, <1>4, <2>1 DEF SumsNat
    <2>3. Invalid <= Causes
      <3>1. Total(ExcessDue) \in Nat
        BY <1>1, DataPathAssumption DEF DueNat, Total
      <3> QED  BY <1>1, <3>1 DEF DataIInv, CausesBalance, SumsNat
    <2>4. Causes' = Causes
      BY <1>2 DEF Causes
    <2> QED  BY <2>2, <2>3, <2>4 DEF ScrapeSound
  <1>5. CASE Len(scrape) = 1
    <2>1. scrape' = Append(scrape, metrics["crc_errors"])
      BY <1>5 DEF render_prometheus, RenderOrder
    <2>2. metrics["crc_errors"] \in Nat
      BY <1>1 DEF MetricsNat
    <2>3. /\ scrape' \in Seq(Nat) /\ Len(scrape') = 2
          /\ scrape'[1] = scrape[1] /\ scrape'[2] = metrics["crc_errors"]
      <3>1. /\ scrape' \in Seq(Nat) /\ Len(scrape') = Len(scrape) + 1
            /\ scrape'[Len(scrape) + 1] = metrics["crc_errors"]
            /\ \A i \in 1 .. Len(scrape) : scrape'[i] = scrape[i]
        BY <1>2, <2>1, <2>2, Appended
      <3> QED  BY <1>5, <3>1
    <2>4. scrape[1] <= metrics["crc_errors"] + metrics["length_errors"] + received.generic
      BY <1>5 DEF DataIInv, ScrapeSound, Causes
    <2> QED  BY <1>2, <2>3, <2>4 DEF ScrapeSound
  <1>6. CASE Len(scrape) = 2
    <2>1. scrape' = Append(scrape, metrics["length_errors"])
      BY <1>6 DEF render_prometheus, RenderOrder
    <2>2. metrics["length_errors"] \in Nat
      BY <1>1 DEF MetricsNat
    <2>3. /\ scrape' \in Seq(Nat) /\ Len(scrape') = 3
          /\ scrape'[1] = scrape[1] /\ scrape'[2] = scrape[2]
          /\ scrape'[3] = metrics["length_errors"]
      <3>1. /\ scrape' \in Seq(Nat) /\ Len(scrape') = Len(scrape) + 1
            /\ scrape'[Len(scrape) + 1] = metrics["length_errors"]
            /\ \A i \in 1 .. Len(scrape) : scrape'[i] = scrape[i]
        BY <1>2, <2>1, <2>2, Appended
      <3> QED  BY <1>6, <3>1
    <2>4. scrape[1] <= scrape[2] + metrics["length_errors"] + received.generic
      BY <1>6 DEF DataIInv, ScrapeSound
    <2>5. UNCHANGED <<metrics, received>>
      BY <1>2
    <2>6. scrape'[1] <= scrape'[2] + scrape'[3] + received'.generic
      BY <2>3, <2>4, <2>5
    <2> QED  BY <2>3, <2>6 DEF ScrapeSound
  <1>7. Len(scrape) = 0 \/ Len(scrape) = 1 \/ Len(scrape) = 2 \/ Len(scrape) = 3
    <2>1. \A n \in Nat : n <= 3 => n = 0 \/ n = 1 \/ n = 2 \/ n = 3
      OBVIOUS
    <2> QED  BY <1>2, <2>1
  <1> QED  BY <1>3, <1>4, <1>5, <1>6, <1>7

LEMMA DataInitSound == DataInit => DataIInv /\ GoodBalance
  <1> SUFFICES ASSUME DataInit PROVE DataIInv /\ GoodBalance
    OBVIOUS
  <1>1. TcpIInv /\ Outcomes = 0 /\ \A w \in Workers : pc[w] = "idle"
    BY TcpInit DEF DataInit, Init, Outcomes
  <1>2. DataTypeOK
    BY DEF DataInit, DataTypeOK, Stages, Receipts
  <1>3. \A w \in Workers : WorkerSound(w)
    BY <1>1 DEF DataInit, WorkerSound
  <1>4. \A w \in Workers : DataLeft(w) = 0 /\ ErrorsLeft(w) = 0
    BY DEF DataInit, DataLeft, ErrorsLeft
  <1>5. \A w \in Workers : CountDue[w] = 0 /\ EndDue[w] = 0 /\ ExcessDue[w] = 0 /\ OutcomeDue[w] = 0
    BY <1>4 DEF DataInit, CountDue, EndDue, ExcessDue, OutcomeDue, If
  <1>6. /\ Total(CountDue) = 0 /\ Total(EndDue) = 0 /\ Total(ExcessDue) = 0
        /\ Total(OutcomeDue) = 0
    BY <1>5, DataPathAssumption DEF Total
  <1>7. /\ metrics["frames_parsed"] = 0 /\ metrics["frames_invalid"] = 0
        /\ metrics["crc_errors"] = 0 /\ metrics["length_errors"] = 0
        /\ metrics["protocol_error"] = 0 /\ metrics["modbus_error"] = 0
        /\ metrics["can_error"] = 0 /\ Len(pending) = 0 /\ DOMAIN pending = {}
    BY DEF DataInit, Counters
  <1>8. /\ received.frames = 0 /\ received.good = 0 /\ received.generic = 0
        /\ received.faults[Uart] = 0 /\ received.faults[Modbus] = 0 /\ received.faults[Can] = 0
    BY DataPathAssumption DEF DataInit
  <1>9. FramesBalance /\ EndsBalance /\ CausesBalance /\ GoodBalance
    <2>1. FramesCounted = 0 /\ FramesReceived = 0
      BY <1>7, <1>8 DEF FramesCounted, FramesReceived
    <2>2. Ended = 0 /\ EndsReceived = 0
      BY <1>1, <1>7, <1>8 DEF Ended, EndsReceived, Total
    <2>3. Causes = 0 /\ Invalid = 0
      BY <1>7, <1>8 DEF Causes, Invalid
    <2>4. GoodCounted = 0 /\ GoodReceived = 0
      BY <1>1, <1>7, <1>8 DEF GoodCounted, GoodReceived
    <2> QED  BY <1>6, <1>7, <2>1, <2>2, <2>3, <2>4
             DEF FramesBalance, EndsBalance, CausesBalance, GoodBalance
  <1>10. ScrapeSound
    BY DEF DataInit, ScrapeSound
  <1> QED  BY <1>1, <1>2, <1>3, <1>9, <1>10 DEF DataIInv

LEMMA WorkerStepKeeps ==
    ASSUME DataIInv, TcpIInv', NEW w \in Workers, DataWorker(w)
    PROVE  /\ DataIInv'
           /\ CodecSound /\ GoodBalance => GoodBalance'
  <1> DEFINE Kept == /\ OthersKept(w) /\ DataTypeOK' /\ WorkerSound(w)' /\ ScrapeSound'
                     /\ FramesKept(w) /\ EndsKept(w) /\ CausesKept(w)
             GoodStep == CodecSound /\ GoodBalance =>
                            GoodKept(w) /\ \A i \in DOMAIN pending' : pending'[i].valid
  <1>1. TypeOK'
    BY DEF TcpIInv
  <1>2. Kept /\ GoodStep => DataIInv' /\ (CodecSound /\ GoodBalance => GoodBalance')
    <2> SUFFICES ASSUME Kept, GoodStep
                 PROVE  DataIInv' /\ (CodecSound /\ GoodBalance => GoodBalance')
      OBVIOUS
    <2>1. FramesBalance' /\ EndsBalance' /\ CausesBalance'
      BY <1>1, Balances
    <2>2. \A v \in Workers : WorkerSound(v)'
      BY OthersSound DEF DataIInv
    <2>3. CodecSound /\ GoodBalance => GoodBalance'
      BY <1>1, Balances DEF GoodBalance
    <2> QED  BY <2>1, <2>2, <2>3 DEF DataIInv
  <1>3. Kept /\ GoodKept(w) /\ pending' = pending =>
            DataIInv' /\ (CodecSound /\ GoodBalance => GoodBalance')
    BY <1>2 DEF GoodBalance
  <1>4. CASE BeginRead(w)
    <2>1. Kept /\ GoodKept(w) /\ pending' = pending
      BY <1>4, BeginReadKeeps DEF BalancesKept, BeginRead
    <2> QED  BY <1>3, <2>1
  <1>5. CASE ReadPending(w)
    <2>1. /\ Kept
          /\ pending[1].valid => GoodKept(w)
          /\ \A i \in DOMAIN pending' : i + 1 \in DOMAIN pending /\ pending'[i] = pending[i + 1]
      BY <1>5, ReadPendingKeeps
    <2>2. pending \in Seq(AllData) /\ pending # <<>>
      BY <1>5 DEF ReadPending, DataIInv, DataTypeOK
    <2>3. 1 \in DOMAIN pending
      BY <2>2
    <2>4. GoodStep
      BY <2>1, <2>3 DEF GoodBalance
    <2> QED  BY <1>2, <2>1, <2>4
  <1>6. CASE ReadNothing(w)
    <2>1. pending' = pending
      BY <1>6 DEF ReadNothing
    <2>2. Kept /\ GoodKept(w)
      BY <1>6, ReadNothingKeeps DEF BalancesKept
    <2> QED  BY <1>3, <2>1, <2>2
  <1>7. CASE ReadFrames(w)
    <2>1. Kept
      BY <1>7, ReadFramesKeeps
    <2>2. GoodStep
      BY <1>7, ReadFramesKeeps DEF GoodBalance
    <2> QED  BY <1>2, <2>1, <2>2
  <1>8. CASE HandleData(w)
    <2>1. pending' = pending
      BY <1>8 DEF HandleData
    <2>2. Kept /\ GoodKept(w)
      BY <1>8, HandleDataKeeps DEF BalancesKept
    <2> QED  BY <1>3, <2>1, <2>2
  <1>9. CASE HandleError(w)
    <2>1. pending' = pending
      BY <1>9 DEF HandleError
    <2>2. Kept /\ GoodKept(w)
      BY <1>9, HandleErrorKeeps DEF BalancesKept
    <2> QED  BY <1>3, <2>1, <2>2
  <1>10. CASE EndIteration(w)
    <2>1. pending' = pending
      BY <1>10 DEF EndIteration
    <2>2. Kept /\ GoodKept(w)
      BY <1>10, EndIterationKeeps DEF BalancesKept
    <2> QED  BY <1>3, <2>1, <2>2
  <1>11. CASE Add(w)
    <2>1. pending' = pending
      BY <1>11 DEF Add
    <2>2. Kept /\ GoodKept(w)
      BY <1>11, AddKeeps DEF BalancesKept
    <2> QED  BY <1>3, <2>1, <2>2
  <1>12. CASE publish_sensor_data(w)
    <2>1. pending' = pending
      BY <1>12 DEF publish_sensor_data
    <2>2. Kept /\ GoodKept(w)
      BY <1>12, PublishKeeps DEF BalancesKept
    <2> QED  BY <1>3, <2>1, <2>2
  <1>13. CASE Publishing(w)
    <2>1. pending' = pending
      BY <1>13 DEF Publishing
    <2>2. Kept /\ GoodKept(w)
      BY <1>13, PublishingKeeps DEF BalancesKept
    <2> QED  BY <1>3, <2>1, <2>2
  <1> QED
    BY <1>4, <1>5, <1>6, <1>7, <1>8, <1>9, <1>10, <1>11, <1>12, <1>13 DEF DataWorker

LEMMA DataStepKeeps ==
    ASSUME DataIInv, [DataNext]_allVars
    PROVE  /\ DataIInv'
           /\ CodecSound /\ GoodBalance => GoodBalance'
  <1>1. TcpIInv'
    BY DataStepPublishes, TcpNext DEF DataIInv
  <1>2. CASE \E w \in Workers : DataWorker(w)
    BY <1>1, <1>2, WorkerStepKeeps
  <1>3. ASSUME UNCHANGED <<pc, counted, stage, result, pending, todo, metrics, received>>,
               scrape' \in Seq(Nat), ScrapeSound'
        PROVE  /\ DataIInv'
               /\ CodecSound /\ GoodBalance => GoodBalance'
    <2>1. DataIInv'
      BY <1>1, <1>3, OtherThreadsKeep
    <2>2. OutcomeDue' = OutcomeDue
      BY <1>3 DEF OutcomeDue
    <2>3. SumsKept
      BY <1>3, SumsUntouched
    <2>4. GoodBalance => GoodBalance'
      BY <1>3, <2>2, <2>3 DEF GoodBalance, SumsKept, Total
    <2> QED  BY <2>1, <2>4
  <1>4. CASE render_prometheus
    <2>1. UNCHANGED <<pc, counted, stage, result, pending, todo, metrics, received>>
      BY <1>4 DEF render_prometheus, vars
    <2> QED  BY <1>3, <1>4, <2>1, RenderKeeps
  <1>5. CASE Shutdown \/ JoinWorkers \/ CloseConnection \/ (Finished /\ UNCHANGED dataVars)
                \/ UNCHANGED allVars
    <2>1. /\ UNCHANGED <<pc, counted, stage, result, pending, todo, metrics, received>>
          /\ scrape' = scrape \/ scrape' = <<>>
      BY <1>5 DEF Shutdown, JoinWorkers, CloseConnection, Finished, StopDevices, Join, disconnect,
         dataVars, allVars, vars
    <2>2. scrape' \in Seq(Nat) /\ ScrapeSound'
      <3>1. CASE scrape' = scrape
        BY <2>1, <3>1 DEF DataIInv, DataTypeOK, ScrapeSound, Causes
      <3>2. CASE scrape' = <<>>
        BY <3>2 DEF ScrapeSound
      <3> QED  BY <2>1, <3>1, <3>2
    <2> QED  BY <1>3, <2>1, <2>2
  <1> QED  BY <1>2, <1>4, <1>5 DEF DataNext

(* The inductive invariant of the data path: the three balances hold       *)
(* between any two steps of the workers' threads, the HTTP thread and      *)
(* main.                                                                   *)
THEOREM DataInvariance == DataSpec => []DataIInv
  <1>1. DataInit => DataIInv
    BY DataInitSound
  <1>2. DataIInv /\ [DataNext]_allVars => DataIInv'
    BY DataStepKeeps
  <1> QED  BY <1>1, <1>2, PTL DEF DataSpec

(* Nothing is due between two iterations.                                  *)
LEMMA NothingDue ==
    ASSUME DataIInv, Rest
    PROVE  /\ Total(CountDue) = 0 /\ Total(EndDue) = 0 /\ Total(OutcomeDue) = 0
           /\ \A w \in Workers : message[w] = None
  <1>1. \A w \in Workers : stage[w] = "loop" /\ DataLeft(w) = 0 /\ ErrorsLeft(w) = 0
    BY DEF Rest, DataLeft, ErrorsLeft
  <1>2. \A w \in Workers : CountDue[w] = 0 /\ EndDue[w] = 0 /\ OutcomeDue[w] = 0
    BY <1>1 DEF CountDue, EndDue, OutcomeDue, If
  <1>3. \A w \in Workers : pc[w] = "idle"
    BY <1>1 DEF DataIInv, WorkerSound
  <1> QED  BY <1>2, <1>3, DataPathAssumption DEF Total, DataIInv, TcpIInv, MessagesSound

(* EveryFrameCounted: for any readings, devices and messages, every frame  *)
(* and every fault of the three adapters is in exactly one counter of      *)
(* /metrics once handle_result() has returned.                             *)
THEOREM CountersComplete == DataSpec => []EveryFrameCounted
  <1>1. DataIInv => EveryFrameCounted
    <2> SUFFICES ASSUME DataIInv, Rest
                 PROVE  EveryFrameCounted
      BY DEF EveryFrameCounted
    <2>1. SumsNat /\ ReceivedNat
      BY SumsTypes DEF DataIInv, TcpIInv
    <2>2. FramesCounted = FramesReceived /\ Ended = EndsReceived
      BY <2>1, NothingDue DEF DataIInv, FramesBalance, EndsBalance, SumsNat
    <2>3. EndsReceived = received.frames + received.faults[Uart] + received.faults[Modbus]
                            + received.faults[Can]
      <3>1. /\ received.frames \in Nat /\ received.faults[Uart] \in Nat
            /\ received.faults[Modbus] \in Nat /\ received.faults[Can] \in Nat
        BY <2>1, DataPathAssumption DEF ReceivedNat
      <3> QED  BY <3>1 DEF EndsReceived, Total
    <2> QED  BY <2>2, <2>3 DEF EveryFrameCounted, FramesCounted, FramesReceived, Ended
  <1> QED  BY <1>1, DataInvariance, PTL

(* ScrapeExplained: whatever the workers add while render_prometheus()     *)
(* loads the counters one after the other, the response shows a cause for  *)
(* each invalid frame it shows.                                            *)
THEOREM ScrapesExplained == DataSpec => []ScrapeExplained
  <1>1. DataIInv => ScrapeExplained
    BY DEF DataIInv, ScrapeSound, ScrapeExplained, RenderOrder
  <1> QED  BY <1>1, DataInvariance, PTL

(* PublishedAsMeasured: if the codecs decode an undamaged frame to what    *)
(* the sensor measured, mark no other data valid, and so on (CodecSound),  *)
(* the three workers hand publish_sensor_data() nothing else.              *)
THEOREM OnlyMeasurements ==
    ASSUME CodecSound
    PROVE  DataSpec => []PublishedAsMeasured
  <1>1. DataIInv => PublishedAsMeasured
    <2> SUFFICES ASSUME DataIInv, NEW w \in Workers, message[w] # None
                 PROVE  /\ result[w].data.origin \in DataSheet
                        /\ result[w].data.value = result[w].data.origin
      BY DEF PublishedAsMeasured
    <2>1. pc[w] # "idle"
      BY DEF DataIInv, TcpIInv, MessagesSound
    <2>2. stage[w] = "publish"
      BY <2>1 DEF DataIInv, WorkerSound
    <2>3. /\ result[w] \in Results /\ result[w].data # None /\ result[w].data.valid
      BY <2>2 DEF DataIInv, DataTypeOK, WorkerSound
    <2>4. result[w].data \in AllData
      BY <2>3 DEF Results
    <2> QED  BY <2>3, <2>4 DEF CodecSound
  <1> QED  BY <1>1, DataInvariance, PTL

(* GoodFramesPublished: under the same promise of the codecs every         *)
(* undamaged frame in range is published exactly once, or still waits in   *)
(* pending_, and the TCP counters agree with the outcomes.                 *)
THEOREM GoodPublishedOnce ==
    ASSUME CodecSound
    PROVE  DataSpec => []GoodFramesPublished
  <1>1. DataInit => DataIInv /\ GoodBalance
    BY DataInitSound
  <1>2. DataIInv /\ GoodBalance /\ [DataNext]_allVars => DataIInv' /\ GoodBalance'
    BY DataStepKeeps
  <1>3. DataIInv /\ GoodBalance => GoodFramesPublished
    <2> SUFFICES ASSUME DataIInv, GoodBalance, Rest
                 PROVE  /\ GoodCounted = GoodReceived
                        /\ \A s \in {"Published", "Failed"} :
                              counted[s] = Cardinality({k \in Messages : outcome[k] = s})
      BY DEF GoodFramesPublished, GoodCounted, GoodReceived
    <2>1. SumsNat
      BY SumsTypes DEF DataIInv, TcpIInv
    <2>2. GoodCounted = GoodReceived
      BY <2>1, NothingDue DEF GoodBalance, SumsNat
    <2>3. ASSUME NEW s \in {"Published", "Failed"}
          PROVE  counted[s] = Cardinality({k \in Messages : outcome[k] = s})
      <3>1. Settled(s) = {k \in Messages : outcome[k] = s}
        BY NothingDue, TcpAssumption DEF Settled
      <3> QED  BY <3>1 DEF DataIInv, TcpIInv, CountedSound
    <2> QED  BY <2>2, <2>3
  <1> QED  BY <1>1, <1>2, <1>3, PTL DEF DataSpec

=============================================================================

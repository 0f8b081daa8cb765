------------------------- MODULE ModbusDeviceProofs -------------------------
(***************************************************************************)
(* Proofs about ModbusDevice, for every poll interval, timeout, latency,   *)
(* heartbeat window and length of a second that satisfy the assumptions    *)
(* there.                                                                  *)
(***************************************************************************)
EXTENDS ModbusDevice, TLAPS

(* Most leaves need SMT; each is tried again with more time where the      *)
(* first attempts find no proof.                                           *)
USE SMTT(15), SMTT(30), ZenonT(20), SMTT(60)

LEMMA Constants ==
    /\ PollInterval \in Nat \ {0} /\ ResponseTimeout \in Nat \ {0} /\ ReadTimeout \in Nat \ {0}
    /\ ReconnectInterval \in Nat \ {0} /\ Second \in Nat \ {0} /\ HeartbeatTimeout \in Nat \ {0}
    /\ Latency \in Nat /\ MaxPreempt \in Nat /\ MaxSteps \in Nat
  BY TimeAssumption

LEMMA MaxSilentNat == MaxSilent \in Nat
  <1>1. \A m, n \in Nat : m * n \in Nat
    OBVIOUS
  <1>2. HeartbeatTimeout + 1 + MaxSteps \in Nat /\ Second \in Nat
    BY Constants
  <1> QED  BY <1>1, <1>2 DEF MaxSilent

-----------------------------------------------------------------------------
(* Types.                                                                  *)

LEMMA TypeInit == Init => TypeOK
  <1> SUFFICES ASSUME Init PROVE TypeOK
    OBVIOUS
  <1>1. online \in BOOLEAN /\ healthy \in BOOLEAN
    BY ZenonT(60) DEF Init
  <1>2. /\ silent \in 0 .. MaxSilent /\ phase \in 0 .. (Second - 1) /\ lag \in 0 .. MaxPreempt
        /\ until_poll \in 0 .. PollInterval /\ until_deadline \in -1 .. ResponseTimeout
        /\ wake \in Nat /\ recorded \in 0 .. 1 /\ counted \in 0 .. 1 /\ steps \in 0 .. MaxSteps
    BY Constants, MaxSilentNat DEF Init
  <1> QED  BY <1>1, <1>2 DEF Init, TypeOK, None

LEMMA BooleansKept ==
    ASSUME online \in BOOLEAN, healthy \in BOOLEAN, [Next]_vars
    PROVE  online' \in BOOLEAN /\ healthy' \in BOOLEAN
  <1>1. CASE \/ Start \/ StartFails \/ SleepEnds \/ Wait \/ WaitEnds \/ Poll \/ Discard \/ Write
             \/ SetDeadline \/ Test \/ Remaining \/ ReadSome \/ PollTimeout \/ Handle
    BY <1>1, ZenonT(60) DEF Start, StartFails, SleepEnds, Wait, WaitEnds, Poll, Discard, Write,
       SetDeadline, Test, Remaining, ReadSome, PollTimeout, Handle
  <1>2. CASE NoData \/ Data \/ TransportFails
    BY <1>2, ZenonT(60) DEF NoData, Data, TransportFails
  <1>3. CASE Elapse \/ StepClock \/ UNCHANGED vars
    BY <1>3 DEF Elapse, Arrive, Lose, Tick, StepClock, vars, thread
  <1> QED  BY <1>1, <1>2, <1>3 DEF Next, Worker

LEMMA TypeKept ==
    ASSUME TypeOK, ErrorsSound, [Next]_vars
    PROVE  TypeOK'
  <1> DEFINE Rest ==
         /\ pc \in {"start", "sleep", "loop", "wait", "discard", "write", "deadline", "test",
                   "remaining", "poll", "finish", "handle"}
         /\ until_poll \in 0..PollInterval
         /\ until_deadline \in -1..ResponseTimeout
         /\ wake \in Nat \cup {Forever}
         /\ outcome \in {None, "Waited", "Data", "Timeout", "ProtocolError", "TransportError"}
         /\ lag \in 0..MaxPreempt /\ recorded \in 0..1 /\ counted \in 0..1
         /\ phase \in 0..(Second - 1) /\ silent \in 0..MaxSilent
         /\ steps \in 0..MaxSteps
  <1> SUFFICES Rest'
    BY BooleansKept DEF TypeOK
  <1>a. Rest
    BY DEF TypeOK
  <1> USE <1>a, Constants, MaxSilentNat DEF Forever, None, clock, thread
  <1>1. CASE Start
    <2>1. /\ pc' = "loop" /\ until_poll' = 0 /\ recorded' = 0 /\ counted' = 0 /\ outcome' = None
          /\ UNCHANGED <<until_deadline, wake, lag, phase, silent, steps>>
      BY <1>1 DEF Start
    <2> QED  BY <2>1
  <1>11. CASE StartFails
    BY <1>11 DEF StartFails
  <1>12. CASE SleepEnds
    BY <1>12 DEF SleepEnds
  <1>2. CASE Wait \/ WaitEnds
    BY <1>2 DEF Wait, WaitEnds, Return, Lower
  <1>3. CASE Poll \/ Discard \/ Write
    <2>1. CASE Poll
      <3>1. /\ pc' = "discard" /\ until_poll' = PollInterval /\ recorded' = 0 /\ counted' = 0
            /\ outcome' = None /\ lag' = 0
            /\ UNCHANGED <<until_deadline, wake, phase, silent, steps>>
        BY <2>1, ZenonT(60) DEF Poll
      <3> QED  BY <3>1
    <2>2. CASE Discard \/ Write
      <3>1. /\ pc' \in {"write", "deadline"}
            /\ UNCHANGED <<until_poll, until_deadline, wake, outcome, lag, recorded, counted,
                           phase, silent, steps>>
        BY <2>2, ZenonT(60) DEF Discard, Write
      <3> QED  BY <3>1
    <2> QED  BY <1>3, <2>1, <2>2
  <1>4. CASE SetDeadline \/ Test \/ Remaining
    BY <1>4 DEF SetDeadline, Test, Remaining
  <1>5. CASE ReadSome \/ PollTimeout
    BY <1>5, ZenonT(60) DEF ReadSome, PollTimeout
  <1>6. CASE NoData \/ Data \/ TransportFails
    <2>1. recorded = 0
      BY <1>6, ZenonT(60) DEF NoData, Data, TransportFails, ErrorsSound
    <2>2. /\ pc' = "handle" /\ recorded' \in {recorded, recorded + 1}
          /\ outcome' \in {"Data", "Timeout", "ProtocolError", "TransportError"}
          /\ silent' \in {silent, 0}
          /\ UNCHANGED <<until_poll, until_deadline, wake, lag, counted, phase, steps>>
      BY <1>6, ZenonT(60) DEF NoData, Data, TransportFails, Return
    <2> QED  BY <2>1, <2>2
  <1>7. CASE Handle
    BY <1>7 DEF Handle, LocalsEnd, ErrorsSound
  <1>8. CASE Arrive \/ Lose \/ StepClock
    <2>1. /\ UNCHANGED <<pc, until_poll, until_deadline, wake, outcome, lag, recorded, counted,
                         phase, silent>>
          /\ steps' = steps \/ (steps < MaxSteps /\ steps' = steps + 1)
      BY <1>8 DEF Arrive, Lose, StepClock
    <2> QED  BY <2>1
  <1>9. CASE Tick
    <2>1. (phase + 1) % Second \in 0 .. (Second - 1)
      OBVIOUS
    <2>2. /\ until_poll' \in 0 .. PollInterval /\ until_deadline' \in -1 .. ResponseTimeout
          /\ wake' \in Nat \cup {Forever}
      BY <1>9 DEF Tick
    <2>3. lag' \in 0 .. MaxPreempt
      BY <1>9 DEF Tick
    <2>4. silent' \in 0 .. MaxSilent
      BY <1>9 DEF Tick
    <2> QED  BY <1>9, <2>1, <2>2, <2>3, <2>4 DEF Tick
  <1>10. CASE UNCHANGED vars
    BY <1>10 DEF vars
  <1> QED
    BY <1>1, <1>2, <1>3, <1>4, <1>5, <1>6, <1>7, <1>8, <1>9, <1>10, <1>11, <1>12
    DEF Next, Worker, Elapse

-----------------------------------------------------------------------------
(* The errors recorded and counted.                                        *)

LEMMA ErrorsInit == Init => ErrorsSound
  BY DEF Init, ErrorsSound, None

LEMMA ErrorsKept ==
    ASSUME TypeOK, ErrorsSound, [Next]_vars
    PROVE  ErrorsSound'
  <1> USE DEF ErrorsSound, None
  <1>1. CASE Start \/ StartFails \/ SleepEnds
    BY <1>1 DEF Start, StartFails, SleepEnds
  <1>2. CASE Wait \/ WaitEnds
    BY <1>2 DEF Wait, WaitEnds, Return
  <1>3. CASE Poll \/ Discard \/ Write
    BY <1>3 DEF Poll, Discard, Write
  <1>4. CASE SetDeadline \/ Test \/ Remaining
    BY <1>4 DEF SetDeadline, Test, Remaining
  <1>5. CASE ReadSome \/ PollTimeout
    BY <1>5 DEF ReadSome, PollTimeout
  <1>6. CASE NoData
    <2>1. /\ counted' = 0 /\ recorded' = 1 /\ pc' = "handle"
          /\ outcome' = "Timeout" \/ outcome' = "ProtocolError"
      BY <1>6 DEF NoData, Return
    <2> QED  BY <2>1
  <1>10. CASE Data
    BY <1>10 DEF Data, Return
  <1>11. CASE TransportFails
    BY <1>11 DEF TransportFails, Return
  <1>7. CASE Handle
    BY <1>7 DEF Handle, LocalsEnd, TypeOK
  <1>8. CASE Arrive \/ Lose \/ StepClock \/ Tick
    BY <1>8 DEF Arrive, Lose, StepClock, Tick, thread
  <1>9. CASE UNCHANGED vars
    BY <1>9 DEF vars, thread
  <1> QED
    BY <1>1, <1>2, <1>3, <1>4, <1>5, <1>6, <1>7, <1>8, <1>9, <1>10, <1>11
    DEF Next, Worker, Elapse

-----------------------------------------------------------------------------
(* The pieces on the line and in the response.                             *)

LEMMA Element ==
    ASSUME NEW s \in Seq(Pieces), NEW i \in DOMAIN s
    PROVE  s[i] \in Pieces
  OBVIOUS

LEMMA PieceChanged ==
    ASSUME NEW p \in Pieces
    PROVE  /\ p.left \in Nat
           /\ [p EXCEPT !.of = "reopened"] \in Pieces
           /\ [p EXCEPT !.of = "reopened"].of = "reopened"
           /\ p.left > 0 => /\ [p EXCEPT !.left = @ - 1] \in Pieces
                            /\ [p EXCEPT !.left = @ - 1].of = p.of
                            /\ [p EXCEPT !.left = @ - 1].left = p.left - 1
  BY Constants DEF Pieces

LEMMA Mapped ==
    ASSUME NEW s \in Seq(Pieces), NEW t, t = [i \in DOMAIN s |-> t[i]],
           \A i \in DOMAIN s : t[i] \in Pieces
    PROVE  t \in Seq(Pieces) /\ DOMAIN t = DOMAIN s
  OBVIOUS

(* The pieces of an answer.                                                *)
LEMMA AnswerPieces ==
    ASSUME NEW answer \in Answers,
           NEW a, a = [i \in DOMAIN answer |->
                         [part |-> answer[i], of |-> "this", left |-> Latency]]
    PROVE  /\ a \in Seq(Pieces)
           /\ \A i \in DOMAIN a : a[i].of = "this" /\ a[i].left = Latency
           /\ answer = <<>> => a = <<>>
  <1>1. \A i \in DOMAIN answer : [part |-> answer[i], of |-> "this", left |-> Latency] \in Pieces
    BY Constants DEF Answers, Pieces
  <1>2. Len(answer) \in Nat /\ DOMAIN answer = 1 .. Len(answer)
    BY DEF Answers
  <1> QED  BY <1>1, <1>2

LEMMA LineInit == Init => LineSound
  BY DEF Init, LineSound

(* Earlier() changes only pieces of the request before.                   *)
LEMMA EarlierAlready ==
    ASSUME NEW s \in Seq(Pieces), \A i \in DOMAIN s : s[i].of # "this"
    PROVE  [i \in DOMAIN s |-> Earlier(s[i])] = s
  <1>1. \A i \in DOMAIN s : Earlier(s[i]) = s[i]
    BY DEF Earlier
  <1>2. s = [i \in DOMAIN s |-> s[i]]
    OBVIOUS
  <1> QED  BY <1>1, <1>2, ZenonT(60)

LEMMA WriteKeeps ==
    ASSUME IInv, Write
    PROVE  LineSound'
  <1> USE DEF IInv
  <1>1. PICK answer \in Answers :
           /\ coming # <<>> => answer = <<>>
           /\ coming' = [i \in DOMAIN coming |-> Earlier(coming[i])]
                          \o [i \in DOMAIN answer |->
                                [part |-> answer[i], of |-> "this", left |-> Latency]]
    <2>1. <<>> \in Answers
      BY DEF Answers
    <2> QED  BY <2>1, ZenonT(60) DEF Write
  <1>2. PICK a : a = [i \in DOMAIN answer |->
                        [part |-> answer[i], of |-> "this", left |-> Latency]]
    BY ZenonT(60)
  <1>3. [i \in DOMAIN coming |-> Earlier(coming[i])] = coming
    <2>1. coming \in Seq(Pieces) /\ \A i \in DOMAIN coming : coming[i].of # "this"
      BY ZenonT(60) DEF Write, LineSound
    <2> QED  BY <2>1, EarlierAlready
  <1>4. line' = line
    <2>1. line \in Seq(Pieces) /\ \A i \in DOMAIN line : line[i].of # "this"
      BY ZenonT(60) DEF Write, LineSound
    <2>2. line' = [i \in DOMAIN line |-> Earlier(line[i])]
      BY ZenonT(60) DEF Write
    <2> QED  BY <2>1, <2>2, EarlierAlready
  <1>5. coming' = coming \o a
    BY <1>1, <1>2, <1>3, ZenonT(60)
  <1>6. /\ a \in Seq(Pieces)
        /\ \A i \in DOMAIN a : a[i].of = "this" /\ a[i].left = Latency
        /\ answer = <<>> => a = <<>>
    BY <1>2, AnswerPieces
  <1>7. coming' = coming \/ coming' = a
    <2>1. coming \in Seq(Pieces)
      BY DEF LineSound
    <2>2. coming = <<>> => coming \o a = a
      BY <1>6, <2>1
    <2>3. a = <<>> => coming \o a = coming
      BY <1>6, <2>1
    <2> QED  BY <1>1, <1>5, <1>6, <2>2, <2>3, ZenonT(60)
  <1>8. Latency < until_poll
    BY LatencyAssumption, Constants DEF Write, LineSound, TypeOK
  <1> QED  BY <1>4, <1>6, <1>7, <1>8, ZenonT(60) DEF Write, LineSound

LEMMA TickKeepsLine ==
    ASSUME IInv, Tick
    PROVE  LineSound'
  <1> USE DEF IInv
  <1>1. /\ coming' = [i \in DOMAIN coming |-> [coming[i] EXCEPT !.left = @ - 1]]
        /\ \A i \in DOMAIN coming : coming[i].left > 0
        /\ UNCHANGED <<pc, response, line>>
        /\ coming \in Seq(Pieces)
    BY DEF Tick, LineSound
  <1>2. \A i \in DOMAIN coming :
           /\ coming'[i] \in Pieces /\ coming'[i].of = coming[i].of
           /\ coming'[i].left = coming[i].left - 1
    BY <1>1, Element, PieceChanged, ZenonT(60)
  <1>3. coming' \in Seq(Pieces) /\ DOMAIN coming' = DOMAIN coming
    <2>1. coming' = [i \in DOMAIN coming |-> coming'[i]]
      BY <1>1
    <2>2. coming \in Seq(Pieces) /\ \A i \in DOMAIN coming : coming'[i] \in Pieces
      BY <1>1, <1>2, ZenonT(60)
    <2> QED  BY <2>1, <2>2, Mapped
  <1>4. \A i \in DOMAIN coming : coming'[i].of = "this" => coming'[i].left < until_poll'
    <2> SUFFICES ASSUME NEW i \in DOMAIN coming, coming'[i].of = "this"
                 PROVE  coming'[i].left < until_poll'
      OBVIOUS
    <2>1. coming[i].left < until_poll /\ coming[i].left > 0
      BY <1>1, <1>2, ZenonT(60) DEF LineSound
    <2>2. coming[i].left \in Nat /\ until_poll \in Nat
      <3>1. coming[i].left \in Nat
        BY <1>1, Element, PieceChanged, ZenonT(60)
      <3>2. until_poll \in Nat
        BY Constants DEF TypeOK
      <3> QED  BY <3>1, <3>2
    <2>3. until_poll' = until_poll - 1
      BY <2>1, <2>2 DEF Tick
    <2> QED  BY <1>2, <2>1, <2>2, <2>3
  <1>5. pc \in {"discard", "write"} => until_poll' + lag' >= PollInterval
    <2> SUFFICES ASSUME pc \in {"discard", "write"} PROVE until_poll' + lag' >= PollInterval
      OBVIOUS
    <2>1. until_poll \in Nat /\ lag \in Nat /\ PollInterval \in Nat
      BY Constants DEF TypeOK
    <2>2. until_poll + lag >= PollInterval
      BY DEF LineSound
    <2>3. ~Blocked
      BY DEF Blocked
    <2>4. lag' = lag + 1 /\ until_poll' = IF until_poll > 0 THEN until_poll - 1 ELSE 0
      BY <2>3 DEF Tick
    <2> QED  BY <2>1, <2>2, <2>4
  <1> QED  BY <1>1, <1>2, <1>3, <1>4, <1>5, ZenonT(60) DEF LineSound

LEMMA LineKept ==
    ASSUME IInv, [Next]_vars
    PROVE  LineSound'
  <1> USE DEF IInv
  <1>1. CASE Start
    <2>1. /\ coming' = [i \in DOMAIN coming |-> [coming[i] EXCEPT !.of = "reopened"]]
          /\ line' = <<>> /\ response' = response /\ pc' = "loop"
      BY <1>1 DEF Start
    <2>2. \A i \in DOMAIN coming : coming'[i] \in Pieces /\ coming'[i].of = "reopened"
      BY <2>1, Element, PieceChanged, ZenonT(60) DEF LineSound
    <2>3. coming' \in Seq(Pieces) /\ DOMAIN coming' = DOMAIN coming
      BY <2>1, <2>2, Mapped DEF LineSound
    <2> QED  BY <2>1, <2>2, <2>3 DEF LineSound
  <1>2. CASE \/ StartFails \/ SleepEnds \/ Wait \/ WaitEnds \/ SetDeadline \/ Test \/ Remaining
             \/ PollTimeout \/ NoData \/ Data \/ TransportFails \/ StepClock \/ UNCHANGED vars
    <2>1. /\ UNCHANGED <<line, coming, response, until_poll, lag>>
          /\ pc' = pc \/ pc' \notin {"discard", "write"}
      BY <1>2, ZenonT(60) DEF StartFails, SleepEnds, Wait, WaitEnds, SetDeadline, Test, Remaining,
         PollTimeout, NoData, Data, TransportFails, StepClock, Return, vars, thread
    <2> QED  BY <2>1 DEF LineSound
  <1>3. CASE Handle
    <2>1. /\ UNCHANGED <<line, coming, until_poll, lag>> /\ response' = <<>>
          /\ pc' \notin {"discard", "write"}
      BY <1>3 DEF Handle, LocalsEnd
    <2> QED  BY <2>1 DEF LineSound
  <1>4. CASE Poll
    <2>1. ASSUME NEW i \in DOMAIN coming PROVE coming[i].of # "this"
      <3>1. coming[i].left \in Nat /\ until_poll = 0
        BY <1>4, Element, PieceChanged, ZenonT(60) DEF Poll, LineSound
      <3>2. coming[i].of = "this" => coming[i].left < until_poll
        BY DEF LineSound
      <3> QED  BY <3>1, <3>2
    <2>2. /\ UNCHANGED <<line, coming, response>> /\ pc' = "discard"
          /\ until_poll' = PollInterval /\ lag' = 0
      BY <1>4 DEF Poll
    <2> QED  BY <2>1, <2>2, Constants DEF LineSound
  <1>5. CASE Discard
    BY <1>5 DEF Discard, LineSound
  <1>6. CASE Write
    BY <1>6, WriteKeeps
  <1>7. CASE ReadSome
    BY <1>7 DEF ReadSome, LineSound
  <1>8. CASE Arrive
    <2>1. /\ coming \in Seq(Pieces) /\ coming # <<>> /\ line \in Seq(Pieces)
          /\ line' = Append(line, Head(coming)) /\ coming' = Tail(coming)
          /\ UNCHANGED <<pc, response, until_poll, lag>>
      BY <1>8 DEF Arrive, LineSound, thread
    <2>2. /\ Head(coming) = coming[1] /\ 1 \in DOMAIN coming /\ coming[1] \in Pieces
          /\ coming' \in Seq(Pieces)
          /\ \A i \in DOMAIN coming' : i + 1 \in DOMAIN coming /\ coming'[i] = coming[i + 1]
      BY <2>1
    <2>3. /\ line' \in Seq(Pieces)
          /\ \A i \in DOMAIN line' : line'[i] = coming[1] \/ (i \in DOMAIN line /\ line'[i] = line[i])
      BY <2>1, <2>2
    <2> QED  BY <2>1, <2>2, <2>3 DEF LineSound
  <1>9. CASE Lose
    BY <1>9 DEF Lose, LineSound, thread
  <1>10. CASE Tick
    BY <1>10, TickKeepsLine
  <1> QED
    BY <1>1, <1>2, <1>3, <1>4, <1>5, <1>6, <1>7, <1>8, <1>9, <1>10 DEF Next, Worker, Elapse

-----------------------------------------------------------------------------
(* The age of the last update.                                             *)

LEMMA PhaseStep ==
    ASSUME NEW n \in Nat \ {0}, NEW p \in 0 .. (n - 1)
    PROVE  (p + 1) % n = IF p + 1 = n THEN 0 ELSE p + 1
  <1>1. CASE p + 1 = n
    <2>1. n % n = 0
      OBVIOUS
    <2> QED  BY <1>1, <2>1
  <1>2. CASE p + 1 # n
    <2>1. \A k \in 0 .. (n - 1) : k % n = k
      OBVIOUS
    <2> QED  BY <1>2, <2>1
  <1> QED  BY <1>1, <1>2

LEMMA ElapsedSteps ==
    ASSUME NEW a \in Int, NEW s \in Int, NEW n \in Nat
    PROVE  /\ (a - s) * n \in Int /\ (a + 1 - s) * n = (a - s) * n + n
           /\ (a + 1 - (s + 1)) * n = (a - s) * n /\ (a + (-1) - (s + (-1))) * n = (a - s) * n
  <1>1. a + 1 - s = (a - s) + 1 /\ a + 1 - (s + 1) = a - s /\ a + (-1) - (s + (-1)) = a - s
    OBVIOUS
  <1>2. \A x \in Int : x * n \in Int /\ (x + 1) * n = x * n + n
    OBVIOUS
  <1> QED  BY <1>1, <1>2

LEMMA AgeStep ==
    ASSUME NEW n \in Nat \ {0}, NEW e \in Int, NEW f \in Int, NEW s \in Nat,
           NEW p \in 0 .. (n - 1), NEW q \in 0 .. (n - 1),
           f + q = e + p + 1, e + p - s \in 0 .. (n - 1)
    PROVE  f + q - (s + 1) \in 0 .. (n - 1) /\ f - (s + 1) \in (1 - n) .. (n - 1)
  OBVIOUS

LEMMA AgeInit == Init => AgeSound
  <1> SUFFICES ASSUME Init PROVE AgeSound
    OBVIOUS
  <1>1. Elapsed = 0
    BY Constants DEF Init, Elapsed
  <1>2. age = 0 /\ shift = 0 /\ silent = 0 /\ phase \in 0 .. (Second - 1)
    BY DEF Init
  <1> QED  BY <1>1, <1>2, Constants DEF AgeSound

LEMMA TickKeepsAge ==
    ASSUME IInv, Tick
    PROVE  AgeSound'
  <1> USE DEF IInv
  <1>1. /\ Second \in Nat \ {0} /\ phase \in 0 .. (Second - 1) /\ silent \in Nat /\ MaxSilent \in Nat
        /\ silent <= MaxSilent /\ age \in Int /\ shift \in Int /\ shift' = shift
    BY Constants, MaxSilentNat DEF TypeOK, AgeSound, Tick
  <1>2. phase' = IF phase + 1 = Second THEN 0 ELSE phase + 1
    BY <1>1, PhaseStep DEF Tick
  <1>3. Elapsed \in Int
    BY <1>1, ElapsedSteps DEF Elapsed
  <1>4. CASE silent < MaxSilent
    <2>1. silent' = silent + 1 /\ age' = IF phase + 1 = Second THEN age + 1 ELSE age
      BY <1>1, <1>2, <1>4 DEF Tick
    <2>2. age' \in Int /\ Elapsed' = IF phase + 1 = Second THEN Elapsed + Second ELSE Elapsed
      BY <1>1, <2>1, ElapsedSteps DEF Elapsed
    <2>3. Elapsed + phase - silent \in 0 .. (Second - 1)
      BY <1>4 DEF AgeSound
    <2>4. phase' \in 0 .. (Second - 1)
      BY <1>1, <1>2
    <2>5. Elapsed' \in Int /\ Elapsed' + phase' = Elapsed + phase + 1
      BY <1>1, <1>2, <1>3, <2>2
    <2>6. /\ Elapsed' + phase' - (silent + 1) \in 0 .. (Second - 1)
          /\ Elapsed' - (silent + 1) \in (1 - Second) .. (Second - 1)
      <3> HIDE DEF IInv
      <3> QED  BY <1>1, <1>3, <2>3, <2>4, <2>5, AgeStep, ZenonT(60)
    <2>7. (age \in Int)' /\ (shift \in Int)'
      BY <1>1, <2>2
    <2> QED  BY <2>1, <2>6, <2>7 DEF AgeSound
  <1>5. CASE ~(silent < MaxSilent)
    <2>1. UNCHANGED <<silent, age, shift>>
      BY <1>5 DEF Tick
    <2>2. UNCHANGED <<Elapsed, MaxSilent>>
      BY <2>1 DEF Elapsed, MaxSilent
    <2> QED  BY <1>5, <2>1, <2>2 DEF AgeSound
  <1> QED  BY <1>4, <1>5

LEMMA AgeKept ==
    ASSUME IInv, [Next]_vars
    PROVE  AgeSound'
  <1> USE DEF IInv
  <1>1. CASE UNCHANGED clock
    BY <1>1 DEF clock, AgeSound, Elapsed, MaxSilent
  <1>2. CASE Data
    <2>1. age' = 0 /\ shift' = 0 /\ silent' = 0 /\ phase' = phase
      BY <1>2 DEF Data
    <2>2. Elapsed' = 0
      BY <2>1, Constants DEF Elapsed
    <2> QED  BY <2>1, <2>2, Constants DEF AgeSound, TypeOK
  <1>3. CASE Tick
    BY <1>3, TickKeepsAge
  <1>4. CASE StepClock
    <2>1. PICK d \in {-1, 1} : age' = age + d /\ shift' = shift + d
      BY <1>4 DEF StepClock
    <2>2. age \in Int /\ shift \in Int /\ Second \in Nat
      BY Constants DEF AgeSound
    <2>3. Elapsed' = Elapsed
      <3>1. CASE d = 1
        BY <2>1, <2>2, <3>1, ElapsedSteps DEF Elapsed
      <3>2. CASE d = -1
        BY <2>1, <2>2, <3>2, ElapsedSteps DEF Elapsed
      <3> QED  BY <3>1, <3>2
    <2>4. age' \in Int /\ shift' \in Int
      BY <2>1, <2>2
    <2>5. UNCHANGED <<silent, phase>>
      BY <1>4 DEF StepClock
    <2> QED  BY <2>3, <2>4, <2>5 DEF AgeSound, MaxSilent
  <1>5. CASE \/ Start \/ StartFails \/ SleepEnds \/ Wait \/ WaitEnds \/ Poll \/ Discard \/ Write
             \/ SetDeadline \/ Test \/ Remaining \/ ReadSome \/ PollTimeout \/ NoData \/ Handle
             \/ TransportFails \/ Arrive \/ Lose \/ UNCHANGED vars
    <2>1. UNCHANGED clock
      BY <1>5, ZenonT(60) DEF Start, StartFails, SleepEnds, Wait, WaitEnds, Poll, Discard, Write,
         SetDeadline, Test, Remaining, ReadSome, PollTimeout, NoData, Handle,
         TransportFails, Arrive, Lose, vars
    <2> QED  BY <1>1, <2>1
  <1> QED  BY <1>2, <1>3, <1>4, <1>5 DEF Next, Worker, Elapse

-----------------------------------------------------------------------------
(* The inductive invariant and the theorems.                               *)

(* The inductive invariant holds for all timings.                          *)
THEOREM Invariance == Spec => []IInv
  <1>1. Init => IInv
    BY TypeInit, LineInit, ErrorsInit, AgeInit DEF IInv
  <1>2. IInv /\ [Next]_vars => IInv'
    BY TypeKept, LineKept, ErrorsKept, AgeKept DEF IInv
  <1> QED  BY <1>1, <1>2, PTL DEF Spec

(* AnswersOwnRequest: for all intervals, timeouts and latencies, read()    *)
(* never takes a late answer to an earlier request for the answer to this  *)
(* one.                                                                    *)
THEOREM OwnAnswers == Spec => []AnswersOwnRequest
  <1>1. IInv => AnswersOwnRequest
    <2> SUFFICES ASSUME IInv, NEW i \in DOMAIN response PROVE response[i].of # "earlier"
      BY DEF AnswersOwnRequest
    <2>1. response[i] \in Pieces
      BY Element DEF IInv, LineSound
    <2> QED  BY <2>1 DEF Pieces
  <1> QED  BY <1>1, Invariance, PTL

(* ErrorsCounted: in every iteration of run_device() the counter of        *)
(* /metrics gets what error_count of the status gets.                      *)
THEOREM NoErrorMissed == Spec => []ErrorsCounted
  <1>1. IInv => ErrorsCounted
    BY DEF IInv, TypeOK, ErrorsSound, ErrorsCounted
  <1> QED  BY <1>1, Invariance, PTL

LEMMA Products ==
    ASSUME NEW x \in Int, NEW y \in Int, NEW n \in Nat \ {0}
    PROVE  /\ x * n \in Int /\ y * n \in Int
           /\ (x + 1) * n = x * n + n
           /\ x <= y => x * n <= y * n
  OBVIOUS

(* StaleShownOffline: for every window and every second, statuses() shows  *)
(* a device offline that has been silent for longer than the window.       *)
THEOREM StaleOffline == Spec => []StaleShownOffline
  <1>1. IInv => StaleShownOffline
    <2> SUFFICES ASSUME IInv, silent >= (HeartbeatTimeout + 1 - shift) * Second,
                        age <= HeartbeatTimeout
                 PROVE  FALSE
      BY Constants DEF StaleShownOffline, ShownOnline, IInv, AgeSound
    <2>1. /\ age \in Int /\ shift \in Int /\ Second \in Nat \ {0} /\ HeartbeatTimeout \in Nat
          /\ silent \in Nat
      BY Constants, MaxSilentNat DEF IInv, AgeSound, TypeOK
    <2>2. PICK x \in Int : x = HeartbeatTimeout - shift
      BY <2>1
    <2>3. PICK y \in Int : y = age - shift
      BY <2>1
    <2>4. y <= x /\ HeartbeatTimeout + 1 - shift = x + 1
      BY <2>1, <2>2, <2>3
    <2>5. silent >= (x + 1) * Second /\ y * Second - silent >= 1 - Second
      <3>1. y * Second - silent \in (1 - Second) .. (Second - 1)
        BY <2>3 DEF IInv, AgeSound, Elapsed
      <3> QED  BY <2>1, <2>4, <3>1, Products
    <2>6. /\ x * Second \in Int /\ y * Second \in Int /\ (x + 1) * Second = x * Second + Second
          /\ y * Second <= x * Second
      BY <2>1, <2>4, Products
    <2> QED  BY <2>1, <2>5, <2>6
  <1> QED  BY <1>1, Invariance, PTL

-----------------------------------------------------------------------------
(* A device that answers.  A worker that polls without a timeout may wait  *)
(* for ever with the status of its last update: the argument needs         *)
(* TimedPoll.                                                              *)

LEMMA Numbers ==
    ASSUME TypeOK
    PROVE  /\ silent \in Nat /\ until_poll \in Nat /\ until_poll <= PollInterval
           /\ lag \in Nat /\ lag <= MaxPreempt
           /\ until_deadline \in Int /\ until_deadline <= ResponseTimeout
           /\ wake \in Int
  BY Constants, MaxSilentNat DEF TypeOK, Forever

LEMMA Looser ==
    ASSUME NEW x \in Nat, NEW y \in Nat, NEW l \in Nat, x + y <= PollInterval + l
           \/ x <= PollInterval + MaxPreempt + l
    PROVE  x <= PollInterval + MaxPreempt + ResponseTimeout + l
  BY Constants

LEMMA HealthInit == Init => HealthSound
  BY DEF Init, HealthSound

LEMMA TickKeepsHealth ==
    ASSUME IInv, HealthSound, TimedPoll, Tick
    PROVE  HealthSound'
  <1> USE Constants
  <1>1. TypeOK /\ wake \in Nat
    BY DEF IInv, TypeOK, TimedPoll
  <1>2. /\ silent \in Nat /\ until_poll \in Nat /\ until_poll <= PollInterval
        /\ lag \in Nat /\ lag <= MaxPreempt
        /\ until_deadline \in Int /\ until_deadline <= ResponseTimeout /\ until_deadline >= -1
    BY <1>1, Numbers DEF TypeOK
  <1>3. /\ until_poll' = IF until_poll > 0 THEN until_poll - 1 ELSE 0
        /\ until_deadline' = IF until_deadline >= 0 THEN until_deadline - 1 ELSE -1
        /\ wake' = IF wake > 0 THEN wake - 1 ELSE wake
        /\ UNCHANGED <<pc, outcome, online, healthy>>
    BY DEF Tick
  <1>4. silent' \in {silent, silent + 1}
    BY DEF Tick
  <1>5. /\ Blocked => lag' = lag
        /\ ~Blocked => lag' = lag + 1 /\ lag + 1 <= MaxPreempt
    BY <1>2 DEF Tick
  <1>6. pc = "wait" => 0 <= wake' /\ wake' <= until_poll'
    BY <1>1, <1>2, <1>3 DEF HealthSound
  <1>7. pc = "poll" /\ wake' > 0 => wake' <= until_deadline'
    BY <1>1, <1>2, <1>3 DEF HealthSound
  <1>8. ASSUME healthy, pc \in {"handle", "loop", "wait"}
        PROVE  /\ silent' + until_poll' <= PollInterval + lag'
               /\ silent' <= PollInterval + MaxPreempt + ResponseTimeout + lag'
    <2>1. silent + until_poll <= PollInterval + lag
      BY <1>8 DEF HealthSound
    <2>2. Blocked => until_poll > 0
      BY <1>1, <1>2, <1>8 DEF Blocked, HealthSound
    <2>3. silent' + until_poll' <= PollInterval + lag'
      BY <1>2, <1>3, <1>4, <1>5, <2>1, <2>2
    <2>4. silent' \in Nat /\ until_poll' \in Nat /\ lag' \in Nat
      BY <1>2, <1>3, <1>4, <1>5
    <2> QED  BY <2>3, <2>4, Looser, ZenonT(60)
  <1>9. ASSUME healthy, pc \in {"discard", "write", "deadline"}
        PROVE  /\ silent' <= PollInterval + MaxPreempt + lag'
               /\ silent' <= PollInterval + MaxPreempt + ResponseTimeout + lag'
    <2>1. silent <= PollInterval + MaxPreempt + lag
      BY <1>9 DEF HealthSound
    <2>2. ~Blocked
      BY <1>9 DEF Blocked
    <2>3. silent' <= PollInterval + MaxPreempt + lag'
      BY <1>2, <1>4, <1>5, <2>1, <2>2
    <2>4. silent' \in Nat /\ lag' \in Nat
      BY <1>2, <1>4, <1>5
    <2> QED  BY <2>3, <2>4, Looser, ZenonT(60)
  <1>10. ASSUME healthy, pc \in {"test", "remaining", "poll", "finish"}
         PROVE  /\ silent' + until_deadline' <= PollInterval + MaxPreempt + ResponseTimeout + lag'
                /\ silent' <= PollInterval + MaxPreempt + ResponseTimeout + lag'
    <2>1. /\ silent + until_deadline <= PollInterval + MaxPreempt + ResponseTimeout + lag
          /\ silent <= PollInterval + MaxPreempt + ResponseTimeout + lag
      BY <1>10 DEF HealthSound
    <2>2. Blocked => until_deadline > 0
      BY <1>1, <1>2, <1>10 DEF Blocked, HealthSound
    <2> QED  BY <1>2, <1>3, <1>4, <1>5, <2>1, <2>2
  <1>11. /\ healthy => online /\ pc \notin {"start", "sleep"}
         /\ healthy /\ pc = "handle" => outcome # "TransportError"
    BY DEF HealthSound
  <1>12. pc \in {"start", "sleep", "loop", "wait", "discard", "write", "deadline", "test",
                 "remaining", "poll", "finish", "handle"}
    BY <1>1 DEF TypeOK
  <1> QED  BY <1>3, <1>6, <1>7, <1>8, <1>9, <1>10, <1>11, <1>12 DEF HealthSound

LEMMA HealthKept ==
    ASSUME IInv, HealthSound, TimedPoll, [Next]_vars
    PROVE  HealthSound'
  <1> USE Constants
  <1>1. TypeOK /\ wake \in Nat
    BY DEF IInv, TypeOK, TimedPoll
  <1>2. /\ silent \in Nat /\ until_poll \in Nat /\ until_poll <= PollInterval
        /\ lag \in Nat /\ lag <= MaxPreempt
        /\ until_deadline \in Int /\ until_deadline <= ResponseTimeout
    BY <1>1, Numbers
  <1>3. CASE Start \/ StartFails \/ SleepEnds \/ TransportFails \/ NoData
    <2>1. ~healthy' /\ pc' \notin {"wait", "poll"}
      <3>1. CASE Start \/ StartFails \/ SleepEnds
        <4>1. healthy' = healthy /\ pc' \notin {"wait", "poll"} /\ pc \in {"start", "sleep"}
          BY <3>1 DEF Start, StartFails, SleepEnds
        <4> QED  BY <4>1 DEF HealthSound
      <3>2. CASE TransportFails
        BY <3>2 DEF TransportFails, Return
      <3>3. CASE NoData
        BY <3>3 DEF NoData, Return
      <3> QED  BY <1>3, <3>1, <3>2, <3>3
    <2> QED  BY <2>1 DEF HealthSound
  <1>4. CASE Wait
    <2>1. 0 <= wake' /\ wake' <= until_poll
      BY <1>2, <1>4 DEF Wait, Lower
    <2> QED  BY <1>4, <2>1 DEF Wait, HealthSound, clock
  <1>5. CASE WaitEnds
    BY <1>5 DEF WaitEnds, Return, HealthSound, clock
  <1>6. CASE Poll
    <2>1. /\ pc' = "discard" /\ lag' = 0 /\ UNCHANGED <<silent, healthy, online>>
          /\ healthy => online /\ silent <= PollInterval + lag
      BY <1>2, <1>6 DEF Poll, HealthSound, clock
    <2> QED  BY <1>2, <2>1 DEF HealthSound
  <1>7. CASE Discard \/ Write
    BY <1>7 DEF Discard, Write, HealthSound, clock
  <1>8. CASE SetDeadline
    <2>1. /\ pc' = "test" /\ until_deadline' = ResponseTimeout
          /\ UNCHANGED <<silent, healthy, online, lag>>
          /\ healthy => /\ online /\ silent <= PollInterval + MaxPreempt + lag
                        /\ silent <= PollInterval + MaxPreempt + ResponseTimeout + lag
      BY <1>8 DEF SetDeadline, HealthSound, clock
    <2> QED  BY <1>2, <2>1 DEF HealthSound
  <1>9. CASE Test \/ ReadSome \/ PollTimeout
    <2>1. /\ pc \in {"test", "poll"} /\ pc' \in {"test", "remaining", "finish"}
          /\ UNCHANGED <<silent, healthy, online, lag, until_deadline>>
      BY <1>9 DEF Test, ReadSome, PollTimeout, clock
    <2> QED  BY <2>1 DEF HealthSound
  <1>10. CASE Remaining
    <2>1. /\ pc = "remaining" /\ pc' = "poll"
          /\ wake' = IF until_deadline < 0 THEN Forever ELSE until_deadline
          /\ UNCHANGED <<silent, healthy, online, lag, until_deadline>>
      BY <1>10 DEF Remaining, clock
    <2>2. wake' > 0 => wake' <= until_deadline'
      BY <1>2, <2>1 DEF Forever
    <2> QED  BY <2>1, <2>2 DEF HealthSound
  <1>11. CASE Data
    <2>1. /\ pc' = "handle" /\ outcome' = "Data" /\ online' = TRUE /\ silent' = 0
          /\ UNCHANGED <<until_poll, lag>>
      BY <1>11 DEF Data, Return
    <2> QED  BY <1>2, <2>1 DEF HealthSound
  <1>12. CASE Handle
    <2>1. /\ pc = "handle" /\ pc' \in {"start", "loop"}
          /\ outcome # "TransportError" => pc' = "loop"
          /\ UNCHANGED <<silent, healthy, online, lag, until_poll, outcome>>
      BY <1>12 DEF Handle, clock
    <2> QED  BY <2>1 DEF HealthSound
  <1>13. CASE Arrive \/ Lose \/ StepClock \/ UNCHANGED vars
    BY <1>13 DEF Arrive, Lose, StepClock, vars, thread, clock, HealthSound
  <1>14. CASE Tick
    BY <1>14, TickKeepsHealth
  <1> QED
    BY <1>3, <1>4, <1>5, <1>6, <1>7, <1>8, <1>9, <1>10, <1>11, <1>12, <1>13, <1>14
    DEF Next, Worker, Elapse

LEMMA HealthShown ==
    ASSUME IInv, HealthSound
    PROVE  HealthyShownOnline
  <1> SUFFICES ASSUME healthy, shift <= 0 PROVE online /\ ~(age > HeartbeatTimeout)
    BY DEF HealthyShownOnline, ShownOnline
  <1>1. /\ age \in Int /\ shift \in Int /\ Second \in Nat \ {0} /\ HeartbeatTimeout \in Nat
        /\ silent \in Nat /\ lag \in Nat /\ lag <= MaxPreempt
    BY Constants, Numbers DEF IInv, AgeSound
  <1>2. silent <= HeartbeatTimeout * Second
    <2>1. HeartbeatTimeout * Second \in Int
      BY <1>1, Products
    <2>2. silent <= PollInterval + ResponseTimeout + 2 * MaxPreempt
      <3>1. silent <= PollInterval + MaxPreempt + ResponseTimeout + lag
        BY DEF HealthSound
      <3> QED  BY <1>1, <3>1, Constants
    <2> QED  BY <1>1, <2>1, <2>2, HeartbeatAssumption, Constants
  <1>3. PICK y \in Int : y = age - shift
    BY <1>1
  <1>4. y * Second - silent <= Second - 1
    <2>1. y * Second - silent \in (1 - Second) .. (Second - 1)
      BY <1>3 DEF IInv, AgeSound, Elapsed
    <2> QED  BY <1>1, <2>1, Products
  <1>5. y <= HeartbeatTimeout
    <2> SUFFICES ASSUME HeartbeatTimeout + 1 <= y PROVE FALSE
      BY <1>1
    <2>1. (HeartbeatTimeout + 1) * Second <= y * Second
      BY <1>1, Products
    <2>2. /\ HeartbeatTimeout * Second \in Int /\ y * Second \in Int
          /\ (HeartbeatTimeout + 1) * Second = HeartbeatTimeout * Second + Second
      BY <1>1, Products
    <2> QED  BY <1>1, <1>2, <1>4, <2>1, <2>2
  <1>6. online
    BY DEF HealthSound
  <1> QED  BY <1>1, <1>3, <1>5, <1>6

(* HealthyShownOnline, for every timing and every length of a preemption:  *)
(* statuses() shows a device online that answers every poll, as long as    *)
(* its worker does not poll without a timeout.                             *)
THEOREM HealthyWhileTimed == Spec /\ []TimedPoll => []HealthyShownOnline
  <1>1. Init => HealthSound
    BY HealthInit
  <1>2. IInv /\ HealthSound /\ TimedPoll /\ [Next]_vars => HealthSound'
    BY HealthKept
  <1>3. IInv /\ HealthSound => HealthyShownOnline
    BY HealthShown
  <1> QED  BY <1>1, <1>2, <1>3, Invariance, PTL DEF Spec

=============================================================================

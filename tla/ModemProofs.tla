----------------------------- MODULE ModemProofs -----------------------------
(***************************************************************************)
(* Theorems about Modem, for any number of Register steps, polls and quiet *)
(* ticks and any bounds on requests, losses and failures.                  *)
(***************************************************************************)
EXTENDS Modem, SequenceTheorems, TLAPS

\* What the modem sends.
Parts == [kind : {"stat", "rdy", "ok"}]
           \cup [kind : {"answer"}, to : Coms]
           \cup [kind : {"recv"}, n : 1..sent, half : 1..2]

\* Where the task can be with which step, and where it can be in sendcom's loop.
PlaceOK ==
  /\ pc # "register" => step = 0
  /\ waiting => pc \in Sending
  /\ pc = "register" /\ step >= Steps => ~waiting

TInv == /\ TypeOK /\ PlaceOK
        /\ sent \in Nat
        /\ air \in Seq(Parts) /\ getstring \in Seq(Parts)

\* What Call_back_set's variables hold, in sendcom's loop and outside it, once
\* the UART has been linked to the call-back.
SwitchOK ==
  init_flag => IF waiting THEN route = "fifo" /\ ~CallBack_flag /\ flag
                          ELSE route = "callback" /\ CallBack_flag

\* How far the bring-up has come.
BroughtUp ==
  /\ pc = "register" /\ step > Steps => init_flag
  /\ pc \notin {"rdy", "init", "register"} => init_flag /\ timer

SInv == SwitchOK /\ BroughtUp

-----------------------------------------------------------------------------
(* Types.                                                                  *)

LEMMA TInvInit == Init => TInv
  <1> SUFFICES ASSUME Init PROVE TInv
    OBVIOUS
  <1> USE ModemAssumption DEF Init
  <1>1. Ready \in Parts
    BY DEF Ready, Parts
  <1>2. TypeOK
    <2>1. Len(air) <= MaxBuf /\ Len(getstring) <= MaxBuf
      OBVIOUS
    <2>2. asked \in Coms \cup {NoCom} /\ broker \in {"closed", "open", "conn", "sub"}
      OBVIOUS
    <2>3. message \in Requests /\ str \in Requests /\ cmd \in Requests
      BY DEF Requests
    <2>4. reveive_len \in 0..MaxBuf /\ freetime_t \in 0..(FreeTime - 1)
      OBVIOUS
    <2>5. step \in 0..(Steps + 1) /\ delay_time \in 0..Polls /\ pc \in {"rdy", "loop", "clear", "exec"} \cup Sending
      OBVIOUS
    <2>6. route \in {"fifo", "callback"} /\ fifo \subseteq {Ready, Stat, Ok} \cup {Answer(c) : c \in Coms}
      OBVIOUS
    <2>7. QED  BY <2>1, <2>2, <2>3, <2>4, <2>5, <2>6 DEF TypeOK
  <1>3. PlaceOK
    BY DEF PlaceOK, Sending
  <1>4. QED  BY <1>1, <1>2, <1>3 DEF TInv

\* Of a step that leaves the two sequences alone.
LEMMA PartsKept ==
  ASSUME TInv, sent' = sent, UNCHANGED <<air, getstring>>
  PROVE  air' \in Seq(Parts)' /\ getstring' \in Seq(Parts)'
  BY DEF TInv, Parts

\* The fifo's part of TypeOK, and the rest of it.
FifoOK == fifo \subseteq {Ready, Stat, Ok} \cup {Answer(c) : c \in Coms}

LEMMA FifoKept ==
  ASSUME FifoOK, fifo' \subseteq fifo
  PROVE  FifoOK'
  BY DEF FifoOK, Ready, Stat, Ok, Answer, Coms, Sending

RestOK ==
  /\ route \in {"fifo", "callback"}
  /\ init_flag \in BOOLEAN /\ CallBack_flag \in BOOLEAN /\ flag \in BOOLEAN
  /\ timer \in BOOLEAN /\ Link_s \in BOOLEAN /\ eaten \in BOOLEAN /\ waiting \in BOOLEAN
  /\ reveive_len \in 0..MaxBuf /\ freetime_t \in 0..(FreeTime - 1)
  /\ pc \in {"rdy", "loop", "clear", "exec"} \cup Sending
  /\ step \in 0..(Steps + 1) /\ delay_time \in 0..Polls
  /\ message \in Requests /\ str \in Requests /\ cmd \in Requests
  /\ asked \in Coms \cup {NoCom}
  /\ broker \in {"closed", "open", "conn", "sub"}
  /\ Len(air) <= MaxBuf /\ Len(getstring) <= MaxBuf

LEMMA TypeParts == TypeOK <=> FifoOK /\ RestOK
  BY DEF TypeOK, FifoOK, RestOK

LEMMA TypePartsNext == FifoOK' /\ RestOK' => TypeOK'
  BY DEF TypeOK, FifoOK, RestOK

\* The task's steps outside sendcom.
LEMMA TInvPlace ==
  TInv /\ (GetRdy \/ LinkUart \/ LinkTimer \/ LeaveLoop) => TInv'
  <1> SUFFICES ASSUME TInv, GetRdy \/ LinkUart \/ LinkTimer \/ LeaveLoop PROVE TInv'
    OBVIOUS
  <1> USE ModemAssumption DEF TInv
  <1>1. air' \in Seq(Parts)' /\ getstring' \in Seq(Parts)'
    BY PartsKept DEF GetRdy, LinkUart, LinkTimer, LeaveLoop, net, rx, hist
  <1>2. FifoOK'
    BY TypeParts, FifoKept DEF GetRdy, LinkUart, LinkTimer, LeaveLoop
  <1>3. RestOK' /\ PlaceOK' /\ sent' \in Nat
    <2> RestOK  BY TypeParts
    <2> USE DEF RestOK, PlaceOK, Sending, Requests, switch, net, rx, hist
    <2>1. CASE GetRdy     BY <2>1 DEF GetRdy
    <2>2. CASE LinkUart   BY <2>2 DEF LinkUart
    <2>3. CASE LinkTimer  BY <2>3 DEF LinkTimer
    <2>4. CASE LeaveLoop  BY <2>4 DEF LeaveLoop
    <2>5. QED  BY <2>1, <2>2, <2>3, <2>4
  <1>4. QED  BY <1>1, <1>2, <1>3, TypePartsNext

LEMMA TInvRequest ==
  TInv /\ (CopyRequest \/ ClearRequest \/ Execute) => TInv'
  <1> SUFFICES ASSUME TInv, CopyRequest \/ ClearRequest \/ Execute PROVE TInv'
    OBVIOUS
  <1> USE ModemAssumption DEF TInv
  <1>1. air' \in Seq(Parts)' /\ getstring' \in Seq(Parts)'
    BY PartsKept DEF CopyRequest, ClearRequest, Execute, net, rx, hist
  <1>2. FifoOK'
    BY TypeParts, FifoKept DEF CopyRequest, ClearRequest, Execute
  <1>3. RestOK' /\ PlaceOK' /\ sent' \in Nat
    <2> RestOK  BY TypeParts
    <2> USE DEF RestOK, PlaceOK, Sending, Requests, switch, net, rx, hist
    <2>1. CASE CopyRequest   BY <2>1 DEF CopyRequest
    <2>2. CASE ClearRequest  BY <2>2 DEF ClearRequest, MessageCleared
    <2>3. CASE Execute       BY <2>3 DEF Execute
    <2>4. QED  BY <2>1, <2>2, <2>3
  <1>4. QED  BY <1>1, <1>2, <1>3, TypePartsNext

LEMMA TInvSendCom == TInv /\ SendCom => TInv'
  <1> SUFFICES ASSUME TInv, SendCom PROVE TInv'
    OBVIOUS
  <1> USE ModemAssumption DEF TInv
  <1>1. air' \in Seq(Parts)' /\ getstring' \in Seq(Parts)'
    BY PartsKept DEF SendCom, rx
  <1>2. asked' \in Coms \cup {NoCom}
    <2>1. Com \in Coms
      BY DEF SendCom, TypeOK, PlaceOK, Com, Coms
    <2>2. QED  BY <2>1 DEF SendCom, TypeOK
  <1>3. FifoOK'
    BY DEF SendCom, FifoOK
  <1>4. RestOK' /\ PlaceOK' /\ sent' \in Nat
    <2> RestOK  BY TypeParts
    <2>1. /\ route' \in {"fifo", "callback"} /\ flag' \in BOOLEAN /\ CallBack_flag' \in BOOLEAN
          /\ eaten' \in BOOLEAN
      BY DEF SendCom, SwitchOff, RestOK
    <2>2. QED  BY <1>2, <2>1 DEF SendCom, RestOK, PlaceOK, Sending, Requests, rx
  <1>5. QED  BY <1>1, <1>3, <1>4, TypePartsNext

LEMMA TInvPoll == TInv /\ Poll => TInv'
  <1> SUFFICES ASSUME TInv, Poll PROVE TInv'
    OBVIOUS
  <1> USE ModemAssumption DEF TInv
  <1> DEFINE ok == Accepted(Com) \in fifo
  <1> RestOK  BY TypeParts
  <1>1. air' \in Seq(Parts)' /\ getstring' \in Seq(Parts)'
    BY PartsKept DEF Poll, rx, net
  <1>2. FifoOK'
    BY DEF Poll, FifoOK
  <1>3. eaten' \in BOOLEAN
    BY DEF Poll
  <1>4. /\ waiting' \in BOOLEAN /\ delay_time' \in 0..Polls /\ CallBack_flag' \in BOOLEAN
        /\ route' \in {"fifo", "callback"} /\ Link_s' \in BOOLEAN
        /\ pc' \in {"loop"} \cup Sending /\ step' \in 0..(Steps + 1) /\ PlaceOK'
    <2>1. CASE ~ok /\ delay_time > 0
      <3>1. /\ delay_time' = delay_time - 1
            /\ UNCHANGED <<waiting, CallBack_flag, route, Link_s, pc, step>> /\ waiting
        BY <2>1 DEF Poll
      <3>2. delay_time' \in 0..Polls
        BY <2>1, <3>1 DEF RestOK
      <3>3. QED  BY <3>1, <3>2 DEF RestOK, PlaceOK
    <2>2. CASE ~(~ok /\ delay_time > 0)
      <3>1. /\ waiting' = FALSE /\ delay_time' = 0 /\ Proceed(ok) /\ SwitchBack
            /\ Link_s' = IF pc = "open" THEN ok ELSE Link_s
        BY <2>2 DEF Poll
      <3>2. waiting
        BY DEF Poll
      <3> HIDE DEF ok
      <3>3. pc' \in {"loop"} \cup Sending /\ step' \in 0..(Steps + 1) /\ PlaceOK'
        <4>1. pc' \in {"loop"} \cup Sending
          BY <3>1, PlaceOK, <3>2 DEF Proceed, PlaceOK, Sending
        <4>2. step' \in 0..(Steps + 1) /\ (step' = step \/ pc = "register")
          <5>1. step' = (IF pc = "register" /\ ok THEN step + 1 ELSE step)
            BY <3>1 DEF Proceed
          <5>2. step \in 0..(Steps + 1) /\ (pc = "register" => step < Steps)
            BY <3>2 DEF RestOK, PlaceOK
          <5>3. QED  BY <5>1, <5>2
        <4>3. pc' = "register" \/ pc # "register"
          BY <3>1 DEF Proceed
        <4>4. QED  BY <3>1, <4>1, <4>2, <4>3 DEF PlaceOK, Proceed
      <3>4. CallBack_flag' \in BOOLEAN /\ route' \in {"fifo", "callback"}
        BY <3>1 DEF SwitchBack, RestOK
      <3>5. ok \in BOOLEAN
        BY DEF ok
      <3>6. Link_s' \in BOOLEAN
        BY <3>1, <3>5 DEF RestOK
      <3>7. waiting' \in BOOLEAN /\ delay_time' \in 0..Polls
        <4>1. waiting' = FALSE /\ delay_time' = 0
          BY <3>1
        <4>2. waiting' \in BOOLEAN
          BY <4>1, Zenon
        <4>3. delay_time' \in 0..Polls
          BY <4>1
        <4>4. QED  BY <4>2, <4>3
      <3>8. QED  BY <3>3, <3>4, <3>6, <3>7
    <2>3. QED  BY <2>1, <2>2
  <1>5. RestOK' /\ sent' \in Nat
    BY <1>3, <1>4 DEF Poll, RestOK, Requests, rx, net
  <1>6. QED  BY <1>1, <1>2, <1>4, <1>5, TypePartsNext

-----------------------------------------------------------------------------
\* The parts themselves.
LEMMA NewParts ==
  /\ Stat \in Parts /\ Ready \in Parts /\ Ok \in Parts
  /\ \A c \in Coms : Answer(c) \in Parts
  /\ \A n \in 1..sent, h \in 1..2 : Half(n, h) \in Parts
  BY DEF Stat, Ready, Ok, Answer, Half, Parts

\* What the modem's answer brings: nothing, one part or two, each "OK" or the
\* answer to the command it was asked; the latter once.
LEMMA Replies ==
  ASSUME ModemAnswers
  PROVE  \/ UNCHANGED <<air, broker>>
         \/ air' = Append(air, Ok) /\ broker' \in {broker, asked[1]} /\ asked # <<"open", 0>>
         \/ air' = Append(air, Ok) /\ UNCHANGED broker
         \/ /\ \/ air' = air \o <<Ok, Answer(asked)>>
               \/ air' = air \o <<Answer(asked), Ok>>
            /\ broker' = IF asked[1] \in {"open", "conn", "sub"} THEN asked[1] ELSE broker
  <1>1. CASE air' = air \o Reply(asked) /\ Accepted(asked) = Ok
    <2>1. Reply(asked) = <<Ok>>
      BY <1>1 DEF Reply
    <2>2. asked # <<"open", 0>>
      BY <1>1 DEF Accepted, Ok, Answer
    <2>3. broker' \in {broker, asked[1]}
      BY DEF ModemAnswers
    <2>4. air' = Append(air, Ok)
      BY <1>1, <2>1
    <2>5. QED  BY <2>2, <2>3, <2>4
  <1>2. QED  BY <1>1 DEF ModemAnswers, Reply

\* Parts of earlier requests stay parts when a further one is made.
LEMMA PartsGrow ==
  ASSUME sent \in Nat, sent' \in {sent, sent + 1}
  PROVE  Parts \subseteq Parts'
  BY DEF Parts

LEMMA TInvModem == TInv /\ (ModemAnswers \/ Request \/ Drop) => TInv'
  <1> SUFFICES ASSUME TInv, ModemAnswers \/ Request \/ Drop PROVE TInv'
    OBVIOUS
  <1> USE ModemAssumption DEF TInv
  <1> RestOK  BY TypeParts
  <1>1. FifoOK'
    BY TypeParts, FifoKept DEF ModemAnswers, Request, Drop
  <1>2. sent' \in {sent, sent + 1} /\ sent' \in Nat
    BY DEF ModemAnswers, Request, Drop, hist
  <1>3. Parts \subseteq Parts'
    BY <1>2, PartsGrow
  <1>4. getstring' \in Seq(Parts)'
    <2>1. getstring' = getstring
      BY DEF ModemAnswers, Request, Drop, rx
    <2>2. QED  BY <2>1, <1>3
  <1>5. CASE ModemAnswers
    <2>1. asked \in Coms
      BY <1>5 DEF ModemAnswers, RestOK
    <2>2. air' \in Seq(Parts)' /\ Len(air') <= MaxBuf
      <3> DEFINE p == Answer(asked)
                 q == Ok
      <3>1. /\ \/ air' = air \/ air' = Append(air, q)
               \/ air' = air \o <<q, p>> \/ air' = air \o <<p, q>>
            /\ Len(air) + 2 <= MaxBuf
        BY <1>5, Replies DEF ModemAnswers
      <3>2. p \in Parts /\ q \in Parts
        BY <2>1, NewParts
      <3> HIDE DEF p, q
      <3>3. air' \in Seq(Parts) /\ Len(air') <= Len(air) + 2
        <4>1. CASE air' = air                BY <4>1
        <4>2. CASE air' = Append(air, q)     BY <3>2, <4>2
        <4>3. CASE air' = air \o <<q, p>>    BY <3>2, <4>3
        <4>4. CASE air' = air \o <<p, q>>    BY <3>2, <4>4
        <4>5. QED  BY <3>1, <4>1, <4>2, <4>3, <4>4
      <3>4. Len(air') <= MaxBuf
        BY <3>1, <3>3
      <3>5. QED  BY <3>3, <3>4, <1>3
    <2>3. broker' \in {"closed", "open", "conn", "sub"}
      BY <1>5 DEF ModemAnswers, RestOK
    <2>4. RestOK' /\ PlaceOK'
      BY <1>5, <2>2, <2>3 DEF ModemAnswers, RestOK, PlaceOK, Requests, rx, switch, task, hist
    <2>5. QED  BY <1>1, <1>2, <1>4, <2>2, <2>4, TypePartsNext
  <1>6. CASE Request
    <2>1. sent' = sent + 1 /\ Len(air) + 2 <= MaxBuf
          /\ air' = air \o <<Half(sent + 1, 1), Half(sent + 1, 2)>>
      BY <1>6 DEF Request
    <2>2. Half(sent + 1, 1) \in Parts' /\ Half(sent + 1, 2) \in Parts'
      BY <2>1 DEF Half, Parts
    <2>3. air' \in Seq(Parts)' /\ Len(air') <= MaxBuf
      <3> DEFINE p == Half(sent + 1, 1)
                 q == Half(sent + 1, 2)
      <3>1. p \in Parts' /\ q \in Parts' /\ air' = air \o <<p, q>>
        BY <2>1, <2>2
      <3> HIDE DEF p, q
      <3>2. air \in Seq(Parts')
        BY <1>3
      <3>3. QED  BY <2>1, <3>1, <3>2
    <2>4. Requests \subseteq Requests'
      BY <2>1 DEF Requests
    <2>5. RestOK' /\ PlaceOK'
      BY <1>6, <2>3, <2>4 DEF Request, RestOK, PlaceOK, rx, switch, task
    <2>6. QED  BY <1>1, <1>2, <1>4, <2>3, <2>5, TypePartsNext
  <1>7. CASE Drop
    <2>1. air' \in Seq(Parts)' /\ Len(air') <= MaxBuf
      <3> DEFINE p == Stat
      <3>1. p \in Parts /\ air' = Append(air, p) /\ Len(air) < MaxBuf
        BY <1>7, NewParts DEF Drop
      <3> HIDE DEF p
      <3>2. air' \in Seq(Parts) /\ Len(air') <= MaxBuf
        BY <3>1
      <3>3. QED  BY <3>2, <1>3
    <2>2. RestOK' /\ PlaceOK'
      BY <1>7, <2>1 DEF Drop, RestOK, PlaceOK, Requests, rx, switch, task
    <2>3. QED  BY <1>1, <1>2, <1>4, <2>1, <2>2, TypePartsNext
  <1>8. QED  BY <1>5, <1>6, <1>7

LEMMA TInvUartISR == TInv /\ UartISR => TInv'
  <1> SUFFICES ASSUME TInv, UartISR PROVE TInv'
    OBVIOUS
  <1> USE ModemAssumption DEF TInv
  <1> RestOK  BY TypeParts
  <1>1. /\ air # <<>> /\ air' = Tail(air) /\ sent' = sent
        /\ \/ fifo' = fifo \cup ({Head(air)} \cap Sought) /\ getstring' = getstring
           \/ fifo' = fifo /\ Len(getstring) < MaxBuf /\ getstring' = Append(getstring, Head(air))
    BY DEF UartISR, hist
  <1>2. Head(air) \in Parts /\ Parts' = Parts /\ air' \in Seq(Parts) /\ Len(air') <= MaxBuf
    <2>1. Parts' = Parts
      BY <1>1 DEF Parts
    <2>2. QED  BY <1>1, <2>1 DEF RestOK
  <1>3. FifoOK'
    <2>1. ASSUME Head(air) \in Sought
          PROVE  Head(air) \in {Ready, Stat, Ok} \cup {Answer(c) : c \in Coms}
      <3>1. CASE Head(air) = Answer(Com)
        <4>1. PICK c \in Coms : Head(air) = Answer(c)
          BY <1>2, <3>1 DEF Parts, Answer
        <4>2. QED  BY <4>1
      <3>2. QED  BY <2>1, <3>1 DEF Sought, Accepted
    <2>2. fifo' \subseteq {Ready, Stat, Ok} \cup {Answer(c) : c \in Coms}
      <3> DEFINE S == {Ready, Stat, Ok} \cup {Answer(c) : c \in Coms}
                 h == Head(air)
      <3>1. fifo \subseteq S
        BY TypeParts DEF FifoOK
      <3>2. h \in Sought => h \in S
        BY <2>1
      <3>3. fifo' = fifo \/ fifo' = fifo \cup ({h} \cap Sought)
        BY <1>1
      <3> HIDE DEF S, h
      <3>4. fifo' \subseteq S
        BY <3>1, <3>2, <3>3
      <3>5. QED  BY <3>4 DEF S
    <2>3. QED  BY <2>2 DEF FifoOK, Ready, Stat, Ok, Answer, Coms, Sending
  <1>4. getstring' \in Seq(Parts) /\ Len(getstring') <= MaxBuf
    <2>1. CASE getstring' = getstring
      BY <2>1 DEF RestOK
    <2>2. CASE Len(getstring) < MaxBuf /\ getstring' = Append(getstring, Head(air))
      <3> DEFINE p == Head(air)
      <3>1. p \in Parts /\ getstring' = Append(getstring, p)
        BY <1>2, <2>2
      <3> HIDE DEF p
      <3>2. QED  BY <2>2, <3>1, AppendProperties
    <2>3. QED  BY <1>1, <2>1, <2>2
  <1>5. RestOK' /\ PlaceOK'
    BY <1>2, <1>4 DEF UartISR, RestOK, PlaceOK, Requests, switch, task, hist
  <1>6. QED  BY <1>1, <1>2, <1>3, <1>4, <1>5, TypePartsNext

LEMMA TInvTimerISR == TInv /\ TimerISR => TInv'
  <1> SUFFICES ASSUME TInv, TimerISR PROVE TInv'
    OBVIOUS
  <1> USE ModemAssumption DEF TInv
  <1> RestOK  BY TypeParts
  <1>1. UNCHANGED <<route, fifo, switch, timer, task, net, hist>>
    BY DEF TimerISR
  <1>2. FifoOK'
    BY <1>1, TypeParts, FifoKept
  <1>3. Parts' = Parts /\ air' \in Seq(Parts) /\ PlaceOK' /\ sent' \in Nat
    BY <1>1 DEF Parts, PlaceOK, task, net, hist
  <1>4. Received \subseteq Requests
    <2>1. ASSUME NEW i \in Matches PROVE Found(i) \in Requests
      <3>1. i \in 1..Len(getstring) /\ getstring[i].kind = "recv"
        BY DEF Matches, Begins
      <3>2. getstring[i] \in Parts
        BY <3>1
      <3>3. getstring[i].n \in 1..sent
        BY <3>1, <3>2 DEF Parts
      <3>4. QED  BY <3>3 DEF Found, Requests
    <2>2. Cut \in Requests
      BY DEF Requests
    <2>3. QED  BY <2>1, <2>2 DEF Received, RestOK
  <1>5. /\ getstring' \in {getstring, <<>>} /\ message' \in Requests /\ Link_s' \in BOOLEAN
        /\ reveive_len' \in 0..MaxBuf /\ freetime_t' \in 0..(FreeTime - 1)
    <2>1. CASE reveive_len # Len(getstring)
      BY <2>1 DEF TimerISR, RestOK
    <2>2. CASE reveive_len = Len(getstring)
      <3>1. CASE freetime_t + 1 = FreeTime
        BY <1>4, <2>2, <3>1 DEF TimerISR, RestOK, LinkAfter, NoneKept
      <3>2. CASE freetime_t + 1 # FreeTime
        BY <2>2, <3>2 DEF TimerISR, RestOK
      <3>3. QED  BY <3>1, <3>2
    <2>3. QED  BY <2>1, <2>2
  <1>6. getstring' \in Seq(Parts) /\ Len(getstring') <= MaxBuf
    <2>1. CASE getstring' = getstring
      BY <2>1 DEF RestOK
    <2>2. CASE getstring' = <<>>
      BY <2>2
    <2>3. QED  BY <1>5, <2>1, <2>2
  <1>7. Requests' = Requests
    BY <1>1 DEF Requests, hist
  <1>8. RestOK'
    BY <1>1, <1>3, <1>5, <1>6, <1>7 DEF RestOK, switch, task, net, hist
  <1>9. QED  BY <1>2, <1>3, <1>6, <1>8, TypePartsNext

LEMMA TInvNext == TInv /\ [Next]_vars => TInv'
  <1> SUFFICES ASSUME TInv, [Next]_vars PROVE TInv'
    OBVIOUS
  <1>1. CASE Task
    BY <1>1, TInvPlace, TInvRequest, TInvSendCom, TInvPoll DEF Task
  <1>2. CASE UNCHANGED vars
    <2>1. air' \in Seq(Parts)' /\ getstring' \in Seq(Parts)'
      BY <1>2, PartsKept DEF vars, rx, net, hist
    <2>2. FifoOK'
      BY <1>2, TypeParts, FifoKept DEF vars, TInv
    <2>3. RestOK' /\ PlaceOK' /\ sent' \in Nat
      BY <1>2, TypeParts DEF TInv, RestOK, PlaceOK, Requests, vars, switch, rx, task, net, hist
    <2>4. QED  BY <2>1, <2>2, <2>3, TypePartsNext DEF TInv
  <1>3. QED
    BY <1>1, <1>2, TInvUartISR, TInvTimerISR, TInvModem DEF Next

LEMMA TInvAlways == Spec => []TInv
  BY TInvInit, TInvNext, PTL DEF Spec

\* The modem driver's and its task's variables keep their types.
THEOREM ModemTypeCorrect == Spec => []TypeOK
  <1>1. TInv => TypeOK
    BY DEF TInv
  <1>2. QED  BY <1>1, TInvAlways, PTL

-----------------------------------------------------------------------------
(* The switch of the UART.                                                 *)

LEMMA SInvInit == Init => SInv
  BY DEF Init, SInv, SwitchOK, BroughtUp

LEMMA SInvNext == TInv /\ SInv /\ [Next]_vars => SInv'
  <1> SUFFICES ASSUME TInv, SInv, [Next]_vars PROVE SInv'
    OBVIOUS
  <1> USE ModemAssumption DEF SInv, SwitchOK, BroughtUp
  <1> PlaceOK /\ RestOK
    BY TypeParts DEF TInv
  <1>1. CASE GetRdy     BY <1>1 DEF GetRdy, switch
  <1>2. CASE SendCom    BY <1>2 DEF SendCom, SwitchOff, Sending, RestOK
  <1>3. CASE Poll
    <2>1. waiting /\ pc \in Sending /\ UNCHANGED <<init_flag, timer, flag>>
      BY <1>3 DEF Poll, PlaceOK
    <2>2. CASE UNCHANGED <<waiting, CallBack_flag, route, Link_s, pc, step, used>>
      BY <2>1, <2>2
    <2>3. CASE waiting' = FALSE /\ SwitchBack /\ \E ok \in BOOLEAN : Proceed(ok)
      <3>1. PICK ok \in BOOLEAN : Proceed(ok)
        BY <2>3
      <3>2. /\ pc' \notin {"rdy", "init", "register"} => pc \notin {"rdy", "init", "register"}
            /\ pc' = "register" /\ step' > Steps => pc = "register" /\ step > Steps
        BY <2>1, <3>1 DEF Proceed, PlaceOK, RestOK, Sending
      <3>3. QED  BY <2>1, <2>3, <3>2 DEF SwitchBack
    <2>4. QED
      <3> DEFINE ok == Accepted(Com) \in fifo
      <3>1. ok \in BOOLEAN
        OBVIOUS
      <3>2. \/ UNCHANGED <<waiting, CallBack_flag, route, Link_s, pc, step, used>>
            \/ waiting' = FALSE /\ SwitchBack /\ Proceed(ok)
        BY <1>3 DEF Poll
      <3> HIDE DEF ok
      <3>3. QED  BY <2>2, <2>3, <3>1, <3>2
  <1>4. CASE LinkUart   BY <1>4 DEF LinkUart, PlaceOK
  <1>5. CASE LinkTimer  BY <1>5 DEF LinkTimer, switch, RestOK
  <1>6. CASE LeaveLoop  BY <1>6 DEF LeaveLoop, switch
  <1>7. CASE CopyRequest \/ ClearRequest \/ Execute
    BY <1>7 DEF CopyRequest, ClearRequest, Execute, switch
  <1>8. CASE UartISR \/ TimerISR \/ ModemAnswers \/ Request \/ Drop \/ UNCHANGED vars
    BY <1>8 DEF UartISR, TimerISR, ModemAnswers, Request, Drop, vars, switch, task
  <1>9. QED  BY <1>1, <1>2, <1>3, <1>4, <1>5, <1>6, <1>7, <1>8 DEF Next, Task

LEMMA SInvAlways == Spec => []SInv
  BY SInvInit, SInvNext, TInvAlways, PTL DEF Spec

\* While the task serves the link, received bytes go to the call-back: every
\* way through sendcom, in every round of reconnection, switches back.
THEOREM CallbackAlwaysOn == Spec => []CallbackOn
  <1>1. TInv /\ SInv => CallbackOn
    BY DEF TInv, PlaceOK, SInv, SwitchOK, BroughtUp, CallbackOn, InLoop, Sending
  <1>2. QED  BY <1>1, TInvAlways, SInvAlways, PTL

-----------------------------------------------------------------------------
(* Torn requests.                                                          *)

\* If q follows p where Receive_data looks, it finds no request made of two.
Fits(p, q)  == Begins(p) /\ Ends(q) => p.n = q.n
Faithful(s) == \A i \in 1..(Len(s) - 1) : Fits(s[i], s[i + 1])

\* While the call-back gets the bytes, the next part fits what it has.
Joined == route = "callback" /\ getstring # <<>> /\ air # <<>> =>
            Fits(getstring[Len(getstring)], air[1])

\* The call-back's side of the bring-up: nothing before the UART is linked to
\* it, and the timer runs when sendcom switches.
Linked == /\ ~init_flag => route = "fifo" /\ getstring = <<>>
          /\ init_flag /\ ~timer => pc = "register" /\ step > Steps

NInv == Faithful(air) /\ Faithful(getstring) /\ Joined /\ Linked /\ message # Spliced

LEMMA FaithfulTail ==
  ASSUME NEW S, NEW s \in Seq(S), s # <<>>, Faithful(s)
  PROVE  Faithful(Tail(s)) /\ (Tail(s) # <<>> => Fits(s[1], Tail(s)[1]))
  BY DEF Faithful

LEMMA FaithfulAppend ==
  ASSUME NEW S, NEW s \in Seq(S), NEW p \in S, Faithful(s),
         s # <<>> => Fits(s[Len(s)], p)
  PROVE  Faithful(Append(s, p))
  <1> SUFFICES ASSUME NEW i \in 1..(Len(Append(s, p)) - 1)
               PROVE  Fits(Append(s, p)[i], Append(s, p)[i + 1])
    BY DEF Faithful
  <1>1. CASE i < Len(s)
    BY <1>1 DEF Faithful
  <1>2. CASE i = Len(s)
    BY <1>2
  <1>3. QED  BY <1>1, <1>2

\* What may follow anything.
LEMMA FitsAnything ==
  ASSUME NEW p
  PROVE  /\ Fits(p, Stat) /\ Fits(p, Ok) /\ \A c \in Coms : Fits(p, Answer(c))
         /\ \A n \in Nat : Fits(p, Half(n, 1)) /\ Fits(Half(n, 1), Half(n, 2))
  BY DEF Fits, Begins, Ends, Stat, Ok, Answer, Half

LEMMA NInvInit == Init => NInv
  <1> SUFFICES ASSUME Init PROVE NInv
    OBVIOUS
  <1>1. Faithful(air) /\ Faithful(getstring)
    BY DEF Init, Faithful
  <1>2. message # Spliced
    BY ModemAssumption DEF Init
  <1>3. QED  BY <1>1, <1>2 DEF Init, NInv, Joined, Linked

\* Steps that touch neither the parts nor the mailbox.
LEMMA NInvKept ==
  ASSUME NInv, UNCHANGED <<air, getstring, message, route, init_flag, timer>>,
         init_flag /\ ~timer => pc' = pc /\ step' = step
  PROVE  NInv'
  BY DEF NInv, Joined, Linked, Faithful, Fits, Begins, Ends

LEMMA NInvTask == TInv /\ SInv /\ NInv /\ Task => NInv'
  <1> SUFFICES ASSUME TInv, SInv, NInv, Task PROVE NInv'
    OBVIOUS
  <1> USE ModemAssumption
  <1> PlaceOK /\ RestOK
    BY TypeParts DEF TInv
  <1>1. CASE GetRdy
    BY <1>1, NInvKept DEF GetRdy, NInv, Linked, switch, rx, net
  <1>2. CASE SendCom
    <2>1. /\ UNCHANGED <<air, getstring, message, init_flag, timer, pc, step>>
          /\ route' \in {route, "fifo"} /\ (init_flag \/ route' = route)
      BY <1>2 DEF SendCom, SwitchOff, rx
    <2>2. QED
      BY <2>1 DEF NInv, Joined, Linked, Faithful, Fits, Begins, Ends
  <1>3. CASE Poll
    <2>1. /\ UNCHANGED <<air, getstring, message, init_flag, timer>>
          /\ waiting /\ (timer => getstring = <<>>)
      BY <1>3 DEF Poll, rx, net
    <2>2. ~init_flag \/ timer
      BY <2>1 DEF NInv, Linked, PlaceOK, RestOK
    <2>3. route' = route \/ init_flag
      BY <1>3 DEF Poll, SwitchBack
    <2>4. QED
      BY <2>1, <2>2, <2>3 DEF NInv, Joined, Linked, Faithful, Fits, Begins, Ends
  <1>4. CASE LinkUart
    <2>1. /\ UNCHANGED <<air, getstring, message, timer>> /\ route' = "callback" /\ init_flag'
          /\ pc' = "register" /\ step' = Steps + 1
      BY <1>4 DEF LinkUart, rx, net
    <2>2. init_flag => route = "callback"
      BY <1>4 DEF LinkUart, PlaceOK, SInv, SwitchOK, RestOK
    <2>3. QED
      BY <2>1, <2>2 DEF NInv, Joined, Linked, Faithful, Fits, Begins, Ends, RestOK
  <1>5. CASE LinkTimer
    <2>1. UNCHANGED <<air, getstring, message, route, init_flag>> /\ timer'
      BY <1>5 DEF LinkTimer, switch, rx, net
    <2>2. QED
      BY <2>1 DEF NInv, Joined, Linked, Faithful, Fits, Begins, Ends
  <1>6. CASE LeaveLoop
    BY <1>6, NInvKept DEF LeaveLoop, NInv, Linked, switch, rx, net
  <1>7. CASE CopyRequest
    BY <1>7, NInvKept DEF CopyRequest, NInv, Linked, switch, rx, net
  <1>8. CASE ClearRequest
    <2>1. UNCHANGED <<air, getstring, route, init_flag, timer>> /\ message' = NoMsg
      BY <1>8 DEF ClearRequest, MessageCleared, switch, rx, net
    <2>2. ~init_flag \/ timer
      BY <1>8 DEF ClearRequest, NInv, Linked
    <2>3. QED
      BY <2>1, <2>2 DEF NInv, Joined, Linked, Faithful, Fits, Begins, Ends
  <1>9. CASE Execute
    BY <1>9, NInvKept DEF Execute, NInv, Linked, switch, rx, net
  <1>10. QED
    BY <1>1, <1>2, <1>3, <1>4, <1>5, <1>6, <1>7, <1>8, <1>9 DEF Task

LEMMA NInvUartISR == TInv /\ NInv /\ UartISR => NInv'
  <1> SUFFICES ASSUME TInv, NInv, UartISR PROVE NInv'
    OBVIOUS
  <1>1. /\ air # <<>> /\ air' = Tail(air) /\ UNCHANGED <<route, init_flag, timer, message, pc, step>>
        /\ \/ route = "fifo" /\ getstring' = getstring
           \/ route = "callback" /\ getstring' = Append(getstring, Head(air))
    BY DEF UartISR, switch, task
  <1>2. air \in Seq(Parts) /\ getstring \in Seq(Parts) /\ Head(air) = air[1] /\ air[1] \in Parts
    BY <1>1 DEF TInv
  <1>3. Faithful(air') /\ (air' # <<>> => Fits(air[1], air'[1]))
    BY <1>1, <1>2, FaithfulTail DEF NInv
  <1>4. CASE route = "fifo"
    BY <1>1, <1>3, <1>4 DEF NInv, Joined, Linked, Faithful, Fits, Begins, Ends
  <1>5. CASE route = "callback"
    <2>1. getstring' = Append(getstring, air[1])
      BY <1>1, <1>2, <1>5
    <2>2. Faithful(Append(getstring, air[1]))
      BY <1>1, <1>2, <1>5, FaithfulAppend DEF NInv, Joined
    <2>3. getstring'[Len(getstring')] = air[1]
      BY <2>1, <1>2
    <2>4. Joined'
      BY <2>3, <1>3 DEF Joined, Fits, Begins, Ends
    <2>5. QED
      BY <1>1, <1>3, <1>5, <2>1, <2>2, <2>4 DEF NInv, Linked, Faithful, Fits, Begins, Ends
  <1>6. QED  BY <1>1, <1>4, <1>5

LEMMA NInvTimerISR == TInv /\ NInv /\ TimerISR => NInv'
  <1> SUFFICES ASSUME TInv, NInv, TimerISR PROVE NInv'
    OBVIOUS
  <1>1. UNCHANGED <<route, init_flag, timer, air, pc, step>>
    BY DEF TimerISR, switch, task, net
  <1>2. getstring' = getstring \/ getstring' = <<>>
    BY DEF TimerISR, NoneKept
  <1>3. message' # Spliced
    <2>1. ASSUME NEW i \in Matches PROVE Found(i) # Spliced
      <3>1. i \in 1..(Len(getstring) - 1) /\ Begins(getstring[i]) /\ Ends(getstring[i + 1])
        BY DEF Matches
      <3>2. getstring[i].n = getstring[i + 1].n
        BY <3>1 DEF NInv, Faithful, Fits
      <3>3. getstring[i].n \in Nat
        <4>1. getstring[i] \in Parts
          BY <3>1 DEF TInv
        <4>2. QED  BY <3>1, <4>1 DEF Parts, Begins, TInv
      <3>4. QED  BY <3>2, <3>3, ModemAssumption DEF Found
    <2>2. message' = message \/ message' \in Received
      BY DEF TimerISR
    <2>3. Cut # Spliced
      BY ModemAssumption
    <2>4. QED  BY <2>1, <2>2, <2>3 DEF Received, NInv
  <1>4. QED
    BY <1>1, <1>2, <1>3 DEF NInv, Joined, Linked, Faithful, Fits, Begins, Ends

LEMMA NInvModem == TInv /\ NInv /\ (ModemAnswers \/ Request \/ Drop) => NInv'
  <1> SUFFICES ASSUME TInv, NInv, ModemAnswers \/ Request \/ Drop PROVE NInv'
    OBVIOUS
  <1>1. UNCHANGED <<route, init_flag, timer, message, pc, step, getstring>>
    BY DEF ModemAnswers, Request, Drop, switch, rx, task
  <1> DEFINE Tailing(p) == \A q : Fits(q, p)
  <1>2. ASSUME NEW S, NEW s \in Seq(S), NEW p \in S, air' = Append(s, p), Faithful(s),
               s # <<>> => Fits(s[Len(s)], p),
               s = <<>> => Tailing(p),
               s # <<>> /\ route = "callback" /\ getstring # <<>>
                 => Fits(getstring[Len(getstring)], s[1])
        PROVE  NInv'
    <2>1. Faithful(air')
      BY <1>2, FaithfulAppend
    <2>2. air'[1] = IF s = <<>> THEN p ELSE s[1]
      BY <1>2
    <2>3. Joined'
      BY <1>1, <1>2, <2>2 DEF Joined, Fits, Begins, Ends
    <2>4. QED
      BY <1>1, <2>1, <2>3 DEF NInv, Linked, Faithful, Fits, Begins, Ends
  <1>3. air \in Seq(Parts) /\ sent \in Nat
    BY DEF TInv
  <1>4. CASE ModemAnswers
    <2>1. CASE air' = air
      BY <1>1, <2>1 DEF NInv, Joined, Linked, Faithful, Fits, Begins, Ends
    <2>2. asked \in Coms
      BY <1>4, TypeParts DEF ModemAnswers, RestOK, TInv
    <2> DEFINE p == Answer(asked)
               q == Ok
    <2>3. /\ \A r : Fits(r, p) /\ Fits(r, q)
          /\ Tailing(p) /\ Tailing(q) /\ p \in Parts /\ q \in Parts
      BY <2>2, FitsAnything, NewParts
    <2>4. \/ air' = air \/ air' = Append(air, q)
          \/ air' = air \o <<q, p>> \/ air' = air \o <<p, q>>
      BY <1>4, Replies
    <2> HIDE DEF p, q
    <2>5. CASE air' = Append(air, q)
      BY <1>2, <1>3, <2>3, <2>5 DEF NInv, Joined
    <2>6. ASSUME NEW a \in Parts, NEW b \in Parts, air' = air \o <<a, b>>,
                 \A r : Fits(r, a), \A r : Fits(r, b)
          PROVE  NInv'
      <3>1. /\ Append(air, a) \in Seq(Parts) /\ Append(air, a) # <<>>
            /\ air' = Append(Append(air, a), b)
            /\ Append(air, a)[1] = IF air = <<>> THEN a ELSE air[1]
        BY <1>3, <2>6
      <3>2. Faithful(Append(air, a))
        BY <1>3, <2>6, FaithfulAppend DEF NInv
      <3>3. route = "callback" /\ getstring # <<>>
              => Fits(getstring[Len(getstring)], Append(air, a)[1])
        BY <2>6, <3>1 DEF NInv, Joined
      <3>4. QED  BY <1>2, <2>6, <3>1, <3>2, <3>3
    <2>7. QED  BY <2>1, <2>3, <2>4, <2>5, <2>6
  <1>5. CASE Drop
    <2>1. Tailing(Stat) /\ Stat \in Parts
      BY FitsAnything, NewParts
    <2>2. air' = Append(air, Stat)
      BY <1>5 DEF Drop
    <2>3. QED  BY <1>2, <1>3, <2>1, <2>2 DEF NInv, Joined
  <1>6. CASE Request
    <2> DEFINE p == Half(sent + 1, 1)
               q == Half(sent + 1, 2)
               T == Parts \cup {p, q}
    <2>1. Tailing(p) /\ Fits(p, q)
      <3>1. sent + 1 \in Nat
        BY <1>3
      <3>2. \A r : Fits(r, Half(sent + 1, 1)) /\ Fits(Half(sent + 1, 1), Half(sent + 1, 2))
        BY <3>1, FitsAnything
      <3>3. QED  BY <3>2
    <2>2. air' = air \o <<p, q>>
      BY <1>6 DEF Request
    <2> HIDE DEF p, q, Tailing
    <2>3. air \in Seq(T) /\ p \in T /\ q \in T
      BY <1>3
    <2>4. /\ Append(air, p) \in Seq(T) /\ Append(air, p) # <<>>
          /\ air' = Append(Append(air, p), q)
          /\ Append(air, p)[Len(Append(air, p))] = p
          /\ Append(air, p)[1] = IF air = <<>> THEN p ELSE air[1]
      BY <2>2, <2>3
    <2>5. Faithful(Append(air, p))
      BY <2>1, <2>3, FaithfulAppend DEF NInv, Tailing
    <2>6. route = "callback" /\ getstring # <<>>
            => Fits(getstring[Len(getstring)], Append(air, p)[1])
      BY <2>1, <2>4 DEF NInv, Joined, Tailing
    <2>7. QED  BY <1>2, <2>1, <2>3, <2>4, <2>5, <2>6
  <1>7. QED  BY <1>4, <1>5, <1>6

LEMMA NInvAlways == Spec => []NInv
  <1>1. TInv /\ SInv /\ NInv /\ [Next]_vars => NInv'
    <2>1. NInv /\ UNCHANGED vars => NInv'
      BY NInvKept DEF vars, switch, rx, net, task
    <2>2. QED
      BY <2>1, NInvTask, NInvUartISR, NInvTimerISR, NInvModem DEF Next
  <1>2. QED  BY <1>1, NInvInit, TInvAlways, SInvAlways, PTL DEF Spec

\* sendcom's switch can tear a request, but the call-back never takes the
\* halves of two for one.
THEOREM NeverSpliced == Spec => []NotSpliced
  <1>1. NInv => NotSpliced
    BY DEF NInv, NotSpliced
  <1>2. QED  BY <1>1, NInvAlways, PTL

-----------------------------------------------------------------------------
(* The order of requests on their way.                                     *)

\* Every request that begins in s was made after request k; s is in order.
After(k, s) == \A i \in 1..Len(s) : Begins(s[i]) => k < s[i].n
Sorted(s)   == \A i, j \in 1..Len(s) : i < j /\ Begins(s[i]) /\ Begins(s[j]) => s[i].n < s[j].n

\* A place may hold a request k: then k was made, and whatever is still on its
\* way was made later.
Whole(k) == k # NoMsg /\ k # Cut
Ahead(k) == Whole(k) => k \in 0..sent /\ After(k, getstring) /\ After(k, air)

\* What the task is about to execute comes after what it has executed, and
\* what waits in the mailbox after both.
Ordered ==
  /\ Whole(message) => last < message
  /\ IF pc = "clear"
     THEN str # NoMsg /\ (Whole(str) => last < str /\ (Whole(message) => str <= message))
     ELSE str = NoMsg
  /\ IF pc = "exec" THEN Whole(cmd) /\ last < cmd /\ (Whole(message) => cmd < message)
                    ELSE cmd = NoMsg

OInv == /\ last \in 0..sent
        /\ Ahead(last) /\ Ahead(message) /\ Ahead(str) /\ Ahead(cmd)
        /\ Ordered
        /\ Sorted(air)
        /\ \A i \in 1..Len(getstring) : Begins(getstring[i]) => After(getstring[i].n, air)

LEMMA OInvInit == Init => OInv
  <1> SUFFICES ASSUME Init PROVE OInv
    OBVIOUS
  <1>1. ~Begins(Ready)
    BY DEF Begins, Ready
  <1>2. After(0, air) /\ After(0, getstring) /\ Sorted(air)
    BY <1>1 DEF Init, After, Sorted
  <1>3. QED
    BY <1>2 DEF Init, OInv, Ahead, Whole, Ordered

\* Steps that leave the requests where they are.
LEMMA OInvKept ==
  ASSUME OInv, UNCHANGED <<air, getstring, message, str, cmd, last, sent>>,
         pc' # pc => {pc, pc'} \cap {"clear", "exec"} = {}
  PROVE  OInv'
  BY DEF OInv, Ahead, Whole, Ordered, After, Sorted, Begins

LEMMA OInvTask == TInv /\ NInv /\ OInv /\ Task => OInv'
  <1> SUFFICES ASSUME TInv, NInv, OInv, Task PROVE OInv'
    OBVIOUS
  <1> PlaceOK /\ RestOK
    BY TypeParts DEF TInv
  <1>1. CASE GetRdy
    BY <1>1, OInvKept DEF GetRdy, rx, net, hist
  <1>2. CASE SendCom
    BY <1>2, OInvKept DEF SendCom, rx
  <1>3. CASE Poll
    <2>1. UNCHANGED <<air, getstring, message, str, cmd, last, sent>> /\ pc \in Sending
      BY <1>3 DEF Poll, PlaceOK, rx, net
    <2>2. pc' = pc \/ \E ok \in BOOLEAN : Proceed(ok)
      <3> DEFINE ok == Accepted(Com) \in fifo
      <3>1. ok \in BOOLEAN
        OBVIOUS
      <3>2. pc' = pc \/ Proceed(ok)
        BY <1>3 DEF Poll
      <3> HIDE DEF ok
      <3>3. QED  BY <3>1, <3>2
    <2>3. pc' \notin {"clear", "exec"} /\ pc \notin {"clear", "exec"}
      BY <2>1, <2>2 DEF Proceed, Sending
    <2>4. QED  BY <2>1, <2>3, OInvKept
  <1>4. CASE LinkUart
    BY <1>4, OInvKept DEF LinkUart, rx, net, hist
  <1>5. CASE LinkTimer
    BY <1>5, OInvKept DEF LinkTimer, rx, net, hist
  <1>6. CASE LeaveLoop
    BY <1>6, OInvKept DEF LeaveLoop, rx, net, hist
  <1>7. CASE CopyRequest
    <2>1. /\ UNCHANGED <<air, getstring, message, cmd, last, sent>>
          /\ pc = "loop" /\ pc' = "clear" /\ message # NoMsg /\ str' = message
      BY <1>7 DEF CopyRequest, rx, net, hist
    <2>2. Ahead(message)'
      BY <2>1 DEF OInv, Ahead, Whole, After, Begins
    <2>3. Whole(message) => message \in Nat
      BY <2>1 DEF OInv, Ahead, TInv
    <2>4. Ordered'
      BY <2>1, <2>3 DEF OInv, Ordered, Whole
    <2>5. QED
      BY <2>1, <2>2, <2>4 DEF OInv, Ahead, Whole, After, Sorted, Begins
  <1>8. CASE ClearRequest
    <2>1. /\ UNCHANGED <<air, getstring, last, sent>>
          /\ pc = "clear" /\ message' = NoMsg /\ str' = NoMsg
          /\ IF str = Cut THEN pc' = "loop" /\ cmd' = cmd ELSE pc' = "exec" /\ cmd' = str
      BY <1>8 DEF ClearRequest, MessageCleared, rx, net, hist
    <2>2. Ordered'
      BY <2>1 DEF OInv, Ordered, Whole
    <2>3. QED
      BY <2>1, <2>2 DEF OInv, Ahead, Whole, After, Sorted, Begins
  <1>9. CASE Execute
    <2>1. /\ UNCHANGED <<air, getstring, message, str, sent>>
          /\ pc = "exec" /\ pc' = "loop" /\ last' = cmd /\ cmd' = NoMsg
      BY <1>9 DEF Execute, rx, net
    <2>2. cmd # NoMsg /\ cmd \in 0..sent
      BY <2>1 DEF OInv, Ordered, Whole, Ahead
    <2>3. Ordered'
      BY <2>1 DEF OInv, Ordered, Whole
    <2>4. QED
      BY <2>1, <2>2, <2>3 DEF OInv, Ahead, Whole, After, Sorted, Begins
  <1>10. QED
    BY <1>1, <1>2, <1>3, <1>4, <1>5, <1>6, <1>7, <1>8, <1>9 DEF Task

LEMMA OInvUartISR == TInv /\ OInv /\ UartISR => OInv'
  <1> SUFFICES ASSUME TInv, OInv, UartISR PROVE OInv'
    OBVIOUS
  <1>1. /\ air # <<>> /\ air' = Tail(air) /\ UNCHANGED <<message, str, cmd, last, sent, pc>>
        /\ getstring' = getstring \/ getstring' = Append(getstring, Head(air))
    BY DEF UartISR, task, hist
  <1>2. /\ air \in Seq(Parts) /\ getstring \in Seq(Parts) /\ Head(air) = air[1]
        /\ \A i \in 1..Len(air') : i + 1 \in 1..Len(air) /\ air'[i] = air[i + 1]
    BY <1>1 DEF TInv
  <1>3. \A i \in 1..Len(getstring') : getstring'[i] = air[1] \/ (i \in 1..Len(getstring) /\ getstring'[i] = getstring[i])
    BY <1>1, <1>2
  <1>4. ASSUME NEW k, After(k, getstring), After(k, air)
        PROVE  After(k, getstring') /\ After(k, air')
    <2>1. After(k, air')
      BY <1>2, <1>4 DEF After
    <2>2. 1 \in 1..Len(air)
      BY <1>1, <1>2
    <2>3. After(k, getstring')
      BY <1>3, <1>4, <2>2 DEF After
    <2>4. QED  BY <2>1, <2>3
  <1>5. /\ Ahead(last)' /\ Ahead(message)' /\ Ahead(str)' /\ Ahead(cmd)'
        /\ Ordered' /\ last' \in 0..sent'
    BY <1>1, <1>4 DEF OInv, Ahead, Whole, Ordered
  <1>6. Sorted(air')
    <2> SUFFICES ASSUME NEW i \in 1..Len(air'), NEW j \in 1..Len(air'), i < j,
                        Begins(air'[i]), Begins(air'[j])
                 PROVE  air'[i].n < air'[j].n
      BY DEF Sorted
    <2>1. i + 1 \in 1..Len(air) /\ j + 1 \in 1..Len(air) /\ i + 1 < j + 1
      BY <1>2
    <2>2. air'[i] = air[i + 1] /\ air'[j] = air[j + 1]
      BY <1>2
    <2>3. QED  BY <2>1, <2>2 DEF OInv, Sorted
  <1>7. ASSUME NEW i \in 1..Len(getstring'), Begins(getstring'[i])
        PROVE  After(getstring'[i].n, air')
    <2>1. CASE getstring'[i] = air[1]
      <3>1. \A j \in 1..Len(air') : 1 < j + 1 /\ 1 \in 1..Len(air)
        BY <1>1, <1>2
      <3>2. QED  BY <1>2, <1>7, <2>1, <3>1 DEF OInv, Sorted, After
    <2>2. CASE i \in 1..Len(getstring) /\ getstring'[i] = getstring[i]
      BY <1>2, <1>7, <2>2 DEF OInv, After
    <2>3. QED  BY <1>3, <2>1, <2>2
  <1>8. QED
    BY <1>5, <1>6, <1>7 DEF OInv, Sorted, After, Begins

LEMMA OInvTimerISR == TInv /\ NInv /\ OInv /\ TimerISR => OInv'
  <1> SUFFICES ASSUME TInv, NInv, OInv, TimerISR PROVE OInv'
    OBVIOUS
  <1>1. /\ UNCHANGED <<air, str, cmd, last, sent, pc>>
        /\ \/ UNCHANGED <<getstring, message>>
           \/ getstring' = <<>> /\ message' \in Received
    BY DEF TimerISR, NoneKept, task, net, hist
  <1>2. CASE UNCHANGED <<getstring, message>>
    BY <1>1, <1>2, OInvKept
  <1>3. CASE getstring' = <<>> /\ message' = message
    BY <1>1, <1>3 DEF OInv, Ahead, Whole, Ordered, After, Sorted, Begins
  <1>4. ASSUME NEW i \in Matches, message' = Found(i), getstring' = <<>>
        PROVE  OInv'
    <2>1. i \in 1..(Len(getstring) - 1) /\ Begins(getstring[i]) /\ Ends(getstring[i + 1])
      BY DEF Matches
    <2>2. message' = getstring[i].n /\ message' \in 1..sent
      <3>1. getstring[i] \in Parts
        BY <2>1 DEF TInv
      <3>2. getstring[i].n \in 1..sent
        BY <2>1, <3>1 DEF Parts, Begins
      <3>3. getstring[i].n = getstring[i + 1].n
        BY <2>1 DEF NInv, Faithful, Fits
      <3>4. QED  BY <1>4, <3>2, <3>3 DEF Found
    <2>3. i \in 1..Len(getstring)
      BY <2>1 DEF TInv
    <2>4. Ahead(message)'
      <3>1. After(message', air)
        BY <2>1, <2>2, <2>3 DEF OInv
      <3>2. After(message', getstring')
        BY <1>4 DEF After
      <3>3. QED  BY <1>1, <2>2, <3>1, <3>2 DEF Ahead, After, Begins, TInv
    <2>5. /\ last < message'
          /\ Whole(str) => str < message'
          /\ Whole(cmd) => cmd < message'
      <3>1. Whole(last)
        <4>1. last \in Nat
          BY DEF OInv, TInv
        <4>2. QED  BY <4>1, ModemAssumption DEF Whole
      <3>2. QED  BY <2>1, <2>2, <2>3, <3>1 DEF OInv, Ahead, Whole, After
    <2>6. Ordered'
      <3>1. Whole(str) => str \in Nat
        BY DEF OInv, Ahead, TInv
      <3>2. QED  BY <1>1, <2>2, <2>5, <3>1 DEF OInv, Ordered, Whole, TInv
    <2>7. QED
      BY <1>1, <1>4, <2>4, <2>6 DEF OInv, Ahead, Whole, After, Sorted, Begins
  <1>5. CASE getstring' = <<>> /\ message' = Cut
    <2>1. ~Whole(message') /\ ~Whole(message)' /\ Cut # NoMsg
      BY <1>5, ModemAssumption DEF Whole
    <2>2. Ordered'
      BY <1>1, <2>1 DEF OInv, Ordered, Whole
    <2>3. QED
      BY <1>1, <1>5, <2>1, <2>2 DEF OInv, Ahead, Whole, After, Sorted, Begins
  <1>6. QED  BY <1>1, <1>2, <1>3, <1>4, <1>5 DEF Received

LEMMA OInvModem == TInv /\ OInv /\ (ModemAnswers \/ Request \/ Drop) => OInv'
  <1> SUFFICES ASSUME TInv, OInv, ModemAnswers \/ Request \/ Drop PROVE OInv'
    OBVIOUS
  <1>1. UNCHANGED <<message, str, cmd, last, pc, getstring>>
    BY DEF ModemAnswers, Request, Drop, rx, task, hist
  <1>2. air \in Seq(Parts) /\ sent \in Nat /\ getstring \in Seq(Parts)
    BY DEF TInv
  \* Parts that begin no request change nothing.
  <1>3. ASSUME sent' = sent,
               \A i \in 1..Len(air') : Begins(air'[i]) => i \in 1..Len(air) /\ air'[i] = air[i]
        PROVE  OInv'
    <2>1. \A i \in 1..Len(air') : Begins(air'[i]) => i \in 1..Len(air) /\ air'[i] = air[i]
      BY <1>3
    <2>2. \A k : After(k, air) => After(k, air')
      BY <2>1 DEF After
    <2>3. Sorted(air')
      BY <2>1 DEF OInv, Sorted
    <2>4. QED
      BY <1>1, <1>3, <2>2, <2>3 DEF OInv, Ahead, Whole, Ordered, Sorted, After, Begins
  <1>4. CASE ModemAnswers
    <2> DEFINE p == Answer(asked)
               q == Ok
    <2>1. ~Begins(p) /\ ~Begins(q)
      BY DEF Begins, Answer, Ok
    <2>2. sent' = sent
      BY <1>4 DEF ModemAnswers, hist
    <2>3. \/ air' = air \/ air' = Append(air, q)
          \/ air' = air \o <<q, p>> \/ air' = air \o <<p, q>>
      BY <1>4, Replies
    <2> HIDE DEF p, q
    <2>4. CASE air' = air
      BY <1>1, <2>2, <2>4, OInvKept
    <2>5. ASSUME air' # air
          PROVE  \A i \in 1..Len(air') : Begins(air'[i]) => i \in 1..Len(air) /\ air'[i] = air[i]
      <3> DEFINE S == Parts \cup {p, q}
      <3>1. air \in Seq(S) /\ p \in S /\ q \in S
        BY <1>2
      <3> HIDE DEF S
      <3>2. \A i \in 1..Len(air') : (i \in 1..Len(air) /\ air'[i] = air[i]) \/ air'[i] \in {p, q}
        <4>1. CASE air' = Append(air, q)     BY <3>1, <4>1
        <4>2. CASE air' = air \o <<q, p>>    BY <3>1, <4>2
        <4>3. CASE air' = air \o <<p, q>>    BY <3>1, <4>3
        <4>4. QED  BY <2>3, <2>5, <4>1, <4>2, <4>3
      <3>3. QED  BY <2>1, <3>2
    <2>6. QED  BY <1>3, <2>2, <2>4, <2>5
  <1>5. CASE Drop
    <2> DEFINE q == Stat
    <2>1. ~Begins(q)
      BY DEF Begins, Stat
    <2>2. air' = Append(air, q) /\ sent' = sent
      BY <1>5 DEF Drop
    <2> HIDE DEF q
    <2>3. \A i \in 1..Len(air') : Begins(air'[i]) => i \in 1..Len(air) /\ air'[i] = air[i]
      BY <1>2, <2>1, <2>2
    <2>4. QED  BY <1>3, <2>2, <2>3
  <1>6. CASE Request
    <2> DEFINE p == Half(sent + 1, 1)
               q == Half(sent + 1, 2)
               T == Parts \cup {p, q}
    <2>1. p.n = sent + 1 /\ ~Begins(q)
      BY DEF Half, Begins
    <2>2. air' = air \o <<p, q>> /\ sent' = sent + 1
      BY <1>6 DEF Request
    <2> HIDE DEF p, q
    <2>3. \A i \in 1..Len(air') : Begins(air'[i]) =>
            \/ i \in 1..Len(air) /\ air'[i] = air[i]
            \/ i = Len(air) + 1 /\ air'[i] = p
      <3>1. air \in Seq(T) /\ p \in T /\ q \in T
        BY <1>2
      <3>2. /\ Len(air') = Len(air) + 2
            /\ \A i \in 1..Len(air) : air'[i] = air[i]
            /\ air'[Len(air) + 1] = p /\ air'[Len(air) + 2] = q
        BY <2>2, <3>1
      <3> HIDE DEF T
      <3>3. \A i \in 1..Len(air') : i \in 1..Len(air) \/ i = Len(air) + 1 \/ i = Len(air) + 2
        BY <1>2, <3>2
      <3>4. QED  BY <2>1, <3>2, <3>3
    <2>4. \A i \in 1..Len(air) : Begins(air[i]) => air[i].n \in 1..sent
      <3>1. \A i \in 1..Len(air) : air[i] \in Parts
        BY <1>2
      <3>2. QED  BY <3>1 DEF Parts, Begins
    <2>5. \A k \in 0..sent : After(k, air) => After(k, air')
      BY <1>2, <2>1, <2>3 DEF After
    <2>6. Sorted(air')
      <3> SUFFICES ASSUME NEW i \in 1..Len(air'), NEW j \in 1..Len(air'), i < j,
                          Begins(air'[i]), Begins(air'[j])
                   PROVE  air'[i].n < air'[j].n
        BY DEF Sorted
      <3>1. i \in 1..Len(air) /\ air'[i] = air[i]
        <4>1. Len(air) \in Nat /\ i \in Nat /\ j \in Nat
          BY <1>2
        <4>2. j \in 1..Len(air) \/ j = Len(air) + 1
          BY <2>3
        <4>3. i # Len(air) + 1
          BY <4>1, <4>2
        <4>4. QED  BY <2>3, <4>3
      <3>2. CASE j \in 1..Len(air) /\ air'[j] = air[j]
        BY <3>1, <3>2 DEF OInv, Sorted
      <3>3. CASE air'[j] = p
        BY <1>2, <2>1, <2>4, <3>1, <3>3
      <3>4. QED  BY <2>3, <3>2, <3>3
    <2>7. \A i \in 1..Len(getstring) : Begins(getstring[i]) => getstring[i].n \in 0..sent
      <3>1. \A i \in 1..Len(getstring) : getstring[i] \in Parts
        BY <1>2
      <3>2. QED  BY <1>2, <3>1 DEF Parts, Begins
    <2>8. \A i \in 1..Len(getstring) : Begins(getstring[i]) => After(getstring[i].n, air')
      BY <2>5, <2>7 DEF OInv
    <2>9. Ahead(last)' /\ Ahead(message)' /\ Ahead(str)' /\ Ahead(cmd)' /\ last' \in 0..sent'
      <3>1. ASSUME NEW k, Ahead(k)
            PROVE  Whole(k) => k \in 0..sent' /\ After(k, getstring) /\ After(k, air')
        <4>1. CASE ~Whole(k)
          BY <4>1
        <4>2. CASE Whole(k)
          <5>1. k \in 0..sent /\ After(k, getstring) /\ After(k, air)
            BY <3>1, <4>2 DEF Ahead
          <5>2. k \in 0..sent'
            BY <1>2, <2>2, <5>1
          <5>3. After(k, air')
            BY <2>5, <5>1
          <5>4. QED  BY <5>1, <5>2, <5>3
        <4>3. QED  BY <4>1, <4>2
      <3>2. getstring' = getstring /\ last \in 0..sent'
        BY <1>1, <1>2, <2>2 DEF OInv
      <3>3. \A k : Ahead(k) =>
              (Whole(k) => k \in 0..sent' /\ After(k, getstring') /\ After(k, air'))
        BY <3>1, <3>2
      <3>4. QED  BY <1>1, <3>2, <3>3 DEF OInv, Ahead
    <2>10. QED
      BY <1>1, <2>6, <2>8, <2>9 DEF OInv, Ordered, Sorted, After, Begins
  <1>7. QED  BY <1>4, <1>5, <1>6

LEMMA OInvAlways == Spec => []OInv
  <1>1. TInv /\ NInv /\ OInv /\ [Next]_vars => OInv'
    <2>1. OInv /\ UNCHANGED vars => OInv'
      BY OInvKept DEF vars, rx, net, task, hist
    <2>2. QED
      BY <2>1, OInvTask, OInvUartISR, OInvTimerISR, OInvModem DEF Next
  <1>2. QED  BY <1>1, OInvInit, TInvAlways, NInvAlways, PTL DEF Spec

\* Requests are executed in the order they were made, each at most once.
THEOREM RequestsInOrder == Spec => InOrderOnce
  <1>1. OInv /\ [Next]_vars => [Execute => cmd > last]_vars
    <2>1. OInv /\ Execute => cmd > last
      <3> SUFFICES ASSUME OInv, Execute PROVE cmd > last
        OBVIOUS
      <3>1. pc = "exec"
        BY DEF Execute
      <3>2. cmd # NoMsg /\ last < cmd /\ cmd \in 0..sent /\ last \in 0..sent
        BY <3>1 DEF OInv, Ordered, Whole, Ahead
      <3>3. QED  BY <3>2
    <2>2. QED  BY <2>1
  <1>2. QED  BY <1>1, OInvAlways, PTL DEF Spec, InOrderOnce

-----------------------------------------------------------------------------
(* The notice of a lost link.                                              *)

Opened == Answer(<<"open", 0>>)

\* Behind every answer that opens the link comes the notice that it is gone.
Followed(s) ==
  \A i \in 1..Len(s) : s[i] = Opened => \E j \in 1..Len(s) : i < j /\ s[j] = Stat

AInv ==
  /\ broker = "closed" => Followed(air)
  /\ Opened \in fifo => /\ pc = "open" /\ waiting
                        /\ broker = "closed" => Stat \in fifo \/ Contains(air, Stat)
  /\ Link_s /\ broker = "closed" =>
       Contains(air, Stat) \/ Contains(getstring, Stat) \/ Stat \in fifo \/ eaten
  /\ pc = "rdy" => ~Link_s
  /\ InLoop => fifo = {}

LEMMA Apart == Opened # Stat /\ Opened # Ready /\ Opened # Ok /\ Stat # Ready
  BY DEF Opened, Answer, Stat, Ready, Ok

LEMMA StatInTail ==
  ASSUME NEW S, NEW s \in Seq(S), s # <<>>, Contains(s, Stat)
  PROVE  s[1] = Stat \/ Contains(Tail(s), Stat)
  <1>1. PICK i \in 1..Len(s) : s[i] = Stat
    BY DEF Contains
  <1>2. CASE i = 1
    BY <1>1, <1>2
  <1>3. CASE i # 1
    <2>1. i - 1 \in 1..Len(Tail(s)) /\ Tail(s)[i - 1] = s[i]
      BY <1>3
    <2>2. QED  BY <1>1, <2>1 DEF Contains
  <1>4. QED  BY <1>2, <1>3

LEMMA StatAppended ==
  ASSUME NEW S, NEW s \in Seq(S), NEW p \in S
  PROVE  /\ Contains(s, Stat) => Contains(Append(s, p), Stat)
         /\ p = Stat => Contains(Append(s, p), Stat)
  <1>1. /\ Len(Append(s, p)) = Len(s) + 1 /\ Append(s, p)[Len(s) + 1] = p /\ Len(s) \in Nat
        /\ \A i \in 1..Len(s) : i \in 1..(Len(s) + 1) /\ Append(s, p)[i] = s[i]
    OBVIOUS
  <1>2. Contains(s, Stat) => Contains(Append(s, p), Stat)
    BY <1>1 DEF Contains
  <1>3. Len(s) + 1 \in 1..Len(Append(s, p))
    BY <1>1
  <1>4. QED  BY <1>1, <1>2, <1>3 DEF Contains

LEMMA FollowedTail ==
  ASSUME NEW S, NEW s \in Seq(S), s # <<>>, Followed(s)
  PROVE  Followed(Tail(s)) /\ (s[1] = Opened => Contains(Tail(s), Stat))
  <1>1. /\ Len(Tail(s)) = Len(s) - 1 /\ Len(s) \in Nat \ {0}
        /\ \A k \in 1..(Len(s) - 1) : Tail(s)[k] = s[k + 1]
    OBVIOUS
  <1>2. ASSUME NEW i \in 1..Len(s), s[i] = Opened
        PROVE  \E k \in 1..Len(Tail(s)) : i - 1 < k /\ Tail(s)[k] = Stat
    <2>1. PICK j \in 1..Len(s) : i < j /\ s[j] = Stat
      BY <1>2 DEF Followed
    <2>2. j - 1 \in 1..(Len(s) - 1) /\ i - 1 < j - 1 /\ j - 1 + 1 = j
      BY <2>1, <1>1
    <2>3. Tail(s)[j - 1] = Stat
      BY <1>1, <2>1, <2>2
    <2>4. QED  BY <1>1, <2>2, <2>3
  <1>3. Followed(Tail(s))
    <2>1. ASSUME NEW k \in 1..Len(Tail(s)), Tail(s)[k] = Opened
          PROVE  \E j \in 1..Len(Tail(s)) : k < j /\ Tail(s)[j] = Stat
      <3>1. k + 1 \in 1..Len(s) /\ s[k + 1] = Opened /\ k + 1 - 1 = k
        BY <1>1, <2>1
      <3>2. QED  BY <1>2, <3>1
    <2>2. QED  BY <2>1 DEF Followed
  <1>4. s[1] = Opened => Contains(Tail(s), Stat)
    BY <1>1, <1>2 DEF Contains
  <1>5. QED  BY <1>3, <1>4

LEMMA FollowedAppend ==
  ASSUME NEW S, NEW s \in Seq(S), NEW p \in S, p = Stat \/ (Followed(s) /\ p # Opened)
  PROVE  Followed(Append(s, p))
  <1> DEFINE t == Append(s, p)
  <1>1. /\ Len(t) = Len(s) + 1 /\ t[Len(s) + 1] = p /\ Len(s) \in Nat
        /\ \A i \in 1..Len(s) : t[i] = s[i]
    OBVIOUS
  <1> HIDE DEF t
  <1>2. ASSUME NEW i \in 1..Len(t), t[i] = Opened
        PROVE  \E j \in 1..Len(t) : i < j /\ t[j] = Stat
    <2>1. i # Len(s) + 1
      BY <1>1, <1>2, Apart
    <2>2. i \in 1..Len(s) /\ s[i] = Opened /\ Len(s) + 1 \in 1..Len(t) /\ i < Len(s) + 1
      BY <1>1, <1>2, <2>1
    <2>3. CASE p = Stat
      BY <1>1, <2>2, <2>3
    <2>4. CASE Followed(s)
      <3>1. PICK j \in 1..Len(s) : i < j /\ s[j] = Stat
        BY <2>2, <2>4 DEF Followed
      <3>2. j \in 1..Len(t) /\ t[j] = Stat
        BY <1>1, <3>1
      <3>3. QED  BY <3>1, <3>2
    <2>5. QED  BY <2>3, <2>4
  <1>3. Followed(t)
    BY <1>2 DEF Followed
  <1>4. QED  BY <1>3 DEF t

LEMMA AInvInit == Init => AInv
  <1> SUFFICES ASSUME Init PROVE AInv
    OBVIOUS
  <1>1. Followed(air)
    BY Apart DEF Init, Followed
  <1>2. QED  BY <1>1 DEF Init, AInv, InLoop

\* Steps that move no part and leave the fifo alone.
LEMMA AInvKept ==
  ASSUME AInv, UNCHANGED <<air, getstring, fifo, broker, Link_s, eaten, waiting>>,
         pc' = pc \/ Opened \notin fifo, pc' # "rdy" \/ pc = "rdy", InLoop' => InLoop
  PROVE  AInv'
  BY DEF AInv, Followed

LEMMA AInvTask == TInv /\ AInv /\ Task => AInv'
  <1> SUFFICES ASSUME TInv, AInv, Task PROVE AInv'
    OBVIOUS
  <1>1. CASE GetRdy
    BY <1>1, Apart DEF GetRdy, AInv, InLoop, Followed, net, rx, hist
  <1>2. CASE SendCom
    <2>1. /\ fifo' = {} /\ eaten' = (eaten \/ Stat \in fifo)
          /\ UNCHANGED <<air, getstring, broker, Link_s, pc>>
      BY <1>2 DEF SendCom, rx
    <2>2. QED  BY <2>1 DEF AInv, InLoop, Followed
  <1>3. CASE Poll
    <2> DEFINE ok == Accepted(Com) \in fifo
    <2>1. /\ fifo' = {} /\ UNCHANGED <<air, getstring, broker>> /\ waiting
          /\ eaten' = (Stat \in fifo \/ (eaten /\ ~(pc = "open" /\ ok)))
          /\ \/ UNCHANGED <<Link_s, pc>> /\ ~ok
             \/ Link_s' = (IF pc = "open" THEN ok ELSE Link_s) /\ Proceed(ok)
      BY <1>3 DEF Poll, rx, net
    <2>2. pc \in Sending /\ (pc = "open" => step = 0)
      BY <2>1 DEF TInv, PlaceOK
    <2>3. pc' # "rdy"
      BY <2>1, <2>2 DEF Proceed, Sending
    <2>4. pc = "open" /\ ok => Opened \in fifo
      BY <2>2 DEF Opened, Com, Accepted
    <2> HIDE DEF ok
    <2>5. Link_s' /\ broker' = "closed" =>
            Contains(air, Stat) \/ Contains(getstring, Stat) \/ eaten'
      <3>1. CASE pc = "open" /\ ok
        BY <2>1, <2>4, <3>1 DEF AInv
      <3>2. CASE ~(pc = "open" /\ ok)
        BY <2>1, <3>2 DEF AInv
      <3>3. QED  BY <3>1, <3>2
    <2>6. QED  BY <2>1, <2>3, <2>5 DEF AInv, Followed
  <1>4. CASE LinkUart \/ LeaveLoop \/ CopyRequest \/ ClearRequest \/ Execute
    <2>1. /\ UNCHANGED <<air, getstring, fifo, broker, Link_s, eaten, waiting>>
          /\ pc' = pc \/ pc # "open"
          /\ pc' # "rdy" /\ (InLoop' => InLoop)
      BY <1>4 DEF LinkUart, LeaveLoop, CopyRequest, ClearRequest, Execute, rx, net, hist, InLoop
    <2>2. QED  BY <2>1, AInvKept DEF AInv
  <1>5. CASE LinkTimer
    <2>1. /\ UNCHANGED <<air, getstring, fifo, broker, Link_s, eaten, waiting>>
          /\ pc = "register" /\ pc' = "open"
      BY <1>5 DEF LinkTimer, rx, net, hist
    <2>2. QED  BY <2>1, AInvKept DEF AInv, InLoop
  <1>6. QED  BY <1>1, <1>2, <1>3, <1>4, <1>5 DEF Task

LEMMA AInvUartISR == TInv /\ SInv /\ AInv /\ UartISR => AInv'
  <1> SUFFICES ASSUME TInv, SInv, AInv, UartISR PROVE AInv'
    OBVIOUS
  <1>1. /\ air # <<>> /\ air' = Tail(air)
        /\ UNCHANGED <<route, pc, step, waiting, Link_s, broker, eaten>>
        /\ \/ /\ route = "fifo" /\ getstring' = getstring
              /\ fifo' = fifo \cup ({Head(air)} \cap Sought)
           \/ /\ route = "callback" /\ getstring' = Append(getstring, Head(air))
              /\ fifo' = fifo
    BY DEF UartISR, task, hist
  <1>2. air \in Seq(Parts) /\ getstring \in Seq(Parts) /\ Head(air) = air[1] /\ air[1] \in Parts
    BY <1>1 DEF TInv
  <1>3. broker = "closed" => Followed(air') /\ (air[1] = Opened => Contains(air', Stat))
    BY <1>1, <1>2, FollowedTail DEF AInv
  <1>4. Contains(air, Stat) => air[1] = Stat \/ Contains(air', Stat)
    BY <1>1, <1>2, StatInTail
  <1>5. CASE route = "fifo"
    <2>1. ~InLoop
      BY <1>5 DEF TInv, PlaceOK, SInv, SwitchOK, BroughtUp, InLoop, Sending
    <2>2. fifo' = fifo \cup ({air[1]} \cap Sought) /\ getstring' = getstring
      BY <1>1, <1>2, <1>5
    <2>3. Stat \in Sought
      BY DEF Sought
    <2>4. air[1] = Opened /\ Opened \in Sought => pc = "open" /\ waiting
      <3>1. Opened \in Sought => pc = "open"
        BY Apart DEF Sought, Accepted, Opened, Answer, Com
      <3>2. pc = "open" => waiting
        BY <1>5 DEF SInv, SwitchOK, BroughtUp
      <3>3. QED  BY <3>1, <3>2
    <2>5. Opened \in fifo' => /\ pc = "open" /\ waiting
                              /\ broker = "closed" => Stat \in fifo' \/ Contains(air', Stat)
      <3>1. CASE Opened \in fifo
        BY <1>4, <2>2, <2>3, <3>1 DEF AInv
      <3>2. CASE Opened \notin fifo
        BY <1>3, <2>2, <2>4, <3>2
      <3>3. QED  BY <3>1, <3>2
    <2>6. Link_s /\ broker = "closed" =>
            Contains(air', Stat) \/ Contains(getstring', Stat) \/ Stat \in fifo' \/ eaten
      BY <1>4, <2>2, <2>3 DEF AInv
    <2>7. QED  BY <1>1, <1>3, <2>1, <2>5, <2>6 DEF AInv, InLoop, Followed
  <1>6. CASE route = "callback"
    <2>1. fifo' = fifo /\ getstring' = Append(getstring, air[1])
      BY <1>1, <1>2, <1>6
    <2>2. /\ Contains(getstring, Stat) => Contains(getstring', Stat)
          /\ air[1] = Stat => Contains(getstring', Stat)
      BY <1>2, <2>1, StatAppended
    <2>3. Opened \notin fifo
      BY <1>6 DEF AInv, SInv, SwitchOK, BroughtUp
    <2>4. Link_s /\ broker = "closed" =>
            Contains(air', Stat) \/ Contains(getstring', Stat) \/ Stat \in fifo' \/ eaten
      BY <1>4, <2>1, <2>2 DEF AInv
    <2>5. QED  BY <1>1, <1>3, <2>1, <2>3, <2>4 DEF AInv, InLoop, Followed
  <1>7. QED  BY <1>1, <1>5, <1>6

LEMMA AInvTimerISR == AInv /\ TimerISR => AInv'
  <1> SUFFICES ASSUME AInv, TimerISR PROVE AInv'
    OBVIOUS
  <1>1. /\ UNCHANGED <<air, fifo, broker, eaten, waiting, pc>>
        /\ \/ UNCHANGED <<getstring, Link_s>>
           \/ Link_s' = (Link_s /\ ~Contains(getstring, Stat))
    BY DEF TimerISR, task, net, hist, LinkAfter
  <1>2. Link_s' /\ broker' = "closed" =>
          Contains(air', Stat) \/ Contains(getstring', Stat) \/ Stat \in fifo' \/ eaten'
    <2>1. CASE UNCHANGED <<getstring, Link_s>>
      BY <1>1, <2>1 DEF AInv
    <2>2. CASE Link_s' = (Link_s /\ ~Contains(getstring, Stat))
      BY <1>1, <2>2 DEF AInv
    <2>3. QED  BY <1>1, <2>1, <2>2
  <1>3. Link_s' => Link_s
    BY <1>1
  <1>4. QED  BY <1>1, <1>2, <1>3 DEF AInv, InLoop, Followed

LEMMA AInvModem == TInv /\ AInv /\ (ModemAnswers \/ Request \/ Drop) => AInv'
  <1> SUFFICES ASSUME TInv, AInv, ModemAnswers \/ Request \/ Drop PROVE AInv'
    OBVIOUS
  <1>1. UNCHANGED <<getstring, fifo, Link_s, eaten, waiting, pc>>
    BY DEF ModemAnswers, Request, Drop, rx, task, hist
  <1>2. air \in Seq(Parts)
    BY DEF TInv
  <1>3. ASSUME NEW p \in Parts, air' = Append(air, p),
               broker' = "closed" => p = Stat \/ (broker = "closed" /\ p # Opened)
        PROVE  AInv'
    <2>1. /\ Contains(air, Stat) => Contains(air', Stat)
          /\ p = Stat => Contains(air', Stat)
      BY <1>2, <1>3, StatAppended
    <2>2. broker' = "closed" => Followed(air')
      BY <1>2, <1>3, FollowedAppend DEF AInv
    <2>3. QED  BY <1>1, <1>3, <2>1, <2>2 DEF AInv, InLoop, Followed
  <1>4. CASE ModemAnswers
    <2>1. asked \in Coms
      BY <1>4, TypeParts DEF ModemAnswers, RestOK, TInv
    <2>2. CASE UNCHANGED <<air, broker>>
      BY <1>1, <2>2 DEF AInv, InLoop, Followed
    <2>3. Ok \in Parts /\ Ok # Opened /\ Answer(asked) \in Parts
      BY <2>1, NewParts, Apart
    <2>4. CASE air' = Append(air, Ok) /\ broker' \in {broker, asked[1]}
      <3>1. broker' = "closed" => broker = "closed"
        BY <2>1, <2>4 DEF Coms, Sending
      <3>2. QED  BY <1>3, <2>3, <2>4, <3>1
    <2>5. CASE /\ \/ air' = air \o <<Ok, Answer(asked)>>
                  \/ air' = air \o <<Answer(asked), Ok>>
               /\ broker' = IF asked[1] \in {"open", "conn", "sub"} THEN asked[1] ELSE broker
      <3>1. broker' = "closed" => broker = "closed" /\ asked # <<"open", 0>>
        BY <2>5
      <3>2. asked # <<"open", 0>> => Answer(asked) # Opened
        BY DEF Opened, Answer
      <3>3. PICK a \in Parts, b \in Parts :
              /\ air' = Append(Append(air, a), b) /\ Append(air, a) \in Seq(Parts)
              /\ broker' = "closed" => a # Opened /\ b # Opened
        <4> DEFINE p == Answer(asked)
                   q == Ok
        <4>1. /\ p \in Parts /\ q \in Parts
              /\ air' = air \o <<q, p>> \/ air' = air \o <<p, q>>
              /\ broker' = "closed" => p # Opened /\ q # Opened
          BY <2>3, <2>5, <3>1, <3>2
        <4> HIDE DEF p, q
        <4>2. /\ air \o <<q, p>> = Append(Append(air, q), p) /\ Append(air, q) \in Seq(Parts)
              /\ air \o <<p, q>> = Append(Append(air, p), q) /\ Append(air, p) \in Seq(Parts)
          BY <1>2, <4>1
        <4>3. QED  BY <4>1, <4>2
      <3>4. broker' = "closed" => Followed(air')
        <4>1. SUFFICES ASSUME broker' = "closed" PROVE Followed(air')
          OBVIOUS
        <4>2. Followed(Append(air, a))
          BY <1>2, <3>1, <3>3, <4>1, FollowedAppend DEF AInv
        <4>3. QED  BY <3>3, <4>1, <4>2, FollowedAppend
      <3>5. Contains(air, Stat) => Contains(air', Stat)
        <4>1. Contains(air, Stat) => Contains(Append(air, a), Stat)
          BY <1>2, StatAppended
        <4>2. Contains(Append(air, a), Stat) => Contains(air', Stat)
          BY <3>3, StatAppended
        <4>3. QED  BY <4>1, <4>2
      <3>6. QED  BY <1>1, <3>1, <3>4, <3>5 DEF AInv, InLoop
    <2>6. QED  BY <1>4, <2>2, <2>4, <2>5, Replies
  <1>5. CASE Request
    BY <1>1, <1>5 DEF Request, AInv, InLoop
  <1>6. CASE Drop
    <2>1. air' = Append(air, Stat) /\ Stat \in Parts
      BY <1>6, NewParts DEF Drop
    <2>2. QED  BY <1>3, <2>1
  <1>7. QED  BY <1>4, <1>5, <1>6

LEMMA AInvAlways == Spec => []AInv
  <1>1. TInv /\ SInv /\ AInv /\ [Next]_vars => AInv'
    <2>1. AInv /\ UNCHANGED vars => AInv'
      BY DEF vars, rx, net, task, hist, AInv, InLoop, Followed
    <2>2. QED  BY <2>1, AInvTask, AInvUartISR, AInvTimerISR, AInvModem DEF Next
  <1>2. QED  BY <1>1, AInvInit, TInvAlways, SInvAlways, PTL DEF Spec

\* The notice that the link is lost comes behind the answer that opened it and
\* is not lost on its way: it reaches the call-back, or a command's sendcom
\* takes or drops it.
THEOREM LossesAccounted == Spec => []LossAccounted
  <1>1. AInv => LossAccounted
    BY DEF AInv, LossAccounted
  <1>2. QED  BY <1>1, AInvAlways, PTL
=============================================================================

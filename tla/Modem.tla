-------------------------------- MODULE Modem --------------------------------
(***************************************************************************)
(* The cloud link: EC20_task of main.cpp, the EC20 modem driver under it   *)
(* and ThingsBoard's receive path.  The task brings the modem up (init,    *)
(* Register), connects to the broker (Gateway::link_thingsBoard) and then  *)
(* polls for a lost link and for requests from the cloud.                  *)
(*                                                                         *)
(* The modem's bytes have two ways through the UART interrupt.  While an   *)
(* AT command waits for its answer (EC20::sendcom) they go to the UART's   *)
(* fifo, where sendcom searches them for the answer; otherwise they go to  *)
(* EC20::Callback, which collects them until the 10 ms timer has seen      *)
(* `freetime' quiet ticks and Receive_data looks for a request or for the  *)
(* notice that the link is lost.                                           *)
(*                                                                         *)
(* What the modem sends is a sequence of parts: "OK", an answer of its own *)
(* to one command ("+QMTOPEN: 1,0"), the notice "+QMTSTAT: 1,1", or one    *)
(* half of a request "+QMTRECV: ...", which the switch between the two     *)
(* ways or a pause can tear.  Requests are numbered.                       *)
(***************************************************************************)
EXTENDS Naturals, SequencesExt

CONSTANTS
  Steps,      \* AT commands of Register, 7
  OkSteps,    \* those of them for which "OK" is enough, 4..6
  Polls,      \* further polls of sendcom after the first, 50
  FreeTime,   \* freetime, 5
  NoMsg,      \* no request, no command
  Spliced,    \* a request put together from halves of two
  Cut,        \* the beginning of a request, taken for the whole
  MaxMsgs,    \* bound: requests the cloud makes
  MaxDrops,   \* bound: times the broker's link is lost
  MaxFails,   \* bound: AT commands whose sendcom times out
  MaxBuf      \* bound: parts under way and in getstring

ASSUME ModemAssumption ==
  /\ Steps \in Nat \ {0} /\ OkSteps \subseteq 0..(Steps - 1)
  /\ Polls \in Nat /\ FreeTime \in Nat \ {0}
  /\ MaxMsgs \in Nat /\ MaxDrops \in Nat /\ MaxFails \in Nat /\ MaxBuf \in Nat \ {0}
  /\ {NoMsg, Spliced, Cut} \cap Nat = {}
  /\ NoMsg # Spliced /\ NoMsg # Cut /\ Spliced # Cut

VARIABLES
  \* UART: who gets a byte, the fifo
  route, fifo,
  \* EC20
  init_flag, CallBack_flag, flag,   \* flag: Call_back_set's static variable
  getstring, reveive_len, freetime_t, timer, Link_s, message,
  \* EC20_task: where it is, the Register step, whether it is in sendcom's
  \* loop, and that loop's delay_time
  pc, step, waiting, delay_time,
  str, cmd,                         \* GetRxbuf's copy, ThingsBoard::cmd
  \* the modem and the broker behind it
  asked, air, broker,
  \* history, for the properties and the bounds only:
  sent, last,  \* requests made so far; the last one executed
  eaten,       \* sendcom has read or dropped the notice of the present link
  used

switch == <<init_flag, CallBack_flag, flag>>
rx     == <<getstring, reveive_len, freetime_t>>
task   == <<pc, step, waiting, delay_time, str, cmd>>
net    == <<asked, air, broker>>
hist   == <<sent, last, eaten, used>>
vars   == <<route, fifo, switch, rx, timer, Link_s, message, task, net, hist>>

-----------------------------------------------------------------------------
Stat       == [kind |-> "stat"]
Ready      == [kind |-> "rdy"]
Ok         == [kind |-> "ok"]
Answer(c)  == [kind |-> "answer", to |-> c]
Half(n, h) == [kind |-> "recv", n |-> n, half |-> h]

\* Where the task sends an AT command, and where it serves the link.
Sending == {"init", "register", "open", "conn", "sub"}
InLoop  == pc \in {"loop", "clear", "exec"}

\* The command that is being sent, by its place.
Com   == <<pc, step>>
\* What sendcom takes for the answer to command c: "OK" for many of them, so
\* that the late answer to one serves another.
Accepted(c) ==
  IF c[1] \in {"init", "sub"} \/ (c[1] = "register" /\ c[2] \in OkSteps)
  THEN Ok ELSE Answer(c)

\* What sendcom and getrdy look for in the fifo, and the notice they can lose;
\* the rest of it plays no part.
Sought == {Accepted(Com), Ready, Stat}

Coms  == Sending \X (0..Steps)
NoCom == <<"none", 0>>

Requests == 1..sent \cup {NoMsg, Spliced, Cut}

\* The types of the driver's and the task's variables; Register's step does
\* not pass the link step that ends it.
TypeOK ==
  /\ route \in {"fifo", "callback"} /\ fifo \subseteq {Ready, Stat, Ok} \cup {Answer(c) : c \in Coms}
  /\ init_flag \in BOOLEAN /\ CallBack_flag \in BOOLEAN /\ flag \in BOOLEAN
  /\ timer \in BOOLEAN /\ Link_s \in BOOLEAN /\ eaten \in BOOLEAN /\ waiting \in BOOLEAN
  /\ reveive_len \in 0..MaxBuf /\ freetime_t \in 0..(FreeTime - 1)
  /\ pc \in {"rdy", "loop", "clear", "exec"} \cup Sending
  /\ step \in 0..(Steps + 1) /\ delay_time \in 0..Polls
  /\ message \in Requests /\ str \in Requests /\ cmd \in Requests
  /\ asked \in Coms \cup {NoCom}
  /\ broker \in {"closed", "open", "conn", "sub"}
  /\ Len(air) <= MaxBuf /\ Len(getstring) <= MaxBuf

Init ==
  /\ route = "fifo" /\ fifo = {}
  /\ init_flag = FALSE /\ CallBack_flag = FALSE /\ flag = TRUE
  /\ getstring = <<>> /\ reveive_len = 0 /\ freetime_t = 0
  /\ timer = FALSE /\ Link_s = FALSE /\ message = NoMsg
  /\ pc = "rdy" /\ step = 0 /\ waiting = FALSE /\ delay_time = 0
  /\ str = NoMsg /\ cmd = NoMsg
  /\ asked = NoCom /\ air = <<Ready>> /\ broker = "closed"
  /\ sent = 0 /\ last = 0 /\ eaten = FALSE
  /\ used = [drops |-> 0, fails |-> 0]

-----------------------------------------------------------------------------
(* sendcom and its switch.                                                 *)

\* Call_back_set(false): the bytes go to the fifo; how it was is remembered.
SwitchOff ==
  IF init_flag
  THEN flag' = CallBack_flag /\ CallBack_flag' = FALSE /\ route' = "fifo"
  ELSE UNCHANGED <<flag, CallBack_flag, route>>

\* Call_back_set(true): it is as it was.  The faulty variant forgets to switch.
SwitchForgotten == CallBack_flag' = flag /\ UNCHANGED route

SwitchBack ==
  IF init_flag
  THEN CallBack_flag' = flag /\ route' = IF flag THEN "callback" ELSE route
  ELSE UNCHANGED <<CallBack_flag, route>>

\* sendcom up to its loop: the fifo is emptied and the command written.  What a
\* modem that is still busy with an earlier command does is not known.
SendCom ==
  /\ pc \in Sending /\ ~waiting
  /\ pc = "register" => step < Steps
  /\ SwitchOff
  /\ fifo' = {}
  /\ eaten' = (eaten \/ Stat \in fifo)
  /\ asked' \in IF asked = NoCom THEN {Com} ELSE {Com, asked}
  /\ waiting' = TRUE /\ delay_time' = Polls
  /\ UNCHANGED <<init_flag, rx, timer, Link_s, message, pc, step, str, cmd, air, broker,
                 sent, last, used>>

\* Faulty variant of Proceed: every command counts as a step.
ProceedCounting(ok) ==
  /\ pc' = CASE pc = "init" -> "register"
             [] pc = "open" -> "conn"
             [] pc = "conn" -> "sub"
             [] pc = "sub"  -> "loop"
             [] OTHER       -> pc
  /\ step' = step + 1

\* Where the task goes on.  Only Register looks at the results: it repeats a
\* step that failed.
Proceed(ok) ==
  /\ pc' = CASE pc = "init" -> "register"
             [] pc = "open" -> "conn"
             [] pc = "conn" -> "sub"
             [] pc = "sub"  -> "loop"
             [] OTHER       -> pc
  /\ step' = IF pc = "register" /\ ok THEN step + 1 ELSE step

\* One round of sendcom's loop.  Its 100 ms delay is longer than the quiet
\* ticks after which the timer interrupt empties getstring.  An answer is one
\* part: what was read in earlier rounds need not be kept.
Poll ==
  LET ok == Accepted(Com) \in fifo IN
  /\ waiting
  /\ timer => getstring = <<>>
  /\ fifo' = {}
  /\ eaten' = (Stat \in fifo \/ (eaten /\ ~(pc = "open" /\ ok)))
  /\ IF ~ok /\ delay_time > 0
     THEN /\ delay_time' = delay_time - 1
          /\ UNCHANGED <<waiting, CallBack_flag, route, Link_s, pc, step, used>>
     ELSE /\ ok \/ used.fails < MaxFails
          /\ used' = IF ok THEN used ELSE [used EXCEPT !.fails = @ + 1]
          /\ waiting' = FALSE /\ delay_time' = 0
          /\ SwitchBack
          /\ Link_s' = IF pc = "open" THEN ok ELSE Link_s
          /\ Proceed(ok)
  /\ UNCHANGED <<init_flag, flag, rx, timer, message, str, cmd, net, sent, last>>

-----------------------------------------------------------------------------
(* EC20_task.                                                              *)

\* getrdy: the modem has started.
GetRdy ==
  /\ pc = "rdy" /\ fifo # {}
  /\ fifo' = {}
  /\ pc' = IF Ready \in fifo THEN "init" ELSE pc
  /\ UNCHANGED <<route, switch, rx, timer, Link_s, message, step, waiting, delay_time, str,
                 cmd, net, hist>>

\* Faulty variant of LinkUart: CallBack_flag stays as it is.
LinkUartOnly ==
  /\ pc = "register" /\ step = Steps
  /\ init_flag' = TRUE /\ route' = "callback"
  /\ step' = Steps + 1
  /\ UNCHANGED <<CallBack_flag, flag, fifo, rx, timer, Link_s, message, pc, waiting,
                 delay_time, str, cmd, net, hist>>

\* Link_UART_CALLback, the last step of Register.
LinkUart ==
  /\ pc = "register" /\ step = Steps
  /\ init_flag' = TRUE /\ CallBack_flag' = TRUE /\ route' = "callback"
  /\ step' = Steps + 1
  /\ UNCHANGED <<flag, fifo, rx, timer, Link_s, message, pc, waiting, delay_time,
                 str, cmd, net, hist>>

\* Link_TIMER_CALLback, then Gateway::link_thingsBoard.
LinkTimer ==
  /\ pc = "register" /\ step = Steps + 1
  /\ timer' = TRUE
  /\ pc' = "open" /\ step' = 0
  /\ UNCHANGED <<route, fifo, switch, rx, Link_s, message, waiting, delay_time,
                 str, cmd, net, hist>>

\* The link is lost: begin again.
LeaveLoop ==
  /\ pc = "loop" /\ ~Link_s
  /\ pc' = "init"
  /\ UNCHANGED <<route, fifo, switch, rx, timer, Link_s, message, step, waiting,
                 delay_time, str, cmd, net, hist>>

\* Getdatacheck: GetRxbuf copies the request ...
CopyRequest ==
  /\ pc = "loop" /\ Link_s /\ message # NoMsg
  /\ str' = message
  /\ pc' = "clear"
  /\ UNCHANGED <<route, fifo, switch, rx, timer, Link_s, message, step, waiting,
                 delay_time, cmd, net, hist>>

\* ... and clears it; the request becomes a command, the beginning of one is
\* no document and does not.  The faulty variant does not clear it.
MessageKept == message
MessageCleared == NoMsg

ClearRequest ==
  /\ pc = "clear"
  /\ message' = MessageCleared
  /\ str' = NoMsg
  /\ IF str = Cut THEN pc' = "loop" /\ UNCHANGED cmd
                  ELSE pc' = "exec" /\ cmd' = str
  /\ UNCHANGED <<route, fifo, switch, rx, timer, Link_s, step, waiting, delay_time,
                 net, hist>>

\* Gateway::Command executes it.
Execute ==
  /\ pc = "exec"
  /\ last' = cmd
  /\ cmd' = NoMsg
  /\ pc' = "loop"
  /\ UNCHANGED <<route, fifo, switch, rx, timer, Link_s, message, step, waiting,
                 delay_time, str, net, sent, eaten, used>>

Task == \/ GetRdy \/ SendCom \/ Poll \/ LinkUart \/ LinkTimer
        \/ LeaveLoop \/ CopyRequest \/ ClearRequest \/ Execute

-----------------------------------------------------------------------------
(* The interrupts.                                                         *)

\* One part arrives.
UartISR ==
  /\ air # <<>>
  /\ air' = Tail(air)
  /\ \/ /\ route = "fifo"
        /\ fifo' = fifo \cup ({Head(air)} \cap Sought)
        /\ UNCHANGED getstring
     \/ /\ route = "callback" /\ Len(getstring) < MaxBuf
        /\ getstring' = Append(getstring, Head(air))
        /\ UNCHANGED fifo
  /\ UNCHANGED <<route, switch, reveive_len, freetime_t, timer, Link_s, message, task,
                 asked, broker, hist>>

Begins(p) == p.kind = "recv" /\ p.half = 1
Ends(p)   == p.kind = "recv" /\ p.half = 2

\* Faulty variant of Matches: one that ends the buffer is overlooked.
MatchesShort ==
  {i \in 1..(Len(getstring) - 2) : Begins(getstring[i]) /\ Ends(getstring[i + 1])}

\* Where the pattern for a request matches: its begin and an end that follows.
Matches ==
  {i \in 1..(Len(getstring) - 1) : Begins(getstring[i]) /\ Ends(getstring[i + 1])}

\* The pattern ends at the last quote that has come on the line: where a request
\* was torn behind its second quote, it matches the beginning alone.
Torn == {i \in 1..Len(getstring) : Begins(getstring[i])} \ Matches

\* Faulty variant of Received: from the first begin to the last end.
ReceivedGreedy ==
  LET ends == {j \in 1..Len(getstring) : Ends(getstring[j])} IN
  IF Matches = {} THEN {message}
  ELSE {IF getstring[Min(Matches)].n = getstring[Max(ends)].n
        THEN getstring[Min(Matches)].n ELSE Spliced}

\* Receive_data: the first request found takes the place of the one before it,
\* and the beginning of a torn one may.
Found(i) == IF getstring[i].n = getstring[i + 1].n THEN getstring[i].n ELSE Spliced
Received ==
  (IF Matches = {} THEN {message}
   ELSE {Found(i) : i \in {j \in Matches : \A k \in Matches : j <= k}})
    \cup {Cut : i \in {j \in Torn : \A k \in Matches : j < k}}

\* Faulty variant of LinkAfter: the notice is only looked for at the beginning.
LinkAfterFirst == Link_s /\ Head(getstring) # Stat
LinkAfter == Link_s /\ ~Contains(getstring, Stat)

\* What the timer leaves of getstring after Receive_data.
NoneKept == <<>>

TimerISR ==
  /\ timer
  /\ \/ /\ reveive_len # Len(getstring)
        /\ reveive_len' = Len(getstring) /\ freetime_t' = 0
        /\ UNCHANGED <<getstring, message, Link_s>>
     \/ /\ reveive_len = Len(getstring) /\ getstring # <<>>
        /\ IF freetime_t + 1 = FreeTime
           THEN /\ message' \in Received /\ Link_s' = LinkAfter
                /\ getstring' = NoneKept /\ freetime_t' = 0
           ELSE /\ freetime_t' = freetime_t + 1
                /\ UNCHANGED <<getstring, message, Link_s>>
        /\ UNCHANGED reveive_len
  /\ UNCHANGED <<route, fifo, switch, timer, task, net, hist>>

-----------------------------------------------------------------------------
(* The modem and the broker.                                               *)

\* A command that can be carried out now.
Possible(c) == CASE c = "open" -> broker = "closed"
                 [] c = "conn" -> broker = "open"
                 [] c = "sub"  -> broker = "conn"
                 [] OTHER      -> TRUE

\* What it says when it has carried out command c.  "OK" goes with every answer:
\* behind what was asked for, before the result of what takes longer.
Reply(c) ==
  IF Accepted(c) = Ok THEN <<Ok>>
  ELSE IF c[1] = "register" THEN <<Answer(c), Ok>> ELSE <<Ok, Answer(c)>>

\* It answers, late perhaps; or it does not, or with a refusal, which nobody
\* looks for, though an "OK" may have preceded it.
ModemAnswers ==
  /\ asked # NoCom /\ Len(air) + 2 <= MaxBuf
  /\ asked' = NoCom
  /\ \/ /\ Possible(asked[1])
        /\ air' = air \o Reply(asked)
        /\ broker' = IF asked[1] \in {"open", "conn", "sub"} THEN asked[1] ELSE broker
     \/ air' \in {air, Append(air, Ok)} /\ UNCHANGED broker
  /\ UNCHANGED <<route, fifo, switch, rx, timer, Link_s, message, task, hist>>

\* The cloud makes a request.
Request ==
  /\ broker = "sub" /\ sent < MaxMsgs /\ Len(air) + 2 <= MaxBuf
  /\ sent' = sent + 1
  /\ air' = air \o <<Half(sent + 1, 1), Half(sent + 1, 2)>>
  /\ UNCHANGED <<route, fifo, switch, rx, timer, Link_s, message, task, asked, broker,
                 last, eaten, used>>

\* The connection to the broker is lost and the modem says so.
Drop ==
  /\ broker # "closed" /\ used.drops < MaxDrops /\ Len(air) < MaxBuf
  /\ broker' = "closed"
  /\ air' = Append(air, Stat)
  /\ used' = [used EXCEPT !.drops = @ + 1]
  /\ UNCHANGED <<route, fifo, switch, rx, timer, Link_s, message, task, asked, sent, last,
                 eaten>>

Next == Task \/ UartISR \/ TimerISR \/ ModemAnswers \/ Request \/ Drop

Spec == Init /\ [][Next]_vars

\* The task has the highest priority of all, its delays end, interrupts are
\* served.  Nothing is assumed of the modem and the broker.
FairSpec == Spec /\ WF_vars(Task) /\ WF_vars(UartISR) /\ WF_vars(TimerISR)

-----------------------------------------------------------------------------
\* While the task serves the link, received bytes go to the callback, however
\* many commands switched them away and back, in however many rounds.
CallbackOn == InLoop => route = "callback" /\ timer

\* No request is put together from halves of two, though sendcom's switch can
\* tear them.
NotSpliced == message # Spliced

\* Requests are executed in the order they were made and each at most once,
\* though the task takes them out of the mailbox while the interrupt fills it.
InOrderOnce == [][Execute => cmd > last]_vars

\* When the task takes a dead link for a live one, the notice is still on the
\* way, unless a command's sendcom has swallowed it.
LossAccounted ==
  InLoop /\ Link_s /\ broker = "closed" =>
    Contains(air, Stat) \/ Contains(getstring, Stat) \/ eaten

\* A notice of a lost link that arrives while the task serves the link makes it
\* begin again, among requests and in one burst with them too.
LossNoticed ==
  (InLoop /\ (Contains(air, Stat) \/ Contains(getstring, Stat))) ~> pc = "init"

\* A request that has arrived whole while the task waits in its loop is
\* executed, or a later one in its place, or the link is lost, or the beginning
\* of a later one that was torn takes its place in the mailbox.
RequestServed ==
  \A n \in 1..MaxMsgs :
    (/\ pc = "loop" /\ Link_s /\ message = NoMsg
     /\ getstring = <<Half(n, 1), Half(n, 2)>>)
    ~> (last >= n \/ ~Link_s \/ (message = Cut /\ sent > n))

\* EC20_task checks in every round whether the network is connected and
\* otherwise begins again (main.cpp:160): a link that is gone is noticed.
DeadLinkNoticed == (InLoop /\ broker = "closed") ~> pc = "init"
=============================================================================

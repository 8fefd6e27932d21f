------------------------------- MODULE BusHost -------------------------------
(***************************************************************************)
(* The field-bus host of the gateway: Gateway::Command's "lora send" and   *)
(* "485 send" branches, the write queue in front of the host (WH_COM for   *)
(* LoRa, Communication for RS485), the Modbus-like host itself (WH_L101,   *)
(* modbus) with its wait loop and timeout, RS485's driver, which delays    *)
(* before and after it writes, and the two interrupts that                 *)
(* feed it: the UART interrupt that appends received bytes and the 10 ms   *)
(* timer interrupt that decides that an answer is complete.                *)
(*                                                                         *)
(* Two FreeRTOS tasks call Gateway::Command without a lock: LOGIC_task for *)
(* the debug console and EC20_task for the cloud.  EC20_task has the       *)
(* higher priority, so the other one runs only while EC20_task is blocked. *)
(*                                                                         *)
(* A frame is abstracted to two parts (enough for it to arrive piecemeal,  *)
(* to be torn and to be truncated): an identifier and function code, and   *)
(* the rest with its CRC.  An answer to a write repeats the register and    *)
(* not the value, so answers to two writes by one slave are the same bytes. *)
(* `for' is not part of a frame: it names the task whose current command    *)
(* the answer belongs to, and lets the properties tell answers apart.       *)
(*                                                                         *)
(* A command names its slave by a word of hexadecimal digits.  What the    *)
(* digits mean (Meant) and what Gateway::Command makes of them (Parsed)    *)
(* differ on RS485.                                                        *)
(***************************************************************************)
EXTENDS Naturals, Sequences, FiniteSets

CONSTANTS
  Tasks,       \* the tasks that call Gateway::Command
  Prio,        \* their FreeRTOS priorities (main.cpp: LOGIC 2, EC20 3)
  Lora,        \* TRUE: WH_COM over WH_L101; FALSE: Communication over modbus
  IdLen,       \* bytes of a slave identifier: 4 for LoRa, 1 for RS485
  InitId,      \* the identifier a new host object holds
  Devices,     \* the identifiers that slaves on the bus answer to
  Words,       \* the identifiers as they are typed in commands, digit by digit
  Values,      \* what a command writes to a slave's register
  NoVal,       \* no value: a register read, a slot never filled
  QueueNum,    \* COM_queue_num
  FreeTime,    \* freetime: quiet timer ticks that end a frame
  Polls,       \* timeout / 10: polls of modbus_wait_rec
  Old,         \* belongs to no command in progress
  MaxCmds,     \* bound: commands in all, 0 for any number
  Noisy,       \* whether single parts of an answer may be lost or corrupted
  MaxAir,      \* bound: answer parts on the line
  MaxRx        \* bound: parts in modbus_receive_data

Digits == 0..15
Bytes  == 0..255

ASSUME BusAssumption ==
  /\ IdLen \in Nat \ {0} /\ QueueNum \in Nat \ {0}
  /\ FreeTime \in Nat \ {0} /\ Polls \in Nat
  /\ MaxAir \in Nat /\ MaxRx \in Nat /\ MaxCmds \in Nat
  /\ Lora \in BOOLEAN /\ Noisy \in BOOLEAN
  /\ Prio \in [Tasks -> Nat]
  /\ Old \notin Tasks
  /\ Devices \subseteq [1..IdLen -> Bytes]
  /\ InitId \in [1..IdLen -> Bytes]
  /\ NoVal \notin Values

ASSUME WordAssumption ==
  /\ ~Lora => IdLen = 1
  /\ \A w \in Words : /\ w \in Seq(Digits)
                      /\ IF Lora THEN Len(w) = 2 * IdLen ELSE Len(w) \in {1, 2}

VARIABLES
  \* the host object
  send_flag,    \* function code of the request in progress, 0 when none
  slave_id,     \* the identifier requests go to
  sendbuf,      \* modbus_send_data
  rxbuf,        \* modbus_receive_data
  reveive_len,  \* length of rxbuf at the previous timer tick
  freetime_t,   \* quiet ticks counted so far
  \* the write queue: queue_flag and valueu
  queue_flag, valueu,
  \* the tasks
  pc, cmd, ix, out, polls, result,
  \* the line: RS485's driver enable pin, a request being received by the
  \* slaves, answers under way
  de, line, air,
  \* history, for the properties only:
  ack,    \* whose answer lowered send_flag since it was last raised
  done,   \* the tasks whose current command a slave has executed
  alone,  \* no other command has overlapped this one, the queue was empty
  quiet,  \* no answer to an earlier command was left when this one began
  started \* commands so far, counted when they are bounded

hostVars  == <<send_flag, slave_id, sendbuf, rxbuf, reveive_len, freetime_t>>
queueVars == <<queue_flag, valueu>>
taskVars  == <<pc, cmd, ix, out, polls, result>>
lineVars  == <<de, line, air>>
histVars  == <<ack, done, alone, quiet, started>>
vars == <<hostVars, queueVars, taskVars, lineVars, histVars>>

-----------------------------------------------------------------------------
Ids    == [1..IdLen -> Bytes]
Slots  == 1..QueueNum
Read   == 3
Write  == 16

\* The parts of a request (id and function; payload and CRC) and of an answer.
HeadPart(id)     == [part |-> 1, id |-> id]
BodyPart(f,v)    == [part |-> 2, fn |-> f, val |-> v]
AnsPart(id,f,p,t) == [id |-> id, fn |-> f, part |-> p, for |-> t]
Junk       == AnsPart(<<>>, 0, 0, Old)
AnsParts   == [id : Ids, fn : {Read, Write}, part : 1..2, for : Tasks \cup {Old}]
ReqParts   == [part : {1}, id : Ids]
                \cup [part : {2}, fn : {Read, Write}, val : Values \cup {NoVal}]
Commands   == [word : Words, val : Values]
NoCmd      == [word |-> <<>>, val |-> NoVal]

\* The identifier that a word's digits mean.
Pair(w, k) == 16 * w[2 * k - 1] + w[2 * k]
Meant(w)   == IF Len(w) = 1 THEN [k \in 1..1 |-> w[1]] ELSE [k \in 1..IdLen |-> Pair(w, k)]

\* "lora send" joins every two digits to a byte.  The faulty variant does as
\* the branch of "485 send" does.
LoraIdOverwritten(w) == [k \in 1..IdLen |-> 16 * w[2 * k - 1]]
LoraId(w)            == [k \in 1..IdLen |-> Pair(w, k)]

\* "485 send" reads value[i*2]: of two digits the first one and then the
\* terminating zero, for which the byte is only shifted.  The faulty variant
\* takes the shift out.
Rs485IdUnshifted(w) == [k \in 1..1 |-> w[1]]
Rs485Id(w)          == [k \in 1..1 |-> IF Len(w) = 1 THEN w[1] ELSE 16 * w[1]]

Parsed(w) == IF Lora THEN LoraId(w) ELSE Rs485Id(w)

\* The words that are read as they are meant.
ReadRight(w) == Lora \/ Len(w) = 1 \/ w[2] = 0

\* Waiting: send_flag was raised and the wait loop or its tail is running.
Waiting == {"wait", "delay", "check", "timeout"}
\* The points at which a task gives up the processor: between commands, in the
\* wait loop's delay and in the delays around RS485's write.
Blocked == {"idle", "delay", "before", "after"}
Labels  == {"idle", "setid", "find", "fill", "flag", "sync", "take", "code", "body",
            "copy", "enable", "before", "write", "after", "raise", "release"} \cup Waiting

\* FreeRTOS runs the ready task of the highest priority.
Scheduled(t) == \A u \in Tasks : Prio[u] > Prio[t] => pc[u] \in Blocked

\* The slot a scan that starts at the first one stops at, 0 when it finds none.
FirstOf(S) == IF S = {} THEN {0} ELSE {i \in S : \A j \in S : i <= j}

\* The answers to task t's command once that command is over.
Outdate(s, t) == [i \in DOMAIN s |-> IF s[i].for = t THEN [s[i] EXCEPT !.for = Old] ELSE s[i]]

\* The types of the host's, the queue's and the tasks' variables.
TypeOK ==
  /\ send_flag \in {0, Read, Write}
  /\ slave_id \in Ids
  /\ sendbuf \in Seq(ReqParts)
  /\ rxbuf \in Seq(AnsParts \cup {Junk})
  /\ reveive_len \in Nat /\ freetime_t \in 0..(FreeTime - 1)
  /\ queue_flag \in [Slots -> BOOLEAN]
  /\ valueu \in [Slots -> Values \cup {NoVal}]
  /\ pc \in [Tasks -> Labels]
  /\ cmd \in [Tasks -> Commands \cup {NoCmd}]
  /\ ix \in [Tasks -> Nat]
  /\ out \in [Tasks -> Seq(ReqParts)]
  /\ polls \in [Tasks -> 0..Polls]
  /\ result \in [Tasks -> {"none", "ok", "error"}]
  /\ de \in BOOLEAN /\ line \in Seq([part : {1}, id : Ids])
  /\ air \in Seq(AnsParts)
  /\ ack \subseteq Tasks \cup {Old}
  /\ done \subseteq Tasks /\ alone \subseteq Tasks /\ quiet \subseteq Tasks
  /\ started \in 0..MaxCmds

Init ==
  /\ send_flag = 0 /\ slave_id = InitId
  /\ sendbuf = <<>> /\ rxbuf = <<>>
  /\ reveive_len = 0 /\ freetime_t = 0
  /\ queue_flag = [s \in Slots |-> FALSE]
  /\ valueu = [s \in Slots |-> NoVal]
  /\ pc = [t \in Tasks |-> "idle"]
  /\ cmd = [t \in Tasks |-> NoCmd]
  /\ ix = [t \in Tasks |-> 0]
  /\ out = [t \in Tasks |-> <<>>]
  /\ polls = [t \in Tasks |-> 0]
  /\ result = [t \in Tasks |-> "none"]
  /\ de = FALSE /\ line = <<>> /\ air = <<>>
  /\ ack = {} /\ done = {} /\ alone = {} /\ quiet = {} /\ started = 0

Goto(t, from, to) ==
  /\ pc[t] = from
  /\ Scheduled(t)
  /\ pc' = [pc EXCEPT ![t] = to]

-----------------------------------------------------------------------------
(* Gateway::Command and the queue.                                         *)

\* A "lora send" / "485 send" line reaches Gateway::Command in task t.
Command(t) ==
  /\ Goto(t, "idle", "setid")
  /\ MaxCmds # 0 => started < MaxCmds
  /\ started' = IF MaxCmds = 0 THEN 0 ELSE started + 1
  /\ cmd' \in {[cmd EXCEPT ![t] = c] : c \in Commands}
  /\ ix' = [ix EXCEPT ![t] = 1]
  /\ alone' = {u \in {t} : /\ \A v \in Tasks \ {t} : pc[v] = "idle"
                           /\ \A s \in Slots : ~queue_flag[s]}
  /\ quiet' = IF air = <<>> /\ rxbuf = <<>> THEN quiet \cup {t} ELSE quiet \ {t}
  /\ UNCHANGED <<hostVars, queueVars, out, polls, result, lineVars, ack, done>>

\* set_id copies the identifier byte by byte, as it was read from the word.
SetId(t) ==
  /\ Goto(t, "setid", IF ix[t] < IdLen THEN "setid" ELSE "find")
  /\ slave_id' = [slave_id EXCEPT ![ix[t]] = Parsed(cmd[t].word)[ix[t]]]
  /\ ix' = [ix EXCEPT ![t] = IF ix[t] < IdLen THEN @ + 1 ELSE 0]
  /\ UNCHANGED <<send_flag, sendbuf, rxbuf, reveive_len, freetime_t, queueVars,
                 cmd, out, polls, result, lineVars, histVars>>

\* data_set looks for the first free slot; with none the value is dropped.
FindFree(t) ==
  LET free == {s \in Slots : ~queue_flag[s]} IN
  /\ Goto(t, "find", IF free = {} THEN "sync" ELSE "fill")
  /\ ix' \in {[ix EXCEPT ![t] = s] : s \in FirstOf(free)}
  /\ UNCHANGED <<hostVars, queueVars, cmd, out, polls, result, lineVars, histVars>>

\* Faulty variant of Fill: the slot keeps an earlier value.
FillForgotten(t) ==
  /\ Goto(t, "fill", "flag")
  /\ UNCHANGED <<hostVars, queueVars, cmd, ix, out, polls, result, lineVars, histVars>>

\* data_set stores the register and the value in the slot it found ...
Fill(t) ==
  /\ Goto(t, "fill", "flag")
  /\ valueu' = [valueu EXCEPT ![ix[t]] = cmd[t].val]
  /\ UNCHANGED <<hostVars, queue_flag, cmd, ix, out, polls, result, lineVars, histVars>>

\* ... and only then marks the slot used.
Flag(t) ==
  /\ Goto(t, "flag", "sync")
  /\ queue_flag' = [queue_flag EXCEPT ![ix[t]] = TRUE]
  /\ ix' = [ix EXCEPT ![t] = 0]
  /\ UNCHANGED <<hostVars, valueu, cmd, out, polls, result, lineVars, histVars>>

\* data_sync takes the first used slot; with none it will read registers.
PickUsed(t) ==
  LET used == {s \in Slots : queue_flag[s]} IN
  /\ Goto(t, "sync", IF Lora \/ used = {} THEN "code" ELSE "take")
  /\ ix' \in {[ix EXCEPT ![t] = s] : s \in FirstOf(used)}
  /\ UNCHANGED <<hostVars, queueVars, cmd, out, polls, result, lineVars, histVars>>

\* Communication::data_sync frees the slot before it sends.
Take(t) ==
  /\ Goto(t, "take", "code")
  /\ queue_flag' = [queue_flag EXCEPT ![ix[t]] = FALSE]
  /\ UNCHANGED <<hostVars, valueu, cmd, ix, out, polls, result, lineVars, histVars>>

\* The queue after WH_COM::data_sync; the faulty variant keeps the slot.
FreedAfterKept(t) == queue_flag
FreedAfter(t) == IF Lora /\ ix[t] # 0 THEN [queue_flag EXCEPT ![ix[t]] = FALSE]
                                      ELSE queue_flag

\* WH_COM::data_sync frees the slot when the request has ended.  The command
\* returns its result; the task's local variables are gone.
Release(t) ==
  /\ Goto(t, "release", "idle")
  /\ queue_flag' = FreedAfter(t)
  /\ ix' = [ix EXCEPT ![t] = 0]
  /\ cmd' = [cmd EXCEPT ![t] = NoCmd]
  /\ polls' = [polls EXCEPT ![t] = 0]
  /\ result' = [result EXCEPT ![t] = "none"]
  /\ air' = Outdate(air, t) /\ rxbuf' = Outdate(rxbuf, t)
  /\ ack' = {} /\ done' = done \ {t} /\ alone' = alone \ {t} /\ quiet' = quiet \ {t}
  /\ UNCHANGED <<send_flag, slave_id, sendbuf, reveive_len, freetime_t, valueu,
                 out, de, line, started>>

-----------------------------------------------------------------------------
(* The host: modbus_16_send, modbus_03_send.                               *)

\* Host_xx_coding starts a new modbus_send_data with the current identifier.
CodeHead(t) ==
  /\ Goto(t, "code", "body")
  /\ sendbuf' = <<HeadPart(slave_id)>>
  /\ UNCHANGED <<send_flag, slave_id, rxbuf, reveive_len, freetime_t, queueVars,
                 cmd, ix, out, polls, result, lineVars, histVars>>

\* The rest of the frame; the value is read through the pointer into the slot.
CodeBody(t) ==
  /\ Goto(t, "body", "copy")
  /\ sendbuf' = Append(sendbuf,
                       IF ix[t] = 0 THEN BodyPart(Read, NoVal)
                                    ELSE BodyPart(Write, valueu[ix[t]]))
  /\ UNCHANGED <<send_flag, slave_id, rxbuf, reveive_len, freetime_t, queueVars,
                 cmd, ix, out, polls, result, lineVars, histVars>>

\* send_data_fun receives a copy of modbus_send_data.
CopyFrame(t) ==
  /\ Goto(t, "copy", IF Lora THEN "write" ELSE "enable")
  /\ out' = [out EXCEPT ![t] = sendbuf]
  /\ UNCHANGED <<hostVars, queueVars, cmd, ix, polls, result, lineVars, histVars>>

\* RS485::write drives the line, delays ...
Enable(t) ==
  /\ Goto(t, "enable", "before")
  /\ de' = TRUE
  /\ UNCHANGED <<hostVars, queueVars, cmd, ix, out, polls, result, line, air, histVars>>

Before(t) ==
  /\ Goto(t, "before", "write")
  /\ UNCHANGED <<hostVars, queueVars, cmd, ix, out, polls, result, lineVars, histVars>>

\* ... and when it has written, delays again and lets the line go, also when
\* another task has begun to write meanwhile.
After(t) ==
  /\ Goto(t, "after", "raise")
  /\ de' = FALSE
  /\ UNCHANGED <<hostVars, queueVars, cmd, ix, out, polls, result, line, air, histVars>>

\* Task u's command is the write of v that names slave id.
Asked(u, id, v) == pc[u] # "idle" /\ Meant(cmd[u].word) = id /\ cmd[u].val = v

\* A slave that hears a complete request with its identifier executes it; its
\* answer may be lost.  Nothing answers to an identifier nobody has.
Served(t, r, id) ==
  /\ id \in Devices
  /\ done' = done \cup {u \in Tasks : r.fn = Write /\ Asked(u, id, r.val)}
  /\ \/ air' = air
     \/ /\ Len(air) + 2 <= MaxAir
        /\ air' = air \o <<AnsPart(id, r.fn, 1, t), AnsPart(id, r.fn, 2, t)>>

\* _USART_::write puts the frame on the line; a request may be lost there, and
\* on RS485 it is when nobody drives the line.
WritePart(t) ==
  /\ Goto(t, "write", IF Len(out[t]) > 1 THEN "write" ELSE IF Lora THEN "raise" ELSE "after")
  /\ out' = [out EXCEPT ![t] = Tail(@)]
  /\ LET p == Head(out[t])
         driven == Lora \/ de IN
       \/ /\ driven /\ p.part = 1
          /\ line' = <<p>>
          /\ UNCHANGED <<done, air>>
       \/ /\ driven /\ p.part = 2 /\ line # <<>>
          /\ line' = <<>>
          /\ Served(t, p, line[1].id) \/ UNCHANGED <<done, air>>
       \/ /\ ~driven \/ (p.part = 2 /\ line = <<>>)
          /\ line' = <<>>
          /\ UNCHANGED <<done, air>>
  /\ UNCHANGED <<hostVars, queueVars, cmd, ix, polls, result, de, ack, alone, quiet, started>>

\* Only after the frame is out does the host note what it waits for.
Raise(t) ==
  /\ Goto(t, "raise", "wait")
  /\ send_flag' = IF ix[t] = 0 THEN Read ELSE Write
  /\ polls' = [polls EXCEPT ![t] = Polls]
  /\ ack' = {}
  /\ UNCHANGED <<slave_id, sendbuf, rxbuf, reveive_len, freetime_t, queueVars,
                 cmd, ix, out, result, lineVars, done, alone, quiet, started>>

\* modbus_wait_rec: the loop condition ...
Poll(t) ==
  /\ Goto(t, "wait", IF send_flag # 0 /\ polls[t] > 0 THEN "delay" ELSE "check")
  /\ UNCHANGED <<hostVars, queueVars, cmd, ix, out, polls, result, lineVars, histVars>>

\* Faulty variant of Delay: the remaining time is not reduced.
DelayUncounted(t) ==
  /\ Goto(t, "delay", "wait")
  /\ UNCHANGED <<hostVars, queueVars, cmd, ix, out, polls, result, lineVars, histVars>>

\* ... its delay_ms(10), during which the task is blocked ...
Delay(t) ==
  /\ Goto(t, "delay", "wait")
  /\ polls' = [polls EXCEPT ![t] = @ - 1]
  /\ UNCHANGED <<hostVars, queueVars, cmd, ix, out, result, lineVars, histVars>>

\* Faulty variant of Check: leaving the loop counts as an answer.
CheckNothing(t) ==
  /\ Goto(t, "check", "release")
  /\ result' = [result EXCEPT ![t] = "ok"]
  /\ UNCHANGED <<hostVars, queueVars, cmd, ix, out, polls, lineVars, histVars>>

\* ... and the second look at send_flag that decides the result.
Check(t) ==
  /\ Goto(t, "check", IF send_flag = 0 THEN "release" ELSE "timeout")
  /\ result' = [result EXCEPT ![t] = IF send_flag = 0 THEN "ok" ELSE @]
  /\ UNCHANGED <<hostVars, queueVars, cmd, ix, out, polls, lineVars, histVars>>

\* modbus_xx_send gives up and takes send_flag down.  The faulty variant does not.
TimeoutKeepsFlag(t) ==
  /\ Goto(t, "timeout", "release")
  /\ result' = [result EXCEPT ![t] = "error"]
  /\ UNCHANGED <<hostVars, queueVars, cmd, ix, out, polls, lineVars, histVars>>

Timeout(t) ==
  /\ Goto(t, "timeout", "release")
  /\ send_flag' = 0
  /\ result' = [result EXCEPT ![t] = "error"]
  /\ UNCHANGED <<slave_id, sendbuf, rxbuf, reveive_len, freetime_t, queueVars,
                 cmd, ix, out, polls, lineVars, histVars>>

-----------------------------------------------------------------------------
(* The interrupts.                                                         *)

\* One received part is appended; noise may have turned it into junk.
UartISR ==
  /\ air # <<>> /\ Len(rxbuf) < MaxRx
  /\ \E p \in {Head(air)} \cup (IF Noisy THEN {Junk} ELSE {}) : rxbuf' = Append(rxbuf, p)
  /\ air' = Tail(air)
  /\ UNCHANGED <<send_flag, slave_id, sendbuf, reveive_len, freetime_t, queueVars,
                 taskVars, de, line, histVars>>

\* A part of an answer is lost on the way.
LoseAnswer ==
  /\ Noisy /\ air # <<>>
  /\ air' = Tail(air)
  /\ UNCHANGED <<hostVars, queueVars, taskVars, de, line, histVars>>

\* The buffer starts with a whole answer: its CRC matches.
WholeAnswer ==
  /\ Len(rxbuf) >= 2
  /\ rxbuf[1].part = 1
  /\ rxbuf[2].part = 2
  /\ rxbuf[2].id = rxbuf[1].id /\ rxbuf[2].fn = rxbuf[1].fn

\* receive_data_channel: from the selected slave, and what kind of answer.
FromSlave(f) ==
  /\ rxbuf[1].part = 1 /\ rxbuf[1].id = slave_id /\ rxbuf[1].fn = f

\* Host_03_uncoding and Host_16_uncoding check the CRC, then send_flag.
\* modbus::Host_16_uncoding reads its CRC beyond the end of an 8-byte answer
\* and compares it with a truncated one: either outcome is possible.
Accepts(f) ==
  /\ FromSlave(f)
  /\ send_flag = f
  /\ WholeAnswer \/ (~Lora /\ f = Write)

Accept ==
  /\ send_flag' = 0
  /\ ack' = {rxbuf[1].for}

Ignore == UNCHANGED <<send_flag, ack>>

\* The new count of quiet ticks after a frame; the faulty variant keeps counting.
CountedOn == freetime_t + 1
CountAfterFrame == 0

\* The frame has ended: receive_data_channel, then the buffer is cleared.
Decode ==
  /\ \/ /\ \E f \in {Read, Write} : Accepts(f)
        /\ Accept
     \/ /\ ~Lora /\ Accepts(Write)
        /\ Ignore
     \/ /\ \A f \in {Read, Write} : ~Accepts(f)
        /\ Ignore
  /\ rxbuf' = <<>>
  /\ freetime_t' = CountAfterFrame

\* modbus::Callback on the 10 ms timer.
TimerISR ==
  /\ \/ /\ reveive_len # Len(rxbuf)
        /\ reveive_len' = Len(rxbuf)
        /\ freetime_t' = 0
        /\ UNCHANGED <<send_flag, rxbuf, ack>>
     \/ /\ reveive_len = Len(rxbuf) /\ rxbuf # <<>> /\ send_flag # 0
        /\ IF freetime_t + 1 = FreeTime
           THEN Decode
           ELSE /\ freetime_t' = freetime_t + 1
                /\ UNCHANGED <<send_flag, rxbuf, ack>>
        /\ UNCHANGED reveive_len
     \/ /\ reveive_len = Len(rxbuf) /\ (rxbuf = <<>> \/ send_flag = 0)
        /\ UNCHANGED <<send_flag, rxbuf, reveive_len, freetime_t, ack>>
  /\ UNCHANGED <<slave_id, sendbuf, queueVars, taskVars, lineVars, done, alone, quiet, started>>

-----------------------------------------------------------------------------
\* What task t does from a command to its result.
Run(t) ==
  \/ SetId(t) \/ FindFree(t) \/ Fill(t) \/ Flag(t) \/ PickUsed(t) \/ Take(t)
  \/ CodeHead(t) \/ CodeBody(t) \/ CopyFrame(t)
  \/ Enable(t) \/ Before(t) \/ WritePart(t) \/ After(t) \/ Raise(t)
  \/ Poll(t) \/ Delay(t) \/ Check(t) \/ Timeout(t) \/ Release(t)

Next ==
  \/ \E t \in Tasks : Command(t) \/ Run(t)
  \/ UartISR \/ LoseAnswer \/ TimerISR

Spec == Init /\ [][Next]_vars

\* EC20_task blocks at least 100 ms in every round of its loop and 10 ms in
\* every poll, so a ready task of lower priority gets its turn again and again.
FairSpec == Spec /\ \A t \in Tasks : SF_vars(Run(t))

-----------------------------------------------------------------------------
(* Safety.                                                                 *)

Succeeds(t) == pc[t] = "release" /\ result[t] = "ok"

\* send_flag never stays raised behind the back of the tasks: when it is up,
\* some task is still in modbus_wait_rec and will take it down.  (A flag left
\* up would let the timer interrupt consume the next answer for nobody.)
FlagHasWaiter == send_flag # 0 => \E t \in Tasks : pc[t] \in Waiting

\* The frame that a command which has the bus to itself puts on the line
\* carries the identifier the command means and its value, whatever the queue
\* and the shared send buffer held before.  A "485 send" whose identifier has
\* a second digit other than 0 is excepted: its identifier is read wrongly.
FrameIsCommand ==
  \A t \in alone : pc[t] = "write" /\ ReadRight(cmd[t].word) =>
    \A i \in 1..Len(out[t]) :
      out[t][i] \in {HeadPart(Meant(cmd[t].word)), BodyPart(Write, cmd[t].val)}

\* modbus_wait_rec tells a command that has the bus to itself "received" only
\* if the timer interrupt accepted an answer after the request was sent.
SuccessIsAnswered == \A t \in alone : Succeeds(t) => ack # {}

\* "send ok" is true when the command had the bus to itself and began with no
\* answer to an earlier command on the way or in the buffer: the slave that
\* was named has executed the write.  Excepted again is a "485 send" whose
\* identifier is read wrongly.
SuccessIsGenuine ==
  \A t \in alone \cap quiet : Succeeds(t) /\ ReadRight(cmd[t].word) => t \in done

\* Gateway::Command's help says "485 send <00> <0> <1> - set 485 id 00 port 0
\* set 1": the slave that was named is set, whatever its two digits are.
NamedSlaveIsSet == \A t \in alone \cap quiet : Succeeds(t) => t \in done

\* Between commands of a single task the queue is empty: data_sync has taken
\* out what data_set put in.
QueueDrains == (\A t \in Tasks : pc[t] = "idle") => \A s \in Slots : ~queue_flag[s]

\* Gateway::Command's help says that "lora send" sets the slave's output and
\* the reply says "ok": every ok is a write the slave executed.
OkMeansSet == \A t \in Tasks : Succeeds(t) => t \in done

\* The same, asked only of commands that began on a quiet line.
QuietOkMeansSet == \A t \in quiet : Succeeds(t) => t \in done

-----------------------------------------------------------------------------
(* Liveness.                                                               *)

\* Every command ends: an answer or the timeout releases the task.
CommandEnds == \A t \in Tasks : pc[t] # "idle" ~> pc[t] = "idle"
=============================================================================

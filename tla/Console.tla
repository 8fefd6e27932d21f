------------------------------- MODULE Console -------------------------------
(***************************************************************************)
(* The debug console: USART6's interrupt appends each byte to the fifo of  *)
(* _USART_ (HARDWARE/Src/USART.cpp), and LOGIC_task (USER/Src/main.cpp)    *)
(* looks every 200 ms whether the fifo holds a line, takes it out and      *)
(* executes it.  Between two rounds a command may keep the task for        *)
(* seconds.                                                                *)
(*                                                                         *)
(* The fifo is a std::string without a lock, so that bytes may come        *)
(* between any two steps of read_data, which looks for the line's end      *)
(* twice, copies the line and erases it.  erase is two steps itself, as    *)
(* the library of the build makes it: move the rest to the front, then     *)
(* shorten the string, whose length is read again.                         *)
(***************************************************************************)
EXTENDS Integers, Sequences

CONSTANTS
  Bytes, CR, LF,
  MaxFifo,        \* RX_MAX_LEN
  MaxTyped        \* bound on the bytes typed

ASSUME ConsoleAssumption ==
  {CR, LF} \subseteq Bytes /\ CR # LF /\ MaxFifo \in Nat \ {0} /\ MaxTyped \in Nat

VARIABLES
  fifo,      \* RX_buffer
  task,      \* where LOGIC_task stands
  len_t,     \* of read_data
  da,        \* the line read
  typed,     \* history: number of bytes typed
  spoilt     \* history: a byte was lost or came while the fifo was shortened

consoleVars == <<fifo, task, len_t, da, typed, spoilt>>

\* Where the first line ends (find + str.length()), 0: there is none.  Faulty
\* variants: an end at the very beginning counts as none; one byte short.
Ends(s) == {k \in 2..Len(s) : s[k - 1] = CR /\ s[k] = LF}
FirstEnd(s) == CHOOSE k \in Ends(s) : \A j \in Ends(s) : k <= j
LineEndNonzero(s) == IF Ends(s) = {} \/ FirstEnd(s) = 2 THEN 0 ELSE FirstEnd(s)
LineEndShort(s) == IF Ends(s) = {} THEN 0 ELSE FirstEnd(s) - 1
LineEnd(s) == IF Ends(s) = {} THEN 0 ELSE FirstEnd(s)

Limit(n) == IF n <= Len(fifo) THEN n ELSE Len(fifo)

ConsoleTypeOK ==
  /\ fifo \in Seq(Bytes) /\ Len(fifo) <= MaxFifo
  /\ task \in {"sleep", "find", "again", "substr", "erase", "shorten", "execute"}
  /\ len_t \in 0..MaxFifo /\ da \in Seq(Bytes)
  /\ (task = "shorten" => len_t <= Len(fifo))
  /\ typed \in 0..MaxTyped /\ spoilt \in BOOLEAN

ConsoleInit ==
  /\ fifo = <<>> /\ task = "sleep" /\ len_t = 0 /\ da = <<>>
  /\ typed = 0 /\ spoilt = FALSE

\* What the fifo holds after a byte: the oldest one goes if it holds too many.
\* Faulty variant: it stays.
CappedNot(s) == s
Capped(s) == IF Len(s) > MaxFifo THEN Tail(s) ELSE s

\* The interrupt (extern_upset).
Receive(b) ==
  /\ typed < MaxTyped
  /\ typed' = typed + 1
  /\ fifo' = Capped(Append(fifo, b))
  /\ spoilt' = (spoilt \/ Len(fifo) = MaxFifo \/ task = "shorten")
  /\ UNCHANGED <<task, len_t, da>>

\* The task wakes up and asks available().
Available ==
  /\ task = "sleep"
  /\ task' = IF fifo # <<>> THEN "find" ELSE "sleep"
  /\ UNCHANGED <<fifo, len_t, da, typed, spoilt>>

\* The first find; without a line read_data goes on with len_t = 0, that is, it
\* copies and erases nothing.
Find ==
  /\ task = "find"
  /\ task' = IF LineEnd(fifo) # 0 THEN "again" ELSE "sleep"
  /\ UNCHANGED <<fifo, len_t, da, typed, spoilt>>

\* The second one.  If the end has gone meanwhile, npos + 2 is 1.
FindAgain ==
  /\ task = "again"
  /\ len_t' = IF LineEnd(fifo) # 0 THEN LineEnd(fifo) ELSE 1
  /\ task' = "substr"
  /\ UNCHANGED <<fifo, da, typed, spoilt>>

Substr ==
  /\ task = "substr"
  /\ da' = SubSeq(fifo, 1, Limit(len_t))
  /\ task' = "erase"
  /\ UNCHANGED <<fifo, len_t, typed, spoilt>>

\* erase moves what follows to the front; behind it stays what stood there.
Erase ==
  /\ task = "erase"
  /\ LET n == Limit(len_t)
         L == Len(fifo)
     IN  len_t' = n /\ fifo' = SubSeq(fifo, n + 1, L) \o SubSeq(fifo, L - n + 1, L)
  /\ task' = "shorten"
  /\ UNCHANGED <<da, typed, spoilt>>

Shorten ==
  /\ task = "shorten"
  /\ fifo' = SubSeq(fifo, 1, Len(fifo) - len_t)
  /\ spoilt' = (spoilt /\ fifo' # <<>>)
  /\ task' = "execute"
  /\ UNCHANGED <<len_t, da, typed>>

\* Gateway::Command, its answer, and da.clear().
Execute ==
  /\ task = "execute"
  /\ task' = "sleep" /\ da' = <<>> /\ len_t' = 0
  /\ UNCHANGED <<fifo, typed, spoilt>>

TaskStep == Available \/ Find \/ FindAgain \/ Substr \/ Erase \/ Shorten \/ Execute

ConsoleNext == (\E b \in Bytes : Receive(b)) \/ TaskStep

\* LOGIC_task is scheduled again and again: EC20_task, above it, sleeps.
ConsoleSpec == ConsoleInit /\ [][ConsoleNext]_consoleVars /\ WF_consoleVars(TaskStep)

-----------------------------------------------------------------------------
\* The console hands every line over exactly as it was typed, in order and whole,
\* although bytes arrive between all steps of read_data; unless a byte came to
\* a full fifo or while erase had moved but not shortened (USART.cpp:334-345).
Lines == INSTANCE LineSource WITH
           unread  <- CASE task = "erase"   -> SubSeq(fifo, Limit(len_t) + 1, Len(fifo))
                        [] task = "shorten" -> SubSeq(fifo, 1, Len(fifo) - len_t)
                        [] OTHER            -> fifo,
           command <- da
ServesLines == Lines!Spec

\* A line in the fifo is executed: no line before it, however short, and no byte
\* behind it blocks the console (main.cpp:127-140).
LineServed == Ends(fifo) # {} /\ ~spoilt ~> task = "execute" \/ spoilt
=============================================================================

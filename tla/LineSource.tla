----------------------------- MODULE LineSource -----------------------------
(***************************************************************************)
(* What a console promises: bytes are typed, and every complete line is    *)
(* handed over as one command, exactly as it was typed, in order.  A fault *)
(* voids the promise until nothing is left to be read.                     *)
(***************************************************************************)
EXTENDS Sequences, Naturals

CONSTANTS Bytes, CR, LF

VARIABLES
  unread,   \* typed and not handed over yet
  command,  \* the command being executed, empty if there is none
  spoilt    \* a fault has happened

\* line is complete: it ends with its only CR LF.
Ended(line, k) == k >= 2 /\ k <= Len(line) /\ line[k - 1] = CR /\ line[k] = LF
IsLine(line) == Ended(line, Len(line)) /\ \A k \in 1..(Len(line) - 1) : ~Ended(line, k)

vars == <<unread, command, spoilt>>

Init == unread = <<>> /\ command = <<>> /\ spoilt = FALSE

Type == /\ \E b \in Bytes : unread' = Append(unread, b)
        /\ UNCHANGED <<command, spoilt>>

Serve == /\ command = <<>>
         /\ IsLine(command')
         /\ unread = command' \o unread'
         /\ UNCHANGED spoilt

Finish == command' = <<>> /\ UNCHANGED <<unread, spoilt>>

Fault == /\ spoilt' = TRUE
         /\ unread' \in Seq(Bytes) /\ command' \in Seq(Bytes)

Recover == /\ spoilt /\ spoilt' = FALSE
           /\ unread' = <<>> /\ UNCHANGED command

Next == Type \/ Serve \/ Finish \/ Fault \/ Recover

Spec == Init /\ [][Next]_vars
=============================================================================

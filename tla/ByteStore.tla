------------------------------ MODULE ByteStore ------------------------------
(***************************************************************************)
(* What a storage of bytes promises its user, who neither sees sectors nor *)
(* pages: a write that ends changed the bytes it names and no other.  Only *)
(* a write that is cut off by a power failure may spoil more, and then     *)
(* nothing outside the sectors it touches.                                 *)
(***************************************************************************)
EXTENDS Integers, Sequences

CONSTANTS
  Sectors, SectorSize,  \* number of sectors, bytes in a sector
  Values,               \* what a byte may hold
  Requests,             \* writes: [sec, off, data], from byte off of sector sec on
  NoWrite               \* no write is in progress

VARIABLES
  content,
  pending,              \* the write in progress
  failures              \* how often the power has failed

Secs == 0..(Sectors - 1)
Offs == 0..(SectorSize - 1)

\* Which byte of a write the byte o of sector s is, counted from 0.
Position(w, s, o) == (s - w.sec) * SectorSize + o - w.off
Names(w, s, o) == Position(w, s, o) \in 0..(Len(w.data) - 1)

Overwritten(c, w) ==
  [s \in Secs |-> [o \in Offs |->
    IF Names(w, s, o) THEN w.data[Position(w, s, o) + 1] ELSE c[s][o]]]

Touches(w, s) == \E o \in Offs : Names(w, s, o)

Init == content \in [Secs -> [Offs -> Values]] /\ pending = NoWrite /\ failures = 0

Begin == pending = NoWrite /\ pending' \in Requests /\ UNCHANGED <<content, failures>>

Finish == /\ pending # NoWrite
          /\ content' = Overwritten(content, pending)
          /\ pending' = NoWrite
          /\ UNCHANGED failures

Fail == /\ pending # NoWrite
        /\ content' \in [Secs -> [Offs -> Values]]
        /\ \A s \in Secs : ~Touches(pending, s) => content'[s] = content[s]
        /\ pending' = NoWrite
        /\ failures' = failures + 1

Next == Begin \/ Finish \/ Fail

Spec == Init /\ [][Next]_<<content, pending, failures>>
=============================================================================

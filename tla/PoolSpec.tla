------------------------------ MODULE PoolSpec ------------------------------
(***************************************************************************)
(* What a memory pool promises its callers: a block that is handed out     *)
(* lies in the pool and overlaps no block in use, and freeing takes away   *)
(* one block and nothing else.                                             *)
(***************************************************************************)
EXTENDS Integers

CONSTANT Blocks   \* units in the pool, memtblsize

VARIABLE live     \* the blocks handed out and not freed

Units == 0..(Blocks - 1)

\* The units of a block.
Extent(b) == b.first .. (b.first + b.len - 1)

IsFree(r) == /\ Extent(r) \subseteq Units
             /\ \A b \in live : Extent(b) \cap Extent(r) = {}

Init == live = {}

Allocate ==
  \E f \in Units, n \in 1..Blocks :
    LET b == [first |-> f, len |-> n] IN
    IsFree(b) /\ live' = live \cup {b}

Free == \E b \in live : live' = live \ {b}

Next == Allocate \/ Free

Spec == Init /\ [][Next]_live
=============================================================================

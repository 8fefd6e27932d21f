------------------------------- MODULE MemPool -------------------------------
(***************************************************************************)
(* One pool of SYSTEM/Src/malloc.c: a table with an entry for every unit   *)
(* of the pool, 0 when it is free, otherwise the length in units of the    *)
(* block it belongs to.  mymalloc scans the table from its top for a run   *)
(* of free entries and marks it, myfree clears as many entries as the      *)
(* first one says, myrealloc is a mymalloc and then a myfree.              *)
(*                                                                         *)
(* The loops are taken one entry at a time: their invariants are what the  *)
(* pool's promises rest on.  One task uses the pool (in this program       *)
(* EC20_task, through cJSON, which allocates from SRAMCCM).  The contents  *)
(* of the blocks are left out, and with them myrealloc's copy.             *)
(***************************************************************************)
EXTENDS Integers, FiniteSets

CONSTANTS
  Blocks,     \* entries of the table, memtblsize
  BlockSize,  \* bytes per unit, memblksize
  Sizes,      \* the sizes asked for, in bytes
  Fail        \* 0XFFFFFFFF, and the pointer NULL

ASSUME PoolAssumption ==
  /\ Blocks \in Nat \ {0} /\ BlockSize \in Nat \ {0}
  /\ Sizes \subseteq Nat
  /\ Fail \notin Int

VARIABLES
  memmap, memrdy,      \* mallco_dev.memmap[memx], memrdy[memx]
  pc, offset, cmemb, nmemb, i,
  old,                 \* myrealloc's ptr, Fail when the call is a mymalloc
  ret,                 \* what the last call returned
  live,                \* history: the blocks handed out and not freed
  stale                \* history: pointers freed since the last block was handed out

vars == <<memmap, memrdy, pc, offset, cmemb, nmemb, i, old, ret, live, stale>>

-----------------------------------------------------------------------------
Units   == 0..(Blocks - 1)
MemSize == Blocks * BlockSize
Extent(b) == b.first .. (b.first + b.len - 1)
Starts  == {b.first : b \in live}

\* size rounded up to whole units.
Members(size) == size \div BlockSize + (IF size % BlockSize = 0 THEN 0 ELSE 1)

\* Entries are lengths within the table, the search stays in it.
TypeOK ==
  /\ memmap \in [Units -> 0..Blocks]
  /\ memrdy \in BOOLEAN
  /\ pc \in {"idle", "scan", "mark", "clear"}
  /\ offset \in -1..(Blocks - 1) /\ cmemb \in Nat /\ nmemb \in Nat /\ i \in Nat
  /\ old \in Units \cup {Fail}
  /\ ret \in Nat \cup {Fail}
  /\ live \subseteq [first : Units, len : 1..Blocks]
  /\ stale \subseteq Units

Init ==
  /\ memmap = [u \in Units |-> 0] /\ memrdy = FALSE
  /\ pc = "idle" /\ offset = 0 /\ cmemb = 0 /\ nmemb = 0 /\ i = 0
  /\ old = Fail /\ ret = Fail
  /\ live = {} /\ stale = {}

\* A call has returned: its local variables are gone.
Return == /\ pc' = "idle" /\ offset' = 0 /\ cmemb' = 0 /\ nmemb' = 0 /\ i' = 0
          /\ old' = Fail

-----------------------------------------------------------------------------
\* my_mem_init: at boot, or on the first use.
Initialise ==
  /\ pc = "idle" /\ ~memrdy
  /\ memmap' = [u \in Units |-> 0]
  /\ memrdy' = TRUE
  /\ UNCHANGED <<pc, offset, cmemb, nmemb, i, old, ret, live, stale>>

\* my_mem_malloc up to its search loop; p is the block myrealloc replaces.
StartSearch(size, p) ==
  /\ pc = "idle"
  /\ memmap' = IF memrdy THEN memmap ELSE [u \in Units |-> 0]
  /\ memrdy' = TRUE
  /\ IF size = 0
     THEN ret' = Fail /\ UNCHANGED <<pc, offset, cmemb, nmemb, old>>
     ELSE /\ pc' = "scan"
          /\ nmemb' = Members(size)
          /\ offset' = Blocks - 1
          /\ cmemb' = 0
          /\ old' = p
          /\ ret' = ret
  /\ UNCHANGED <<i, live, stale>>

Malloc  == \E size \in Sizes : StartSearch(size, Fail)
Realloc == \E size \in Sizes, p \in Starts : StartSearch(size, p)

\* The free entries counted when the search looks at entry offset.  Faulty
\* variants: it does not start again at a used entry, it leaves out entry 0.
RunAboveFirst == IF memmap[offset] = 0 /\ offset > 0 THEN cmemb + 1 ELSE 0
RunKept == IF memmap[offset] = 0 THEN cmemb + 1 ELSE cmemb
RunAt   == IF memmap[offset] = 0 THEN cmemb + 1 ELSE 0

\* One entry of the search, from the top of the table down.
Scan ==
  /\ pc = "scan" /\ offset >= 0
  /\ cmemb' = RunAt
  /\ IF RunAt = nmemb
     THEN pc' = "mark" /\ i' = 0 /\ UNCHANGED offset
     ELSE offset' = offset - 1 /\ UNCHANGED <<pc, i>>
  /\ UNCHANGED <<memmap, memrdy, nmemb, old, ret, live, stale>>

\* No run is long enough: NULL, and myrealloc leaves the old block alone.
GiveUp ==
  /\ pc = "scan" /\ offset < 0
  /\ Return
  /\ ret' = Fail
  /\ UNCHANGED <<memmap, memrdy, live, stale>>

\* What marking writes into an entry; the faulty variant writes the bytes.
MarkBytes == nmemb * BlockSize
MarkValue == nmemb

Mark ==
  /\ pc = "mark" /\ i < nmemb
  /\ memmap' = [memmap EXCEPT ![offset + i] = MarkValue]
  /\ i' = i + 1
  /\ UNCHANGED <<memrdy, pc, offset, cmemb, nmemb, old, ret, live, stale>>

\* The block is handed out; myrealloc goes on to free the old one.
HandOut ==
  /\ pc = "mark" /\ i = nmemb
  /\ live' = live \cup {[first |-> offset, len |-> nmemb]}
  /\ stale' = {}
  /\ ret' = offset * BlockSize
  /\ IF old = Fail
     THEN Return
     ELSE /\ pc' = "clear" /\ offset' = old /\ nmemb' = memmap[old] /\ i' = 0
          /\ UNCHANGED <<cmemb, old>>
  /\ UNCHANGED <<memmap, memrdy>>

\* myfree of an address in the pool.
FreeAt(p) ==
  /\ pc = "idle"
  /\ IF memrdy
     THEN /\ pc' = "clear"
          /\ offset' = p \div BlockSize
          /\ nmemb' = memmap[p \div BlockSize]
          /\ UNCHANGED <<memmap, memrdy, ret, i, old>>
     ELSE /\ memmap' = [u \in Units |-> 0] /\ memrdy' = TRUE
          /\ ret' = 1
          /\ UNCHANGED <<pc, offset, nmemb, i, old>>
  /\ UNCHANGED <<cmemb, live, stale>>

\* What the pool's user frees: a block, or one that was freed since the last
\* block was handed out.  CloudRequests shows that this program does no worse.
Freeable == IF memrdy THEN Starts \cup stale ELSE Units
Free == \E u \in Freeable : FreeAt(u * BlockSize)

\* A pointer of another pool is recognised and ignored.
FreeOutside ==
  /\ pc = "idle" /\ memrdy
  /\ ret' = 2
  /\ UNCHANGED <<memmap, memrdy, pc, offset, cmemb, nmemb, i, old, live, stale>>

\* How far freeing clears; the faulty variant leaves out the last entry.
ClearLess == nmemb - 1
ClearEnd  == nmemb

Clear ==
  /\ pc = "clear" /\ i < ClearEnd
  /\ memmap' = [memmap EXCEPT ![offset + i] = 0]
  /\ i' = i + 1
  /\ UNCHANGED <<memrdy, pc, offset, cmemb, nmemb, old, ret, live, stale>>

Freed ==
  /\ pc = "clear" /\ i >= ClearEnd
  /\ Return
  /\ live' = {b \in live : b.first # offset}
  /\ stale' = stale \cup {offset}
  /\ ret' = IF old = Fail THEN 0 ELSE ret
  /\ UNCHANGED <<memmap, memrdy>>

Next ==
  \/ Initialise \/ Malloc \/ Realloc \/ Scan \/ GiveUp \/ Mark \/ HandOut
  \/ Free \/ FreeOutside \/ Clear \/ Freed

Spec == Init /\ [][Next]_vars

-----------------------------------------------------------------------------
\* No unit belongs to two blocks that are in use, and none lies outside the
\* pool, whatever was allocated, freed, freed twice and reallocated before.
NoOverlap ==
  /\ \A b \in live : Extent(b) \subseteq Units
  /\ \A b, c \in live : b # c => Extent(b) \cap Extent(c) = {}

\* Between calls the table is exact: every unit of a block in use carries the
\* block's length and every other unit is free.  So nothing leaks, and freeing
\* a pointer twice takes nothing from a block in use.
Exact(u) == \/ \E b \in live : u \in Extent(b) /\ memmap[u] = b.len
            \/ memmap[u] = 0 /\ \A b \in live : u \notin Extent(b)
TableExact == pc = "idle" => \A u \in Units : Exact(u)

\* my_mem_malloc gives up only if no run of free units is long enough.
NoFalseRefusal ==
  pc = "scan" /\ offset < 0 =>
    ~ \E f \in Units : /\ f + nmemb <= Blocks
                       /\ \A u \in f..(f + nmemb - 1) : memmap[u] = 0

\* The pool implements the promise of PoolSpec.
Abstract == INSTANCE PoolSpec WITH Blocks <- Blocks, live <- live
Promise  == Abstract!Spec
=============================================================================

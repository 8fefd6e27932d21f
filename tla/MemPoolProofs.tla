---------------------------- MODULE MemPoolProofs ----------------------------
(***************************************************************************)
(* Theorems about MemPool, for a pool of any number of units of any size   *)
(* and requests of any size.                                               *)
(***************************************************************************)
EXTENDS MemPool, TLAPS

\* The block the search has found and marking is filling in.
Found == [first |-> offset, len |-> nmemb]

\* No run of free entries that is long enough starts above entry o.
NoRunAbove(o) ==
  \A f \in Units : f > o /\ f + nmemb <= Blocks =>
    \E u \in f..(f + nmemb - 1) : memmap[u] # 0

\* The search has counted exactly the free run that starts above offset.
ScanOK ==
  /\ nmemb \in Nat \ {0} /\ cmemb < nmemb /\ offset + cmemb <= Blocks - 1
  /\ \A u \in (offset + 1)..(offset + cmemb) : memmap[u] = 0
  /\ offset + cmemb + 1 <= Blocks - 1 => memmap[offset + cmemb + 1] # 0
  /\ NoRunAbove(offset)
  /\ old \in Starts \cup {Fail}
  /\ \A u \in Units : Exact(u)

\* The block found is free apart from the entries marked so far.
MarkOK ==
  /\ offset >= 0 /\ nmemb >= 1 /\ offset + nmemb <= Blocks /\ i <= nmemb
  /\ \A b \in live : Extent(b) \cap Extent(Found) = {}
  /\ \A u \in offset..(offset + i - 1) : memmap[u] = nmemb
  /\ \A u \in (offset + i)..(offset + nmemb - 1) : memmap[u] = 0
  /\ \A u \in Units \ Extent(Found) : Exact(u)
  /\ old \in Starts \cup {Fail}

\* Freeing clears one block in use, or nothing.
ClearOK ==
  /\ offset >= 0 /\ i <= nmemb
  /\ \/ /\ Found \in live
        /\ \A u \in offset..(offset + i - 1) : memmap[u] = 0
        /\ \A u \in (offset + i)..(offset + nmemb - 1) : memmap[u] = nmemb
        /\ \A u \in Units \ Extent(Found) : Exact(u)
     \/ /\ nmemb = 0 /\ memmap[offset] = 0 /\ offset \notin Starts
        /\ \A u \in Units : Exact(u)

PInv ==
  /\ TypeOK /\ NoOverlap
  /\ ~memrdy => live = {} /\ stale = {} /\ pc = "idle"
  /\ pc # "mark" => \A u \in stale : memmap[u] = 0
  /\ pc = "idle" => i = 0 /\ \A u \in Units : Exact(u)
  /\ pc = "scan" => i = 0 /\ ScanOK
  /\ pc = "mark" => MarkOK
  /\ pc = "clear" => ClearOK

-----------------------------------------------------------------------------
(* Lemmas.                                                                 *)

\* Rounding a size up to units, and finding a unit from its address.
LEMMA Units_of_bytes ==
  /\ \A size \in Nat : Members(size) \in Nat /\ (size # 0 => Members(size) # 0)
  /\ \A u \in Nat : (u * BlockSize) \div BlockSize = u
  <1>1. \A size \in Nat : Members(size) \in Nat /\ (size # 0 => Members(size) # 0)
    <2> SUFFICES ASSUME NEW size \in Nat
                 PROVE  Members(size) \in Nat /\ (size # 0 => Members(size) # 0)
      OBVIOUS
    <2>1. /\ size \div BlockSize \in Nat
          /\ size # 0 => size \div BlockSize > 0 \/ size % BlockSize # 0
      BY PoolAssumption
    <2>2. QED  BY <2>1 DEF Members
  <1>2. \A u \in Nat : (u * BlockSize) \div BlockSize = u
    BY PoolAssumption
  <1>3. QED  BY <1>1, <1>2

\* When the table is exact, all the entries of a block in use say its length.
LEMMA BlockMarked ==
  ASSUME TypeOK, NoOverlap, \A u \in Units : Exact(u), NEW b \in live
  PROVE  /\ b.first \in Units /\ b.len \in 1..Blocks /\ b.first + b.len <= Blocks
         /\ b = [first |-> b.first, len |-> b.len]
         /\ \A u \in Extent(b) : u \in Units /\ memmap[u] = b.len
  <1>1. b \in [first : Units, len : 1..Blocks]
    BY DEF TypeOK
  <1>2. \A u \in Extent(b) : u \in Units /\ memmap[u] = b.len
    BY DEF NoOverlap, Exact
  <1>3. b.first + b.len - 1 \in Extent(b)
    BY <1>1, PoolAssumption DEF Extent, Units
  <1>4. QED  BY <1>1, <1>2, <1>3, PoolAssumption DEF Units

\* Two blocks in use do not start at the same unit.
LEMMA StartsDiffer ==
  ASSUME TypeOK, NoOverlap, NEW b \in live, NEW c \in live, b.first = c.first
  PROVE  b = c
  <1>1. b.first \in Extent(b) /\ c.first \in Extent(c)
    BY PoolAssumption DEF TypeOK, Extent, Units
  <1>2. QED  BY <1>1 DEF NoOverlap

-----------------------------------------------------------------------------
(* The inductive invariant.                                                *)

LEMMA PInvInit == Init => PInv
  <1> SUFFICES ASSUME Init PROVE PInv
    OBVIOUS
  <1>1. TypeOK
    <2>1. memmap \in [Units -> 0..Blocks]
      BY PoolAssumption DEF Init
    <2>2. offset \in -1..(Blocks - 1) /\ cmemb \in Nat /\ nmemb \in Nat /\ i \in Nat
      BY PoolAssumption DEF Init
    <2>3. QED  BY <2>1, <2>2 DEF Init, TypeOK
  <1>2. NoOverlap /\ \A u \in Units : Exact(u)
    BY DEF Init, NoOverlap, Exact
  <1>3. QED  BY <1>1, <1>2 DEF Init, PInv

LEMMA InitialiseKeeps == PInv /\ Initialise => PInv'
  <1> SUFFICES ASSUME PInv, Initialise PROVE PInv'
    OBVIOUS
  <1>1. TypeOK'
    BY PoolAssumption DEF PInv, TypeOK, Initialise
  <1>2. NoOverlap' /\ \A u \in Units : Exact(u)'
    BY DEF PInv, NoOverlap, Exact, Initialise
  <1>3. QED  BY <1>1, <1>2 DEF PInv, Initialise

LEMMA StartKeeps ==
  ASSUME PInv, NEW size \in Sizes, NEW p \in Starts \cup {Fail}, StartSearch(size, p)
  PROVE  PInv'
  <1> USE PoolAssumption
  <1>1. size \in Nat /\ Members(size) \in Nat /\ (size # 0 => Members(size) # 0)
    BY Units_of_bytes
  <1>2. p \in Units \cup {Fail}
    BY DEF PInv, TypeOK, Starts
  <1>3. TypeOK'
    <2>1. /\ offset' \in -1..(Blocks - 1) /\ cmemb' \in Nat /\ nmemb' \in Nat /\ i' \in Nat
          /\ old' \in Units \cup {Fail}
      BY <1>1, <1>2 DEF PInv, TypeOK, StartSearch
    <2>2. memmap' \in [Units -> 0..Blocks]
      BY DEF PInv, TypeOK, StartSearch
    <2>3. QED  BY <2>1, <2>2 DEF PInv, TypeOK, StartSearch
  <1>4. NoOverlap' /\ \A u \in Units : Exact(u)'
    BY DEF PInv, NoOverlap, Exact, StartSearch
  <1>5. \A u \in stale' : memmap'[u] = 0
    BY DEF PInv, TypeOK, StartSearch
  <1>6. CASE size = 0
    BY <1>3, <1>4, <1>5, <1>6 DEF PInv, StartSearch
  <1>7. CASE size # 0
    <2>1. /\ pc' = "scan" /\ nmemb' \in Nat \ {0} /\ offset' = Blocks - 1 /\ cmemb' = 0
          /\ old' = p /\ i' = 0 /\ live' = live /\ memrdy'
      BY <1>1, <1>7 DEF StartSearch, PInv
    <2>2. NoRunAbove(offset)'
      BY <2>1 DEF NoRunAbove, Units
    <2>3. ScanOK'
      BY <1>4, <2>1, <2>2 DEF ScanOK, Starts
    <2>4. QED  BY <1>3, <1>4, <1>5, <2>1, <2>3 DEF PInv
  <1>8. QED  BY <1>6, <1>7

\* One more entry seen: the run goes on, begins again, or is long enough.
LEMMA ScanKeeps == PInv /\ Scan => PInv'
  <1> SUFFICES ASSUME PInv, Scan PROVE PInv'
    OBVIOUS
  <1> USE PoolAssumption
  <1>1. /\ TypeOK /\ NoOverlap /\ ScanOK /\ memrdy /\ i = 0 /\ offset \in Units
        /\ UNCHANGED <<memmap, memrdy, nmemb, old, ret, live, stale>>
    BY DEF PInv, Scan, TypeOK, Units
  <1>2. RunAt \in Nat /\ RunAt <= nmemb
    BY <1>1 DEF RunAt, ScanOK, TypeOK
  <1>3. TypeOK'
    BY <1>1, <1>2 DEF Scan, TypeOK, Units
  <1>4. NoOverlap' /\ (\A u \in Units : Exact(u))' /\ (\A u \in stale : memmap[u] = 0)'
    BY <1>1 DEF NoOverlap, Exact, ScanOK, PInv, Scan
  <1>5. CASE RunAt = nmemb
    <2>1. pc' = "mark" /\ offset' = offset /\ i' = 0
      BY <1>5 DEF Scan
    <2>2. memmap[offset] = 0 /\ nmemb = cmemb + 1
      BY <1>1, <1>5 DEF RunAt, ScanOK
    <2>3. \A u \in offset..(offset + nmemb - 1) : u \in Units /\ memmap[u] = 0
      BY <1>1, <2>2 DEF ScanOK, TypeOK, Units
    <2>4. \A b \in live : Extent(b) \cap Extent(Found) = {}
      <3>1. ASSUME NEW b \in live, NEW u \in Extent(b) \cap Extent(Found) PROVE FALSE
        <4>1. memmap[u] = 0
          BY <2>3, <3>1 DEF Extent, Found
        <4>2. memmap[u] = b.len /\ b.len \in 1..Blocks
          BY <1>1, <3>1, BlockMarked DEF ScanOK
        <4>3. QED  BY <4>1, <4>2
      <3>2. QED  BY <3>1
    <2>5. MarkOK'
      <3>1. Found' = Found
        BY <1>1, <2>1 DEF Found
      <3>2. (\A b \in live : Extent(b) \cap Extent(Found) = {})'
        BY <1>1, <2>4, <3>1 DEF Extent
      <3>3. (offset >= 0 /\ nmemb >= 1 /\ offset + nmemb <= Blocks /\ i <= nmemb)'
        BY <1>1, <2>1, <2>2 DEF ScanOK, TypeOK, Units
      <3>4. QED
        BY <1>1, <1>4, <2>1, <2>3, <3>2, <3>3 DEF MarkOK, ScanOK, Starts, TypeOK
    <2>6. QED  BY <1>1, <1>3, <1>4, <2>1, <2>5 DEF PInv
  <1>6. CASE RunAt # nmemb
    <2>1. pc' = "scan" /\ offset' = offset - 1 /\ i' = 0 /\ cmemb' = RunAt
      BY <1>1, <1>6 DEF Scan
    <2>2. RunAt < nmemb /\ offset + RunAt <= Blocks
      BY <1>1, <1>2, <1>6 DEF RunAt, ScanOK, TypeOK, Units
    <2>3. NoRunAbove(offset)'
      <3>1. SUFFICES ASSUME NEW f \in Units, f > offset - 1, f + nmemb <= Blocks
                     PROVE  \E u \in f..(f + nmemb - 1) : memmap[u] # 0
        BY <1>1, <2>1 DEF NoRunAbove
      <3>2. CASE f > offset
        BY <1>1, <3>1, <3>2 DEF ScanOK, NoRunAbove
      <3>3. CASE f = offset /\ memmap[offset] # 0
        BY <1>1, <3>3 DEF ScanOK, Units
      <3>4. CASE f = offset /\ memmap[offset] = 0
        <4>1. cmemb + 1 < nmemb
          BY <2>2, <3>4 DEF RunAt
        <4>2. offset + cmemb + 1 \in f..(f + nmemb - 1) /\ offset + cmemb + 1 <= Blocks - 1
          BY <1>1, <3>1, <3>4, <4>1 DEF ScanOK, TypeOK, Units
        <4>3. QED  BY <1>1, <4>2 DEF ScanOK
      <3>5. QED  BY <1>1, <3>1, <3>2, <3>3, <3>4 DEF Units, TypeOK
    <2>4. ScanOK'
      <3>1. (\A u \in (offset + 1)..(offset + cmemb) : memmap[u] = 0)'
        BY <1>1, <2>1 DEF RunAt, ScanOK, TypeOK, Units
      <3>2. (offset + cmemb + 1 <= Blocks - 1 => memmap[offset + cmemb + 1] # 0)'
        BY <1>1, <2>1 DEF RunAt, ScanOK, TypeOK, Units
      <3>3. (nmemb \in Nat \ {0} /\ cmemb < nmemb /\ offset + cmemb <= Blocks - 1)'
        BY <1>1, <1>2, <2>1, <2>2 DEF ScanOK, TypeOK, Units
      <3>4. (old \in Starts \cup {Fail})'
        BY <1>1 DEF ScanOK, Starts
      <3>5. QED
        BY <1>4, <2>3, <3>1, <3>2, <3>3, <3>4 DEF ScanOK
    <2>5. QED  BY <1>1, <1>3, <1>4, <2>1, <2>4 DEF PInv
  <1>7. QED  BY <1>5, <1>6

LEMMA GiveUpKeeps == PInv /\ GiveUp => PInv'
  <1> SUFFICES ASSUME PInv, GiveUp PROVE PInv'
    OBVIOUS
  <1>1. TypeOK'
    BY PoolAssumption DEF PInv, TypeOK, GiveUp, Return
  <1>2. QED
    BY <1>1 DEF PInv, GiveUp, Return, NoOverlap, Exact, ScanOK

LEMMA MarkKeeps == PInv /\ Mark => PInv'
  <1> SUFFICES ASSUME PInv, Mark PROVE PInv'
    OBVIOUS
  <1> USE PoolAssumption
  <1>1. /\ TypeOK /\ NoOverlap /\ MarkOK /\ memrdy /\ i < nmemb /\ i' = i + 1
        /\ memmap' = [memmap EXCEPT ![offset + i] = nmemb]
        /\ UNCHANGED <<memrdy, pc, offset, cmemb, nmemb, old, ret, live, stale>> /\ pc = "mark"
    BY DEF PInv, Mark, MarkValue
  <1>2. offset + i \in Units /\ offset + i \in Extent(Found) /\ Found' = Found
    BY <1>1 DEF MarkOK, TypeOK, Units, Extent, Found
  <1>3. TypeOK'
    BY <1>1, <1>2 DEF TypeOK, MarkOK
  <1>4. \A u \in Units : u # offset + i => memmap'[u] = memmap[u]
    BY <1>1 DEF TypeOK
  <1>5. (\A u \in Units \ Extent(Found) : Exact(u))'
    BY <1>1, <1>2, <1>4 DEF MarkOK, Exact
  <1>6. memmap'[offset + i] = nmemb
    BY <1>1, <1>2 DEF TypeOK
  <1>7. (\A u \in offset..(offset + i - 1) : memmap[u] = nmemb)'
    BY <1>1, <1>4, <1>6 DEF MarkOK, TypeOK, Units
  <1>8. (\A u \in (offset + i)..(offset + nmemb - 1) : memmap[u] = 0)'
    BY <1>1, <1>4 DEF MarkOK, TypeOK, Units
  <1>9. MarkOK'
    BY <1>1, <1>2, <1>5, <1>7, <1>8 DEF MarkOK, TypeOK, Starts
  <1>10. QED
    BY <1>1, <1>3, <1>9 DEF PInv, NoOverlap

\* The block found joins the blocks in use without overlapping them.
LEMMA HandOutKeeps == PInv /\ HandOut => PInv'
  <1> SUFFICES ASSUME PInv, HandOut PROVE PInv'
    OBVIOUS
  <1> USE PoolAssumption
  <1>1. /\ TypeOK /\ NoOverlap /\ MarkOK /\ memrdy /\ i = nmemb
        /\ live' = live \cup {Found} /\ stale' = {} /\ memmap' = memmap /\ memrdy' = memrdy
    BY DEF PInv, HandOut, Found
  <1>2. Found \in [first : Units, len : 1..Blocks] /\ Extent(Found) \subseteq Units
    BY <1>1 DEF MarkOK, TypeOK, Units, Extent, Found
  <1>3. NoOverlap'
    BY <1>1, <1>2 DEF NoOverlap, MarkOK
  <1>4. \A u \in Units : Exact(u)'
    <2>1. ASSUME NEW u \in Extent(Found) PROVE memmap[u] = Found.len
      BY <1>1, <2>1 DEF MarkOK, Extent, Found, TypeOK, Units
    <2>2. \A u \in Units \ Extent(Found) : Exact(u)'
      BY <1>1 DEF MarkOK, Exact
    <2>3. QED  BY <1>1, <2>1, <2>2 DEF Exact
  <1>5. ret' \in Nat /\ old \in Units \cup {Fail}
    BY <1>1 DEF HandOut, MarkOK, TypeOK
  <1>6. CASE old = Fail
    <2>1. pc' = "idle" /\ i' = 0 /\ offset' = 0 /\ nmemb' = 0 /\ cmemb' = 0 /\ old' = Fail
      BY <1>6 DEF HandOut, Return
    <2>2. TypeOK'
      BY <1>1, <1>2, <1>5, <2>1 DEF TypeOK
    <2>3. QED  BY <1>1, <1>3, <1>4, <2>1, <2>2 DEF PInv
  <1>7. CASE old # Fail
    <2>1. /\ pc' = "clear" /\ i' = 0 /\ offset' = old /\ nmemb' = memmap[old] /\ old' = old
          /\ cmemb' = cmemb
      BY <1>7 DEF HandOut
    <2>2. PICK b \in live' : b.first = old
      BY <1>1, <1>7 DEF MarkOK, Starts
    <2>3. TypeOK'
      BY <1>1, <1>2, <1>5, <1>7, <2>1 DEF TypeOK, Units
    <2>4. /\ b.first + b.len <= Blocks /\ b = [first |-> b.first, len |-> b.len]
          /\ b.len \in 1..Blocks /\ \A u \in Extent(b) : u \in Units /\ memmap'[u] = b.len
      <3>1. b \in [first : Units, len : 1..Blocks] /\ b \in live'
        BY <2>2, <2>3 DEF TypeOK
      <3>2. \A u \in Extent(b) : u \in Units /\ memmap'[u] = b.len
        BY <1>3, <1>4, <2>2 DEF NoOverlap, Exact
      <3>3. b.first + b.len - 1 \in Extent(b)
        BY <3>1 DEF Extent, Units
      <3>4. QED  BY <3>1, <3>2, <3>3 DEF Units
    <2>5. old \in Extent(b)
      BY <2>2, <2>4, <1>5, <1>7 DEF Extent, Units
    <2>6. nmemb' = b.len /\ Found' = b
      BY <1>1, <2>1, <2>2, <2>4, <2>5 DEF Found
    <2>7. ClearOK'
      <3>1. (offset >= 0 /\ i <= nmemb)'
        BY <1>5, <1>7, <2>1, <2>4, <2>6 DEF Units
      <3>2. (\A u \in offset..(offset + i - 1) : memmap[u] = 0)'
        BY <1>5, <1>7, <2>1 DEF Units
      <3>3. (\A u \in (offset + i)..(offset + nmemb - 1) : memmap[u] = nmemb)'
        BY <1>5, <1>7, <2>1, <2>2, <2>4, <2>6 DEF Units, Extent
      <3>4. QED  BY <1>4, <2>2, <2>6, <3>1, <3>2, <3>3 DEF ClearOK
    <2>8. QED  BY <1>1, <1>3, <2>1, <2>3, <2>7 DEF PInv
  <1>8. QED  BY <1>6, <1>7

\* Freeing begins on a block in use, or on an entry that is free.
LEMMA FreeKeeps == PInv /\ Free => PInv'
  <1> SUFFICES ASSUME PInv, Free PROVE PInv'
    OBVIOUS
  <1> USE PoolAssumption
  <1>1. TypeOK /\ NoOverlap /\ i = 0 /\ \A u \in Units : Exact(u)
    BY DEF PInv, Free, FreeAt
  <1>2. NoOverlap' /\ UNCHANGED <<live, stale, cmemb>>
    BY <1>1 DEF NoOverlap, Free, FreeAt
  <1>3. CASE ~memrdy
    <2>1. TypeOK' /\ i' = 0 /\ pc' = "idle"
      BY <1>1, <1>3 DEF TypeOK, Free, FreeAt
    <2>2. (\A u \in Units : Exact(u))' /\ (\A u \in stale : memmap[u] = 0)'
      BY <1>3, <1>2 DEF PInv, Free, FreeAt, Exact
    <2>3. QED  BY <1>2, <1>3, <2>1, <2>2 DEF PInv, Free, FreeAt
  <1>4. CASE memrdy
    <2>1. PICK u \in Starts \cup stale :
            /\ pc' = "clear" /\ offset' = (u * BlockSize) \div BlockSize
            /\ nmemb' = memmap[(u * BlockSize) \div BlockSize]
            /\ UNCHANGED <<memmap, memrdy, ret, i, old>>
      BY <1>4 DEF Free, FreeAt, Freeable
    <2>2. u \in Units
      BY <1>1, <2>1 DEF TypeOK, Starts
    <2>3. offset' = u /\ nmemb' = memmap[u]
      BY <2>1, <2>2, Units_of_bytes DEF Units
    <2>4. TypeOK'
      BY <1>1, <1>2, <2>1, <2>2, <2>3 DEF TypeOK, Units
    <2>5. (\A w \in Units : Exact(w))'
      BY <1>1, <1>2, <2>1 DEF Exact
    <2>6. ClearOK'
      <3>1. CASE u \in Starts
        <4>1. PICK b \in live : b.first = u
          BY <3>1 DEF Starts
        <4>2. /\ b.first + b.len <= Blocks /\ b = [first |-> b.first, len |-> b.len]
              /\ b.len \in 1..Blocks /\ \A w \in Extent(b) : memmap[w] = b.len
          BY <1>1, BlockMarked
        <4>3. u \in Extent(b)
          BY <2>2, <4>1, <4>2 DEF Extent, Units
        <4>4. nmemb' = b.len /\ Found' = b
          BY <2>3, <4>1, <4>2, <4>3 DEF Found
        <4>5. (\A w \in (offset + i)..(offset + nmemb - 1) : memmap[w] = nmemb)'
          BY <1>1, <2>1, <2>2, <2>3, <4>1, <4>2, <4>4 DEF Extent, Units
        <4>6. (\A w \in offset..(offset + i - 1) : memmap[w] = 0)' /\ (offset >= 0 /\ i <= nmemb)'
          BY <1>1, <2>1, <2>2, <2>3, <4>2, <4>4 DEF Units
        <4>7. QED  BY <1>2, <2>5, <4>4, <4>5, <4>6 DEF ClearOK
      <3>2. CASE u \notin Starts
        <4>1. nmemb' = 0
          BY <2>1, <2>3, <3>2 DEF PInv, Free, FreeAt
        <4>2. QED
          BY <1>1, <1>2, <2>1, <2>2, <2>3, <2>5, <3>2, <4>1 DEF ClearOK, Starts, Units
      <3>3. QED  BY <3>1, <3>2
    <2>7. QED  BY <1>2, <1>4, <2>1, <2>4, <2>6 DEF PInv, Free, FreeAt
  <1>5. QED  BY <1>3, <1>4

LEMMA ClearKeeps == PInv /\ Clear => PInv'
  <1> SUFFICES ASSUME PInv, Clear PROVE PInv'
    OBVIOUS
  <1> USE PoolAssumption
  <1>1. /\ TypeOK /\ NoOverlap /\ ClearOK /\ memrdy /\ i < nmemb /\ i' = i + 1 /\ pc = "clear"
        /\ memmap' = [memmap EXCEPT ![offset + i] = 0]
        /\ UNCHANGED <<memrdy, pc, offset, cmemb, nmemb, old, ret, live, stale>>
    BY DEF PInv, Clear, ClearEnd
  <1>2. /\ Found \in live /\ Found' = Found
        /\ \A u \in offset..(offset + i - 1) : memmap[u] = 0
        /\ \A u \in (offset + i)..(offset + nmemb - 1) : memmap[u] = nmemb
        /\ \A u \in Units \ Extent(Found) : Exact(u)
    BY <1>1 DEF ClearOK, TypeOK, Found
  <1>3. offset + i \in Units /\ offset + i \in Extent(Found)
    <2>1. offset + i \in Extent(Found)
      BY <1>1 DEF ClearOK, TypeOK, Extent, Found
    <2>2. QED  BY <1>1, <1>2, <2>1 DEF NoOverlap
  <1>4. \A u \in Units : memmap'[u] = IF u = offset + i THEN 0 ELSE memmap[u]
    BY <1>1, <1>3 DEF TypeOK
  <1>5. TypeOK'
    BY <1>1, <1>3 DEF TypeOK
  <1>6. (\A u \in Units \ Extent(Found) : Exact(u))'
    BY <1>1, <1>2, <1>3, <1>4 DEF Exact
  <1>7. \A u \in offset..(offset + nmemb - 1) : u \in Units
    BY <1>1, <1>2 DEF NoOverlap, Extent, Found
  <1>8. (\A u \in offset..(offset + i - 1) : memmap[u] = 0)'
    BY <1>1, <1>2, <1>4, <1>7 DEF TypeOK
  <1>9. (\A u \in (offset + i)..(offset + nmemb - 1) : memmap[u] = nmemb)'
    BY <1>1, <1>2, <1>4, <1>7 DEF TypeOK
  <1>10. ClearOK'
    BY <1>1, <1>2, <1>6, <1>8, <1>9 DEF ClearOK, TypeOK
  <1>11. (\A u \in stale : memmap[u] = 0)'
    BY <1>1, <1>4 DEF PInv, TypeOK
  <1>12. QED  BY <1>1, <1>5, <1>10, <1>11 DEF PInv, NoOverlap

LEMMA FreedKeeps == PInv /\ Freed => PInv'
  <1> SUFFICES ASSUME PInv, Freed PROVE PInv'
    OBVIOUS
  <1> USE PoolAssumption
  <1>1. /\ TypeOK /\ NoOverlap /\ ClearOK /\ memrdy /\ i = nmemb /\ pc' = "idle" /\ i' = 0
        /\ live' = {b \in live : b.first # offset} /\ stale' = stale \cup {offset}
        /\ memmap' = memmap /\ memrdy' = memrdy
    BY DEF PInv, Freed, ClearEnd, Return, ClearOK, TypeOK
  <1>2. NoOverlap'
    BY <1>1 DEF NoOverlap
  <1>3. offset \in Units
    BY <1>1 DEF ClearOK, TypeOK, Units
  <1>4. TypeOK'
    BY <1>1, <1>3 DEF TypeOK, Freed, Return
  <1>5. (\A u \in Units : Exact(u))' /\ memmap[offset] = 0
    <2>1. CASE Found \in live
      <3>1. \A u \in Extent(Found) : memmap[u] = 0
        <4>1. CASE nmemb # 0 /\ Found \in live /\ \A u \in offset..(offset + i - 1) : memmap[u] = 0
          BY <1>1, <4>1 DEF Extent, Found
        <4>2. CASE nmemb = 0
          BY <4>2, <1>1, <2>1 DEF TypeOK, Found
        <4>3. QED  BY <1>1, <2>1, <4>1, <4>2 DEF ClearOK, Starts, Found
      <3>2. live' = live \ {Found}
        BY <1>1, <2>1, StartsDiffer DEF Found
      <3>3. \A u \in Units \ Extent(Found) : Exact(u)
        BY <1>1, <2>1 DEF ClearOK
      <3>4. \A u \in Extent(Found) : \A b \in live' : u \notin Extent(b)
        BY <1>1, <2>1, <3>2 DEF NoOverlap
      <3>5. ASSUME NEW u \in Units PROVE Exact(u)'
        <4>1. CASE u \in Extent(Found)
          BY <1>1, <3>1, <3>4, <4>1 DEF Exact
        <4>2. CASE u \notin Extent(Found)
          BY <1>1, <3>2, <3>3, <4>2 DEF Exact
        <4>3. QED  BY <4>1, <4>2
      <3>6. offset \in Extent(Found)
        BY <1>1, <1>3, <2>1 DEF TypeOK, Found, Extent, Units
      <3>7. QED  BY <3>1, <3>5, <3>6
    <2>2. CASE Found \notin live
      <3>1. memmap[offset] = 0 /\ offset \notin Starts /\ \A u \in Units : Exact(u)
        BY <1>1, <2>2 DEF ClearOK
      <3>2. live' = live
        BY <1>1, <3>1 DEF Starts
      <3>3. QED
        BY <1>1, <3>1, <3>2 DEF Exact
    <2>3. QED  BY <2>1, <2>2
  <1>6. \A u \in stale' : memmap'[u] = 0
    BY <1>1, <1>5 DEF PInv, Freed
  <1>7. QED  BY <1>1, <1>2, <1>4, <1>5, <1>6 DEF PInv

LEMMA PInvNext == PInv /\ [Next]_vars => PInv'
  <1> SUFFICES ASSUME PInv, [Next]_vars PROVE PInv'
    OBVIOUS
  <1>1. CASE Malloc \/ Realloc
    BY <1>1, StartKeeps DEF Malloc, Realloc
  <1>2. CASE FreeOutside
    <2>1. TypeOK'
      BY <1>2 DEF PInv, TypeOK, FreeOutside
    <2>2. QED  BY <1>2, <2>1 DEF PInv, FreeOutside, NoOverlap, Exact
  <1>3. CASE UNCHANGED vars
    BY <1>3 DEF PInv, TypeOK, NoOverlap, Exact, ScanOK, NoRunAbove, MarkOK, ClearOK, Found, Starts,
       vars
  <1>4. QED
    BY <1>1, <1>2, <1>3, InitialiseKeeps, ScanKeeps, GiveUpKeeps, MarkKeeps, HandOutKeeps,
       FreeKeeps, ClearKeeps, FreedKeeps DEF Next

LEMMA PInvAlways == Spec => []PInv
  <1>1. QED  BY PInvInit, PInvNext, PTL DEF Spec

-----------------------------------------------------------------------------
(* The results.                                                            *)

\* The variables of malloc.c keep their types; an entry of the table never
\* exceeds the number of units, so it fits its 16 bits.
THEOREM PoolTypeCorrect == Spec => []TypeOK
  <1>1. PInv => TypeOK
    BY DEF PInv
  <1>2. QED  BY <1>1, PInvAlways, PTL

\* The blocks in use lie in the pool and never overlap.
THEOREM PoolNeverOverlaps == Spec => []NoOverlap
  <1>1. PInv => NoOverlap
    BY DEF PInv
  <1>2. QED  BY <1>1, PInvAlways, PTL

\* Between calls the table says exactly what is in use: nothing leaks, and a
\* pointer freed twice takes nothing from a block in use.
THEOREM PoolTableExact == Spec => []TableExact
  <1>1. PInv => TableExact
    BY DEF PInv, TableExact
  <1>2. QED  BY <1>1, PInvAlways, PTL

\* mymalloc returns NULL only when no run of free units is long enough.
THEOREM PoolNeverRefusesFalsely == Spec => []NoFalseRefusal
  <1>1. PInv => NoFalseRefusal
    <2> SUFFICES ASSUME PInv, pc = "scan", offset < 0,
                        NEW f \in Units, f + nmemb <= Blocks,
                        \A u \in f..(f + nmemb - 1) : memmap[u] = 0
                 PROVE  FALSE
      BY DEF NoFalseRefusal
    <2>1. NoRunAbove(offset) /\ offset \in Int
      BY DEF PInv, ScanOK, TypeOK
    <2>2. f > offset
      BY <2>1 DEF Units
    <2>3. QED  BY <2>1, <2>2 DEF NoRunAbove
  <1>2. QED  BY <1>1, PInvAlways, PTL

\* malloc.c implements PoolSpec: handing a block out is an allocation, the end
\* of myfree takes one block away, and every other step changes nothing.
THEOREM PoolKeepsPromise == Spec => Promise
  <1>1. Init => Abstract!Init
    BY DEF Init, Abstract!Init
  <1>2. PInv /\ [Next]_vars => [Abstract!Next]_live
    <2> SUFFICES ASSUME PInv, [Next]_vars, live' # live PROVE Abstract!Next
      OBVIOUS
    <2>1. CASE HandOut
      <3>1. live' = live \cup {Found} /\ MarkOK /\ TypeOK
        BY <2>1 DEF PInv, HandOut, Found
      <3>2. offset \in Abstract!Units /\ nmemb \in 1..Blocks
        BY <3>1, PoolAssumption DEF MarkOK, TypeOK, Units, Abstract!Units
      <3>3. Abstract!IsFree(Found)
        BY <3>1, PoolAssumption
        DEF Abstract!IsFree, Abstract!Extent, Abstract!Units, MarkOK, TypeOK, Extent, Found
      <3>4. QED  BY <3>1, <3>2, <3>3 DEF Found, Abstract!Next, Abstract!Allocate
    <2>2. CASE Freed
      <3>1. PICK b \in live : b.first = offset
        BY <2>2 DEF Freed
      <3>2. live' = live \ {b}
        BY <2>2, <3>1, StartsDiffer DEF Freed, PInv
      <3>3. QED  BY <3>1, <3>2 DEF Abstract!Next, Abstract!Free
    <2>3. CASE Initialise \/ Malloc \/ Realloc \/ Scan \/ GiveUp \/ Mark \/ Free \/ FreeOutside
               \/ Clear \/ UNCHANGED vars
      BY <2>3 DEF Initialise, Malloc, Realloc, StartSearch, Scan, GiveUp, Mark, Free, FreeAt,
         FreeOutside, Clear, vars
    <2>4. QED  BY <2>1, <2>2, <2>3 DEF Next
  <1>3. QED  BY <1>1, <1>2, PInvAlways, PTL DEF Spec, Promise, Abstract!Spec
=============================================================================

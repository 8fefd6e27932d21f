---------------------------- MODULE FlashProofs ----------------------------
(***************************************************************************)
(* FlashWrite implements ByteStore, for every geometry of the chip and all *)
(* writes.  What a sector is to hold when the call ends is its Target.     *)
(* While write stands in sector secpos, the sectors before it have come to *)
(* their target, the sectors after it are as they were, and the sector     *)
(* itself is on its way: untouched, erased up to addr and from there on    *)
(* blank, or filled up to addr and blank where the rest will go.           *)
(***************************************************************************)
EXTENDS FlashWrite, TLAPS

Target(s) == Store!Overwritten(before, call)[s]

\* The bytes from the call's first sector to sector s.
Gap(s) == (s - call.sec) * SectorSize

\* Where the call stands: done bytes are in earlier sectors, secoff is where the
\* next one goes.
Place ==
  /\ done <= Len(call.data)
  /\ call.sec <= secpos
  /\ Gap(secpos) = done + call.off - secoff
  /\ done > 0 => secoff = 0
  /\ fpc = "erase" => whole /\ addr = 0 /\ Secremain > 0
  /\ fpc = "program" =>
       /\ addr <= End
       /\ whole => Secremain > 0
       /\ ~whole => secoff <= addr
  /\ fpc = "end" => NumByte = Secremain

\* How far the sector in work has come.
Rewritten ==
  /\ W25QXX_BUF = Target(secpos)
  /\ \A o \in Offs : flash[secpos][o] = IF o < addr THEN W25QXX_BUF[o] ELSE Erased

Filled ==
  /\ \A o \in Offs : InChunk(o) => before[secpos][o] = Erased
  /\ \A o \in Offs : flash[secpos][o] = IF o \in secoff..(addr - 1) THEN Datum(o)
                                                                    ELSE before[secpos][o]

InWork ==
  /\ fpc \in {"read", "check", "erase"} => flash[secpos] = before[secpos]
  /\ fpc \in {"check", "erase"} => W25QXX_BUF = before[secpos]
  /\ fpc = "program" => IF whole THEN Rewritten ELSE Filled
  /\ fpc \in {"next", "end"} => flash[secpos] = Target(secpos)

Around ==
  \A s \in Secs : /\ s < secpos => flash[s] = Target(s)
                  /\ s > secpos => flash[s] = before[s]

FInv ==
  /\ FlashTypeOK
  /\ fpc = "idle" <=> call = NoWrite
  /\ fpc # "idle" => Place /\ InWork /\ Around

-----------------------------------------------------------------------------
\* Distances between sectors of Z bytes, counted from sector c.
LEMMA Distances ==
  ASSUME NEW Z \in Nat \ {0}, NEW c \in Int, NEW s \in Int, NEW p \in Int
  PROVE  /\ (s - c) * Z \in Int
         /\ (s + 1 - c) * Z = (s - c) * Z + Z
         /\ s < c => (s - c) * Z <= 0 - Z
         /\ s > p => (s - c) * Z >= (p - c) * Z + Z
  <1>1. s < c => (s + 1 - c) * Z <= 0
    OBVIOUS
  <1>2. s > p => (s - c) * Z >= (p + 1 - c) * Z
    OBVIOUS
  <1>3. (s + 1 - c) * Z = (s - c) * Z + Z /\ (p + 1 - c) * Z = (p - c) * Z + Z
    OBVIOUS
  <1>4. (s - c) * Z \in Int /\ (p - c) * Z \in Int
    OBVIOUS
  <1>5. QED  BY <1>1, <1>2, <1>3, <1>4

\* What ends before sector n does not reach past sector n - 1.
LEMMA LastSector ==
  ASSUME NEW Z \in Nat \ {0}, NEW c \in Int, NEW s \in Int, NEW n \in Int, NEW len \in Int,
         c * Z + len <= n * Z, s + 1 >= n
  PROVE  (s - c) * Z + Z >= len
  <1>1. (s + 1) * Z >= n * Z
    OBVIOUS
  <1>2. (s - c) * Z = s * Z - c * Z
    OBVIOUS
  <1>3. (s + 1) * Z = s * Z + Z /\ s * Z \in Int /\ c * Z \in Int /\ n * Z \in Int
    OBVIOUS
  <1>4. QED  BY <1>1, <1>2, <1>3

\* The bytes of a chunk: it has r of the len - d bytes that are left, from off on.
LEMMA ChunkArith ==
  ASSUME NEW Z \in Nat \ {0}, NEW off \in Nat, off < Z, NEW d \in Nat, NEW len \in Nat,
         NEW r, r = IF len - d <= Z - off THEN len - d ELSE Z - off,
         d <= len, d > 0 => off = 0
  PROVE  /\ r \in Nat /\ off + r <= Z /\ r <= len - d
         /\ \A o \in 0..(Z - 1) : o \in off..(off + r - 1) <=> d + o - off \in 0..(len - 1)
  OBVIOUS

\* A sector whose gap is g, o bytes in, when the call stands so bytes into a sector
\* of gap h with d of its len bytes done: past the end if the rest fits before it,
\* and where the call goes on if it does not.
LEMMA Beyond ==
  ASSUME NEW Z \in Nat, NEW g \in Int, NEW h \in Int, NEW off \in Int, NEW d \in Int,
         NEW so \in Int, NEW len \in Int, NEW o \in Int,
         h = d + off - so
  PROVE  /\ h + o - off = d + o - so
         /\ g >= h + Z /\ so + (len - d) <= Z /\ o >= 0 => g + o - off >= len
         /\ h + Z = d + (Z - so) + off
  OBVIOUS

\* The addresses of a page program that stays within its page follow each other.
LEMMA Remainders ==
  ASSUME NEW P \in Nat \ {0}, NEW a \in Nat
  PROVE  /\ a % P \in 0..(P - 1)
         /\ \A x \in 0..(P - 1) : x % P = x
  OBVIOUS

\* A write in progress, in types.
LEMMA CallTypes ==
  ASSUME FlashTypeOK, call # NoWrite
  PROVE  /\ call \in Requests /\ call.data \in Seq(Values)
         /\ call.sec \in Int /\ call.off \in Int /\ Len(call.data) \in Nat
         /\ secpos \in Int /\ secoff \in Nat /\ secoff < SectorSize
         /\ done \in Nat /\ addr \in Nat /\ NumByte = Len(call.data) - done /\ NumByte \in Int
         /\ SectorSize \in Nat \ {0} /\ PageSize \in Nat \ {0} /\ Sectors \in Nat \ {0}
  <1>1. call \in Requests
    BY DEF FlashTypeOK
  <1>2. call.sec \in Secs /\ call.off \in Offs /\ call.data \in Seq(Values)
    BY <1>1, RequestAssumption
  <1>3. QED  BY <1>1, <1>2, FlashAssumption DEF FlashTypeOK, Secs, Offs, NumByte

LEMMA CallStarts ==
  ASSUME FlashTypeOK, call # NoWrite
  PROVE  call.sec >= 0 /\ call.off >= 0 /\ call.off < SectorSize
  <1>1. call \in Requests
    BY DEF FlashTypeOK
  <1>2. call.sec \in Secs /\ call.off \in Offs
    BY <1>1, RequestAssumption
  <1>3. QED  BY <1>2, FlashAssumption DEF Secs, Offs

\* A sector and an offset, in types.
LEMMA CellTypes ==
  ASSUME NEW s \in Secs, NEW o \in Offs
  PROVE  s \in Int /\ o \in Int /\ s >= 0 /\ s < Sectors /\ o >= 0 /\ o < SectorSize
  BY FlashAssumption DEF Secs, Offs

\* Gaps grow by a sector's size from one sector to the next.
LEMMA Gaps ==
  ASSUME FlashTypeOK, call # NoWrite, NEW s \in Int
  PROVE  /\ Gap(s) \in Int
         /\ Gap(s + 1) = Gap(s) + SectorSize
         /\ s < call.sec => Gap(s) <= 0 - SectorSize
         /\ s > secpos => Gap(s) >= Gap(secpos) + SectorSize
         /\ s + 1 >= Sectors => Gap(s) + SectorSize >= call.off + Len(call.data)
  <1>1. call.sec \in Int /\ secpos \in Int /\ SectorSize \in Nat \ {0}
    BY CallTypes
  <1>2. call.off + Len(call.data) \in Int /\ Sectors \in Int
    BY CallTypes
  <1>3. (call.sec * SectorSize) + (call.off + Len(call.data)) <= Sectors * SectorSize
    <2>1. (call.sec * SectorSize) + call.off + Len(call.data) <= Sectors * SectorSize
      BY RequestAssumption, CallTypes
    <2>2. call.sec * SectorSize \in Int /\ Sectors * SectorSize \in Int
      BY <1>1, <1>2
    <2>3. call.off \in Int /\ Len(call.data) \in Int
      BY CallTypes
    <2>4. QED  BY <2>1, <2>2, <2>3
  <1>4. s + 1 >= Sectors => Gap(s) + SectorSize >= call.off + Len(call.data)
    BY <1>1, <1>2, <1>3, LastSector DEF Gap
  <1>5. Gap(s) \in Int /\ Gap(s + 1) = Gap(s) + SectorSize
    BY <1>1, Distances DEF Gap
  <1>6. s < call.sec => Gap(s) <= 0 - SectorSize
    BY <1>1, Distances DEF Gap
  <1>7. s > secpos => Gap(s) >= Gap(secpos) + SectorSize
    BY <1>1, Distances DEF Gap
  <1>8. QED  BY <1>4, <1>5, <1>6, <1>7

\* The position of a byte is counted from the call's first one.
LEMMA Positions ==
  ASSUME FlashTypeOK, call # NoWrite, NEW s \in Secs, NEW o \in Offs
  PROVE  /\ Store!Position(call, s, o) = Gap(s) + o - call.off
         /\ Store!Position(call, s, o) \in Int
  <1>1. Gap(s) \in Int /\ o \in Int
    BY CellTypes, Gaps
  <1>2. Store!Position(call, s, o) = Gap(s) + o - call.off
    BY DEF Store!Position, Gap
  <1>3. QED  BY <1>1, <1>2, CallTypes

\* Where the call stands, as far as it does not depend on what is being done.
LEMMA Stands ==
  ASSUME Place
  PROVE  /\ done <= Len(call.data) /\ call.sec <= secpos /\ (done > 0 => secoff = 0)
         /\ Gap(secpos) = done + call.off - secoff
  BY DEF Place

\* How many bytes of the call lie in the sector.
LEMMA Chunk ==
  ASSUME FlashTypeOK, call # NoWrite, Place
  PROVE  /\ Secremain \in Nat /\ secoff + Secremain <= SectorSize /\ Secremain <= NumByte
         /\ \A o \in Offs : InChunk(o) <=> done + o - secoff \in 0..(Len(call.data) - 1)
  <1>1. Secremain = IF Len(call.data) - done <= SectorSize - secoff
                    THEN Len(call.data) - done ELSE SectorSize - secoff
    BY DEF Secremain, Smaller, NumByte
  <1>2. /\ SectorSize \in Nat \ {0} /\ secoff \in Nat /\ secoff < SectorSize
        /\ done \in Nat /\ Len(call.data) \in Nat /\ NumByte = Len(call.data) - done
        /\ done <= Len(call.data) /\ (done > 0 => secoff = 0)
    BY CallTypes, Stands
  <1>3. Secremain \in Nat /\ secoff + Secremain <= SectorSize /\ Secremain <= NumByte
    BY <1>1, <1>2, ChunkArith
  <1>4. \A o \in Offs : InChunk(o) <=> done + o - secoff \in 0..(Len(call.data) - 1)
    BY <1>1, <1>2, ChunkArith DEF InChunk, Offs
  <1>5. QED  BY <1>3, <1>4

\* The bytes of the sector that the call names are the chunk.
LEMMA ChunkNamed ==
  ASSUME FlashTypeOK, call # NoWrite, Place, NEW o \in Offs
  PROVE  /\ Store!Position(call, secpos, o) = done + o - secoff
         /\ InChunk(o) <=> Store!Position(call, secpos, o) \in 0..(Len(call.data) - 1)
  <1>1. secpos \in Secs /\ o \in Int
    BY CellTypes DEF FlashTypeOK
  <1>2. Store!Position(call, secpos, o) = done + o - secoff
    <2>1. Store!Position(call, secpos, o) = Gap(secpos) + o - call.off /\ Gap(secpos) \in Int
      BY <1>1, Positions, Gaps, CallTypes
    <2>2. /\ Gap(secpos) = done + call.off - secoff
          /\ done \in Int /\ call.off \in Int /\ secoff \in Int
      BY CallTypes, Stands
    <2>3. QED  BY <1>1, <2>1, <2>2, Beyond
  <1>3. QED  BY <1>2, Chunk

LEMMA TargetHere ==
  ASSUME FlashTypeOK, call # NoWrite, Place
  PROVE  /\ \A o \in Offs : InChunk(o) => Datum(o) \in Values
         /\ \A o \in Offs : Store!Names(call, secpos, o) <=> InChunk(o)
         /\ Target(secpos) = [o \in Offs |-> IF InChunk(o) THEN Datum(o)
                                                           ELSE before[secpos][o]]
         /\ Target(secpos) \in [Offs -> Values]
  <1>1. ASSUME NEW o \in Offs PROVE Store!Names(call, secpos, o) <=> InChunk(o)
    BY ChunkNamed DEF Store!Names
  <1>2. secpos \in Secs
    BY DEF FlashTypeOK
  <1>3. ASSUME NEW o \in Offs, InChunk(o)
        PROVE  /\ Datum(o) \in Values
               /\ Datum(o) = call.data[Store!Position(call, secpos, o) + 1]
    <2>1. done + o - secoff + 1 \in 1..Len(call.data)
      <3>1. done + o - secoff \in 0..(Len(call.data) - 1)
        BY <1>3, ChunkNamed
      <3>2. done \in Int /\ secoff \in Int /\ o \in Int /\ Len(call.data) \in Nat
        BY CallTypes, CellTypes, <1>2
      <3>3. QED  BY <3>1, <3>2
    <2>2. Datum(o) \in Values
      BY <2>1, CallTypes DEF Datum
    <2>3. Datum(o) = call.data[Store!Position(call, secpos, o) + 1]
      BY <1>3, ChunkNamed DEF Datum
    <2>4. QED  BY <2>2, <2>3
  <1>4. Target(secpos) = [o \in Offs |-> IF InChunk(o) THEN Datum(o) ELSE before[secpos][o]]
    BY <1>1, <1>2, <1>3 DEF Target, Store!Overwritten, Store!Secs, Store!Offs, Secs, Offs
  <1>5. before[secpos] \in [Offs -> Values]
    BY DEF FlashTypeOK, Content
  <1>6. QED  BY <1>1, <1>3, <1>4, <1>5

\* No byte is named, so nothing changes.
LEMMA Untouched ==
  ASSUME FlashTypeOK, NEW s \in Secs, \A o \in Offs : ~Store!Names(call, s, o)
  PROVE  Target(s) = before[s]
  <1>1. before[s] = [o \in Offs |-> before[s][o]]
    BY DEF FlashTypeOK, Content
  <1>2. QED
    BY <1>1 DEF Target, Store!Overwritten, Store!Secs, Store!Offs, Secs, Offs

\* No byte of a sector before the call's first one is named.
LEMMA TargetBefore ==
  ASSUME FlashTypeOK, call # NoWrite, NEW s \in Secs, s < call.sec
  PROVE  Target(s) = before[s]
  <1>1. ASSUME NEW o \in Offs PROVE ~Store!Names(call, s, o)
    <2>1. Gap(s) \in Int /\ Gap(s) <= 0 - SectorSize
      BY CellTypes, Gaps
    <2>2. /\ Store!Position(call, s, o) = Gap(s) + o - call.off
          /\ o \in Int /\ o < SectorSize /\ call.off >= 0 /\ call.off \in Int /\ SectorSize \in Nat
      BY Positions, CallTypes, CallStarts, CellTypes
    <2>3. Store!Position(call, s, o) < 0
      BY <2>1, <2>2
    <2>4. QED
      BY <2>3, Positions DEF Store!Names
  <1>2. QED  BY <1>1, Untouched

EarlierUnnamed ==
  FlashTypeOK /\ call # NoWrite => \A s \in Secs : s < call.sec => Target(s) = before[s]

LEMMA CallBegins == EarlierUnnamed
  BY TargetBefore DEF EarlierUnnamed

\* When the rest of the call fits into the sector, no byte of a later one is named.
LEMMA TargetAfter ==
  ASSUME FlashTypeOK, call # NoWrite, Place, NumByte = Secremain, NEW s \in Secs, s > secpos
  PROVE  Target(s) = before[s]
  <1>1. ASSUME NEW o \in Offs PROVE ~Store!Names(call, s, o)
    <2>1. secpos \in Int /\ s \in Int
      BY CallTypes, CellTypes
    <2>2. Gap(s) >= Gap(secpos) + SectorSize /\ Gap(s) \in Int /\ Gap(secpos) \in Int
      BY <2>1, Gaps
    <2>3. /\ Store!Position(call, s, o) = Gap(s) + o - call.off
          /\ Gap(secpos) = done + call.off - secoff
          /\ o \in Int /\ o >= 0 /\ call.off \in Int /\ SectorSize \in Nat
      BY Positions, CallTypes, CellTypes, Stands
    <2>4. /\ secoff + NumByte <= SectorSize /\ NumByte = Len(call.data) - done
          /\ Len(call.data) \in Nat /\ done \in Nat /\ secoff \in Nat
      BY CallTypes, Chunk
    <2>5. /\ secoff + (Len(call.data) - done) <= SectorSize
          /\ done \in Int /\ secoff \in Int /\ Len(call.data) \in Int
      BY <2>4
    <2>6. Store!Position(call, s, o) >= Len(call.data)
      <3>1. Gap(s) + o - call.off >= Len(call.data)
        BY <2>2, <2>3, <2>5, Beyond
      <3>2. QED  BY <2>3, <3>1
    <2>7. QED
      BY <2>4, <2>6, Positions DEF Store!Names
  <1>2. QED  BY <1>1, Untouched

-----------------------------------------------------------------------------
\* A page program from offset m of its page on: the cells follow each other.
LEMMA PageArith ==
  ASSUME NEW P \in Nat \ {0}, NEW a \in Nat, NEW e \in Nat, a <= e, NEW m \in 0..(P - 1),
         NEW r, r = IF P - m <= e - a THEN P - m ELSE e - a
  PROVE  /\ r \in Nat /\ a + r <= e
         /\ \A i \in 0..(r - 1) : a - m + ((m + i) % P) = a + i
  <1>1. r \in Nat /\ a + r <= e /\ r <= P - m
    OBVIOUS
  <1>2. ASSUME NEW i \in 0..(r - 1) PROVE a - m + ((m + i) % P) = a + i
    <2>1. m + i \in 0..(P - 1)
      BY <1>1
    <2>2. (m + i) % P = m + i
      BY <2>1, Remainders
    <2>3. QED  BY <1>1, <2>2
  <1>3. QED  BY <1>1, <1>2

\* Where Write_NoCheck ends lies in the sector.
LEMMA EndInSector ==
  ASSUME FlashTypeOK, call # NoWrite, Place
  PROVE  End \in Nat /\ End <= SectorSize /\ (~whole => End = secoff + Secremain)
  <1>1. Secremain \in Nat /\ secoff + Secremain <= SectorSize /\ secoff \in Nat /\ SectorSize \in Nat
    BY CallTypes, Chunk
  <1>2. QED  BY <1>1 DEF End

\* One page program puts what belongs there into the cells it names, provided
\* they are erased, and leaves the others alone.
LEMMA PageDone ==
  ASSUME FlashTypeOK, call # NoWrite, Place, fpc = "program",
         \A o \in Offs : o \in addr..(End - 1) => flash[secpos][o] = Erased
  PROVE  /\ Pageremain \in Nat /\ addr + Pageremain <= End
         /\ PageWritten = [o \in Offs |-> IF o \in addr..(addr + Pageremain - 1)
                                          THEN Source(o) ELSE flash[secpos][o]]
  <1>1. addr \in Nat /\ End \in Nat /\ addr <= End /\ PageSize \in Nat \ {0}
    BY CallTypes, EndInSector DEF Place
  <1>2. Pageremain = IF PageSize - (addr % PageSize) <= End - addr
                     THEN PageSize - (addr % PageSize) ELSE End - addr
    BY DEF Pageremain, Smaller
  <1>3. /\ Pageremain \in Nat /\ addr + Pageremain <= End
        /\ \A i \in 0..(Pageremain - 1) : PageCell(i) = addr + i
    <2> addr % PageSize \in 0..(PageSize - 1)
      BY <1>1, Remainders
    <2>1. /\ Pageremain \in Nat /\ addr + Pageremain <= End
          /\ \A i \in 0..(Pageremain - 1) :
               addr - (addr % PageSize) + (((addr % PageSize) + i) % PageSize) = addr + i
      BY <1>1, <1>2, PageArith
    <2>2. QED  BY <2>1 DEF PageCell
  <1>4. ASSUME NEW o \in Offs, o \in addr..(addr + Pageremain - 1)
        PROVE  PageWritten[o] = Source(o)
    <2> DEFINE i == o - addr
    <2>1. i \in 0..(Pageremain - 1) /\ PageCell(i) = o
      BY <1>1, <1>3, <1>4
    <2>2. ASSUME NEW k \in 0..(Pageremain - 1), PageCell(k) = o PROVE addr + k = o
      BY <1>3, <2>2
    <2>3. PageWritten[o] = Programmed(flash[secpos][o], Source(o))
      <3>1. \E k \in 0..(Pageremain - 1) : PageCell(k) = o
        BY <2>1
      <3>2. addr + (CHOOSE k \in 0..(Pageremain - 1) : PageCell(k) = o) = o
        BY <2>2, <3>1
      <3>3. QED  BY <3>1, <3>2 DEF PageWritten
    <2>4. flash[secpos][o] = Erased
      BY <1>1, <1>3, <1>4
    <2>5. QED  BY <2>3, <2>4 DEF Programmed
  <1>5. ASSUME NEW o \in Offs, o \notin addr..(addr + Pageremain - 1)
        PROVE  PageWritten[o] = flash[secpos][o]
    <2>1. ASSUME NEW k \in 0..(Pageremain - 1) PROVE PageCell(k) # o
      <3>1. PageCell(k) = addr + k
        BY <1>3
      <3>2. addr + k \in addr..(addr + Pageremain - 1)
        BY <1>1, <1>3
      <3>3. QED  BY <1>5, <3>1, <3>2
    <2>2. QED  BY <2>1 DEF PageWritten
  <1>6. PageWritten = [o \in Offs |-> PageWritten[o]]
    BY DEF PageWritten
  <1>7. QED  BY <1>3, <1>4, <1>5, <1>6

\* While write programs, the cells from addr to End are erased.
LEMMA Blank ==
  ASSUME FlashTypeOK, call # NoWrite, Place, InWork, fpc = "program"
  PROVE  \A o \in Offs : o \in addr..(End - 1) => flash[secpos][o] = Erased
  <1> SUFFICES ASSUME NEW o \in Offs, o \in addr..(End - 1) PROVE flash[secpos][o] = Erased
    OBVIOUS
  <1>1. addr \in Nat /\ secoff \in Nat /\ o \in Int
    BY CallTypes, CellTypes
  <1>2. CASE whole
    BY <1>1, <1>2 DEF InWork, Rewritten
  <1>3. CASE ~whole
    <2>1. End = secoff + Secremain /\ secoff <= addr /\ Secremain \in Nat
      BY <1>3, EndInSector, Chunk DEF Place
    <2>2. InChunk(o) /\ o \notin secoff..(addr - 1)
      BY <1>1, <2>1 DEF InChunk
    <2>3. QED  BY <1>3, <2>2 DEF InWork, Filled
  <1>4. QED  BY <1>2, <1>3

-----------------------------------------------------------------------------
LEMMA FInvInit == FlashInit => FInv
  <1> SUFFICES ASSUME FlashInit PROVE FInv
    OBVIOUS
  <1>1. 0 \in Secs /\ 0 \in Offs /\ 0 \in 0..SectorSize /\ 0 \in 0..MaxFails /\ 0 \in Nat
    BY FlashAssumption DEF Secs, Offs
  <1>2. Erased \in Values
    BY FlashAssumption
  <1>3. FlashTypeOK
    BY <1>1, <1>2 DEF FlashInit, FlashTypeOK, Content
  <1>4. QED  BY <1>3 DEF FlashInit, FInv

\* A call begins with nothing done.
LEMMA BeginKeeps ==
  ASSUME FInv, NEW w \in Requests, Begin(w)
  PROVE  FInv'
  <1>1. FlashTypeOK'
    BY RequestAssumption DEF FInv, FlashTypeOK, Begin, Queue_star
  <1>2. /\ call' = w /\ call' # NoWrite /\ fpc' = "read" /\ secpos' = w.sec /\ secoff' = w.off
        /\ done' = 0 /\ flash' = flash /\ before' = flash
    BY FlashAssumption DEF Begin
  <1>3. Place'
    <2>1. Gap(w.sec)' = 0
      <3>1. call'.sec \in Int /\ SectorSize \in Int /\ w.sec \in Int
        BY <1>2, RequestAssumption, FlashAssumption DEF Secs
      <3>2. QED  BY <1>2, <3>1 DEF Gap
    <2>2. call'.sec = secpos' /\ call'.off = secoff' /\ secoff' \in Int /\ secpos' \in Int
      BY <1>1, <1>2, FlashAssumption DEF FlashTypeOK, Secs, Offs
    <2>3. Len(call'.data) \in Nat
      BY <1>2, RequestAssumption
    <2>4. Gap(secpos)' = done' + call'.off - secoff'
      BY <1>2, <2>1, <2>2 DEF Gap
    <2>5. QED  BY <1>2, <2>2, <2>3, <2>4 DEF Place
  <1>4. InWork'
    BY <1>2 DEF InWork
  <1>5. Around'
    <2> SUFFICES ASSUME NEW s \in Secs, s < secpos' PROVE flash'[s] = Target(s)'
      BY <1>2 DEF Around
    <2>1. s < call'.sec
      BY <1>2
    <2>2. Target(s)' = before'[s]
      <3>1. EarlierUnnamed'
        BY CallBegins, PTL
      <3>2. QED  BY <1>1, <1>2, <2>1, <3>1 DEF EarlierUnnamed
    <2>3. QED  BY <1>2, <2>2
  <1>6. QED  BY <1>1, <1>2, <1>3, <1>4, <1>5 DEF FInv

\* A step of a call that leaves the chip, the call and the place in it alone.
LEMMA PlaceKept ==
  ASSUME FlashTypeOK', call # NoWrite,
         UNCHANGED <<flash, before, call, secpos, secoff, done>>
  PROVE  /\ \A s \in Secs : Target(s)' = Target(s)
         /\ Secremain' = Secremain /\ NumByte' = NumByte /\ Gap(secpos)' = Gap(secpos)
         /\ \A o : InChunk(o)' <=> InChunk(o)
         /\ \A o : Datum(o)' = Datum(o)
  BY DEF Target, Store!Overwritten, Store!Names, Store!Position, Secremain, NumByte, Gap,
         InChunk, Datum, Smaller

LEMMA ReadSectorKeeps ==
  ASSUME FInv, ReadSector
  PROVE  FInv'
  <1>1. FlashTypeOK'
    BY DEF FInv, FlashTypeOK, ReadSector, ReadLocks, Queue_end, Content
  <1>2. /\ fpc = "read" /\ fpc' = "check" /\ call # NoWrite /\ W25QXX_BUF' = flash[secpos]
        /\ UNCHANGED <<flash, before, call, secpos, secoff, done>>
    BY DEF FInv, ReadSector
  <1>3. Place'
    BY <1>2, PlaceKept, <1>1 DEF FInv, Place
  <1>4. InWork'
    BY <1>2 DEF FInv, InWork
  <1>5. Around'
    BY <1>1, <1>2, PlaceKept DEF FInv, Around
  <1>6. QED  BY <1>1, <1>2, <1>3, <1>4, <1>5 DEF FInv

\* Whether the sector is erased first is decided: if not, the chunk is blank.
LEMMA CheckKeeps ==
  ASSUME FInv, Check
  PROVE  FInv'
  <1>1. FlashTypeOK'
    <2>1. secoff \in 0..SectorSize /\ 0 \in 0..SectorSize
      BY FlashAssumption DEF FInv, FlashTypeOK, Offs
    <2>2. QED  BY <2>1 DEF FInv, FlashTypeOK, Check
  <1>2. /\ fpc = "check" /\ call # NoWrite /\ FlashTypeOK /\ Place /\ InWork /\ Around
        /\ UNCHANGED <<flash, before, call, secpos, secoff, done, W25QXX_BUF>>
        /\ W25QXX_BUF = before[secpos] /\ flash[secpos] = before[secpos]
    BY DEF FInv, Check, InWork
  <1>3. Around' /\ call' # NoWrite
    BY <1>1, <1>2, PlaceKept DEF Around
  <1>4. CASE MustErase
    <2>1. fpc' = "erase" /\ whole' = TRUE /\ addr' = 0
      BY <1>4 DEF Check
    <2>2. Secremain > 0
      <3>1. PICK o \in Offs : InChunk(o)
        BY <1>4 DEF MustErase
      <3>2. o \in Int /\ secoff \in Int /\ Secremain \in Nat
        BY <1>2, Chunk, CallTypes, CellTypes DEF FlashTypeOK
      <3>3. QED  BY <3>1, <3>2 DEF InChunk
    <2>3. Place'
      BY <1>1, <1>2, <2>1, <2>2, PlaceKept DEF Place
    <2>4. InWork'
      BY <1>2, <2>1 DEF InWork
    <2>5. QED  BY <1>1, <1>3, <2>1, <2>3, <2>4 DEF FInv
  <1>5. CASE ~MustErase
    <2>1. fpc' = "program" /\ whole' = FALSE /\ addr' = secoff
      BY <1>5 DEF Check
    <2>2. Place'
      <3>1. End' = secoff + Secremain
        BY <1>1, <1>2, <2>1, PlaceKept DEF End
      <3>2. addr' <= End' /\ secoff' <= addr'
        BY <1>2, <2>1, <3>1, Chunk, CallTypes
      <3>3. QED  BY <1>1, <1>2, <2>1, <3>2, PlaceKept DEF Place
    <2>3. Filled'
      <3>1. \A o \in Offs : InChunk(o) => before[secpos][o] = Erased
        BY <1>2, <1>5 DEF MustErase
      <3>2. \A o \in Offs : o \notin secoff..(secoff - 1)
        BY <1>2, CallTypes, CellTypes
      <3>3. QED  BY <1>1, <1>2, <2>1, <3>1, <3>2, PlaceKept DEF Filled
    <2>4. InWork'
      BY <2>1, <2>3 DEF InWork
    <2>5. QED  BY <1>1, <1>3, <2>1, <2>2, <2>4 DEF FInv
  <1>6. QED  BY <1>4, <1>5

LEMMA StutterKeeps ==
  ASSUME FInv, UNCHANGED flashVars
  PROVE  FInv'
  <1>1. FlashTypeOK'
    BY DEF flashVars, FInv, FlashTypeOK, Content
  <1>2. /\ End' = End /\ Secremain' = Secremain /\ NumByte' = NumByte
        /\ Gap(secpos)' = Gap(secpos)
        /\ \A s \in Secs : Target(s)' = Target(s)
        /\ \A o : InChunk(o)' <=> InChunk(o)
        /\ \A o : Datum(o)' = Datum(o)
    BY DEF flashVars, End, Target, Store!Overwritten, Store!Names, Store!Position,
           Secremain, NumByte, Gap, InChunk, Datum, Smaller
  <1>3. secpos \in Secs
    BY DEF FInv, FlashTypeOK
  <1>4. Place => Place'
    BY <1>2 DEF flashVars, Place
  <1>5. (Rewritten => Rewritten') /\ (Filled => Filled')
    BY <1>2, <1>3 DEF flashVars, Rewritten, Filled
  <1>6. InWork => InWork'
    BY <1>2, <1>3, <1>5 DEF flashVars, InWork
  <1>7. Around => Around'
    BY <1>2 DEF flashVars, Around
  <1>8. QED  BY <1>1, <1>4, <1>6, <1>7 DEF flashVars, FInv

\* A step that changes nothing of the chip but the sector in work.
LEMMA OthersKept ==
  ASSUME FlashTypeOK, Around, NEW sector \in [Offs -> Values],
         flash' = [flash EXCEPT ![secpos] = sector],
         UNCHANGED <<before, call, secpos>>
  PROVE  /\ Around' /\ flash' \in Content /\ flash'[secpos] = sector
         /\ \A s \in Secs : Target(s)' = Target(s)
  <1>1. \A s \in Secs : Target(s)' = Target(s)
    BY DEF Target, Store!Overwritten, Store!Names, Store!Position
  <1>2. flash \in Content /\ secpos \in Secs
    BY DEF FlashTypeOK
  <1>3. flash' \in Content /\ flash'[secpos] = sector
    BY <1>2 DEF Content
  <1>4. ASSUME NEW s \in Secs, s # secpos PROVE flash'[s] = flash[s]
    BY <1>2, <1>4 DEF Content
  <1>5. ASSUME NEW s \in Secs, s < secpos \/ s > secpos PROVE s # secpos
    BY <1>2, <1>5, CellTypes, FlashAssumption DEF Secs
  <1>6. Around'
    BY <1>1, <1>4, <1>5 DEF Around
  <1>7. QED  BY <1>1, <1>3, <1>6

\* The sector is erased, the buffer now holds what is to be programmed.
LEMMA EraseSectorKeeps ==
  ASSUME FInv, EraseSector
  PROVE  FInv'
  <1>1. CASE Locked
    BY <1>1, StutterKeeps DEF EraseSector
  <1>2. CASE ~Locked
    <2>1. /\ fpc = "erase" /\ call # NoWrite /\ FlashTypeOK /\ Place /\ InWork /\ Around
          /\ UNCHANGED <<before, call, secpos, secoff, done, whole, addr, fails>>
          /\ flash' = [flash EXCEPT ![secpos] = [o \in Offs |-> Erased]]
          /\ W25QXX_BUF' = Merged /\ W25QXX_BUF = before[secpos]
          /\ fpc' = "program" /\ secpos \in Secs /\ whole /\ addr = 0 /\ Secremain > 0
      BY <1>2 DEF FInv, EraseSector, InWork, FlashTypeOK, Place
    <2>2. [o \in Offs |-> Erased] \in [Offs -> Values]
      BY FlashAssumption
    <2>3. /\ Around' /\ flash' \in Content /\ flash'[secpos] = [o \in Offs |-> Erased]
          /\ \A s \in Secs : Target(s)' = Target(s)
      BY <2>1, <2>2, OthersKept
    <2>4. Merged = Target(secpos) /\ Merged \in [Offs -> Values]
      BY <2>1, TargetHere DEF Merged
    <2>5. FlashTypeOK'
      BY <1>2, <2>1, <2>3, <2>4 DEF FlashTypeOK, EraseSector, Queue_end
    <2>6. Place'
      <3>1. End' = SectorSize
        BY <2>1 DEF End
      <3>2. Secremain' = Secremain /\ Gap(secpos)' = Gap(secpos)
        BY <2>1 DEF Secremain, NumByte, Smaller, Gap
      <3>3. QED  BY <2>1, <3>1, <3>2, FlashAssumption DEF Place
    <2>7. Rewritten'
      <3>1. \A o \in Offs : ~(o < 0)
        BY <2>1, CellTypes
      <3>2. \A o \in Offs : flash'[secpos][o] = Erased
        BY <2>3
      <3>3. W25QXX_BUF' = Target(secpos)'
        BY <2>1, <2>3, <2>4
      <3>4. QED  BY <2>1, <3>1, <3>2, <3>3 DEF Rewritten
    <2>8. InWork'
      BY <2>1, <2>7 DEF InWork
    <2>9. QED  BY <2>1, <2>3, <2>5, <2>6, <2>8 DEF FInv
  <1>3. QED  BY <1>1, <1>2

\* A page is programmed: the sector is filled up to the new addr.
LEMMA ProgramPageKeeps ==
  ASSUME FInv, ProgramPage
  PROVE  FInv'
  <1>1. /\ fpc = "program" /\ call # NoWrite /\ FlashTypeOK /\ Place /\ InWork /\ Around
        /\ UNCHANGED <<before, call, secpos, secoff, done, whole, W25QXX_BUF, fails>>
        /\ flash' = [flash EXCEPT ![secpos] = PageWritten] /\ addr' = addr + Pageremain
        /\ fpc' = IF addr' = End THEN "next" ELSE "program"
        /\ secpos \in Secs /\ flash[secpos] \in [Offs -> Values]
    BY DEF FInv, ProgramPage, FlashTypeOK, Content
  <1>2. /\ Pageremain \in Nat /\ addr + Pageremain <= End
        /\ PageWritten = [o \in Offs |-> IF o \in addr..(addr + Pageremain - 1)
                                         THEN Source(o) ELSE flash[secpos][o]]
    BY <1>1, Blank, PageDone
  <1>3. /\ addr \in Nat /\ End \in Nat /\ End <= SectorSize /\ SectorSize \in Nat
        /\ secoff \in Nat /\ addr <= End
    BY <1>1, CallTypes, EndInSector DEF Place
  <1>4. ~whole => secoff <= addr /\ End = secoff + Secremain /\ Secremain \in Nat
    BY <1>1, EndInSector, Chunk DEF Place
  <1>5. ASSUME NEW o \in Offs, o \in addr..(addr + Pageremain - 1) PROVE Source(o) \in Values
    <2>1. CASE whole
      BY <1>1, <2>1 DEF Source, FlashTypeOK
    <2>2. CASE ~whole
      <3>1. InChunk(o)
        BY <1>2, <1>3, <1>4, <1>5, <2>2 DEF InChunk
      <3>2. QED  BY <1>1, <2>2, <3>1, TargetHere DEF Source
    <2>3. QED  BY <2>1, <2>2
  <1>6. PageWritten \in [Offs -> Values]
    BY <1>1, <1>2, <1>5
  <1>7. /\ Around' /\ flash' \in Content /\ flash'[secpos] = PageWritten
        /\ \A s \in Secs : Target(s)' = Target(s)
    BY <1>1, <1>6, OthersKept
  <1>8. addr' \in 0..SectorSize /\ addr' <= End /\ addr' >= addr
    BY <1>1, <1>2, <1>3
  <1>9. FlashTypeOK'
    BY <1>1, <1>7, <1>8 DEF FlashTypeOK, ProgramPage
  <1>10. /\ End' = End /\ Secremain' = Secremain /\ NumByte' = NumByte
         /\ Gap(secpos)' = Gap(secpos)
         /\ \A o : InChunk(o)' <=> InChunk(o)
         /\ \A o : Datum(o)' = Datum(o)
    BY <1>1 DEF End, Secremain, NumByte, Gap, InChunk, Datum, Smaller
  <1>11. Place'
    BY <1>1, <1>3, <1>4, <1>8, <1>10 DEF Place
  <1>12. whole => Rewritten'
    <2>1. ASSUME whole, NEW o \in Offs
          PROVE  flash'[secpos][o] = IF o < addr' THEN W25QXX_BUF[o] ELSE Erased
      <3>1. flash[secpos][o] = IF o < addr THEN W25QXX_BUF[o] ELSE Erased
        BY <1>1, <2>1 DEF InWork, Rewritten
      <3>2. flash'[secpos][o] = IF o \in addr..(addr + Pageremain - 1)
                                THEN W25QXX_BUF[o] ELSE flash[secpos][o]
        BY <1>2, <1>7, <2>1 DEF Source
      <3>3. o \in Int
        BY <1>1, CellTypes
      <3>4. QED  BY <1>1, <1>2, <1>3, <3>1, <3>2, <3>3
    <2>2. whole => W25QXX_BUF = Target(secpos)
      BY <1>1 DEF InWork, Rewritten
    <2>3. QED  BY <1>1, <1>7, <2>1, <2>2 DEF Rewritten
  <1>13. ~whole => Filled'
    <2>1. ASSUME ~whole, NEW o \in Offs
          PROVE  flash'[secpos][o] = IF o \in secoff..(addr' - 1) THEN Datum(o)
                                                                 ELSE before[secpos][o]
      <3>1. flash[secpos][o] = IF o \in secoff..(addr - 1) THEN Datum(o)
                                                           ELSE before[secpos][o]
        BY <1>1, <2>1 DEF InWork, Filled
      <3>2. flash'[secpos][o] = IF o \in addr..(addr + Pageremain - 1)
                                THEN Datum(o) ELSE flash[secpos][o]
        BY <1>2, <1>7, <2>1 DEF Source
      <3>3. o \in Int /\ secoff <= addr
        BY <1>1, <1>4, <2>1, CellTypes
      <3>4. QED  BY <1>1, <1>2, <1>3, <3>1, <3>2, <3>3
    <2>2. ~whole => \A o \in Offs : InChunk(o) => before[secpos][o] = Erased
      BY <1>1 DEF InWork, Filled
    <2>3. QED  BY <1>1, <1>10, <2>1, <2>2 DEF Filled
  <1>14. addr' = End => flash'[secpos] = Target(secpos)
    <2> SUFFICES ASSUME addr' = End PROVE flash'[secpos] = Target(secpos)
      OBVIOUS
    <2>1. flash'[secpos] \in [Offs -> Values] /\ Target(secpos) \in [Offs -> Values]
      BY <1>1, <1>6, <1>7, TargetHere
    <2>2. ASSUME NEW o \in Offs PROVE flash'[secpos][o] = Target(secpos)[o]
      <3>1. o \in Int /\ o < SectorSize
        BY <1>1, CellTypes
      <3>2. CASE whole
        <4>1. End = SectorSize
          BY <3>2 DEF End
        <4>2. QED  BY <1>1, <1>12, <1>7, <3>1, <3>2, <4>1 DEF Rewritten
      <3>3. CASE ~whole
        <4>1. o \in secoff..(addr' - 1) <=> InChunk(o)
          BY <1>3, <1>4, <3>3, addr' = End DEF InChunk
        <4>2. flash'[secpos][o] = IF o \in secoff..(addr' - 1) THEN Datum(o)
                                                               ELSE before[secpos][o]
          BY <1>1, <1>10, <1>13, <3>3 DEF Filled
        <4>3. QED  BY <1>1, <4>1, <4>2, TargetHere
      <3>4. QED  BY <3>2, <3>3
    <2>3. QED  BY <2>1, <2>2
  <1>15. InWork'
    <2>1. CASE addr' = End
      BY <1>1, <1>7, <1>14, <2>1 DEF InWork
    <2>2. CASE addr' # End
      BY <1>1, <1>12, <1>13, <2>2 DEF InWork
    <2>3. QED  BY <2>1, <2>2
  <1>16. QED  BY <1>1, <1>7, <1>9, <1>11, <1>15 DEF FInv

\* On to the next sector: the one left behind has come to its target.
LEMMA NextSectorKeeps ==
  ASSUME FInv, NextSector
  PROVE  FInv'
  <1>1. /\ fpc = "next" /\ call # NoWrite /\ FlashTypeOK /\ Place /\ InWork /\ Around
        /\ UNCHANGED <<flash, before, call, whole, addr, W25QXX_BUF, fails, lock, spi_lock>>
        /\ secpos \in Secs /\ flash[secpos] = Target(secpos)
    BY DEF FInv, NextSector, FlashTypeOK, InWork
  <1>2. \A s \in Secs : Target(s)' = Target(s)
    BY <1>1 DEF Target, Store!Overwritten, Store!Names, Store!Position
  <1>3. CASE NumByte = Secremain
    <2>1. fpc' = "end" /\ UNCHANGED <<secpos, secoff, done>>
      BY <1>3 DEF NextSector
    <2>2. FlashTypeOK'
      BY <1>1, <2>1 DEF FlashTypeOK
    <2>3. Place'
      BY <1>1, <1>3, <2>1 DEF Place, NumByte, Secremain, Gap, Smaller
    <2>4. InWork' /\ Around'
      BY <1>1, <1>2, <2>1 DEF InWork, Around
    <2>5. QED  BY <1>1, <2>1, <2>2, <2>3, <2>4 DEF FInv
  <1>4. CASE NumByte # Secremain
    <2>1. fpc' = "read" /\ secpos' = secpos + 1 /\ secoff' = 0 /\ done' = done + Secremain
      BY <1>4 DEF NextSector
    <2>2. /\ Secremain = SectorSize - secoff /\ NumByte > Secremain
          /\ NumByte = Len(call.data) - done
      <3>1. /\ Secremain <= NumByte /\ NumByte \in Int /\ Secremain \in Nat
            /\ NumByte = Len(call.data) - done
        BY <1>1, Chunk, CallTypes
      <3>2. Secremain = NumByte \/ Secremain = SectorSize - secoff
        BY DEF Secremain, Smaller
      <3>3. QED  BY <1>4, <3>1, <3>2
    <2>3. /\ Gap(secpos + 1) = done' + call.off /\ done' < Len(call.data) /\ done' \in Nat
      <3>1. /\ secpos \in Int /\ secoff \in Nat /\ done \in Nat /\ SectorSize \in Nat
            /\ call.off \in Int /\ Len(call.data) \in Nat
        BY <1>1, CallTypes
      <3>2. Gap(secpos + 1) = Gap(secpos) + SectorSize
        BY <1>1, <3>1, Gaps
      <3>3. Gap(secpos) = done + call.off - secoff /\ Secremain \in Nat
        BY <1>1, Stands, Chunk
      <3>4. Gap(secpos) + SectorSize = done + (SectorSize - secoff) + call.off
        <4>1. Gap(secpos) \in Int
          BY <1>1, <3>1, Gaps
        <4>2. QED  BY <3>1, <3>3, <4>1, Beyond
      <3>5. done' = done + (SectorSize - secoff) /\ done' \in Nat
        BY <2>1, <2>2, <3>1, <3>3
      <3>6. done' < Len(call.data)
        BY <2>1, <2>2, <3>1, <3>3
      <3>7. QED  BY <3>2, <3>4, <3>5, <3>6
    <2>4. secpos + 1 \in Secs
      <3>1. secpos \in Int /\ secpos >= 0 /\ Sectors \in Int /\ secoff \in Nat
        BY <1>1, CallTypes DEF Secs
      <3>2. secpos + 1 >= Sectors => Gap(secpos) + SectorSize >= call.off + Len(call.data)
        BY <1>1, <3>1, Gaps
      <3>3. Gap(secpos) + SectorSize < call.off + Len(call.data)
        <4>1. Gap(secpos) + SectorSize = Gap(secpos + 1) /\ Gap(secpos) \in Int
          BY <1>1, <3>1, Gaps
        <4>2. call.off \in Int /\ Len(call.data) \in Int /\ done' \in Int
          BY <1>1, <2>3, CallTypes
        <4>3. QED  BY <2>3, <4>1, <4>2
      <3>4. Gap(secpos) \in Int /\ SectorSize \in Int /\ call.off + Len(call.data) \in Int
        <4>1. Gap(secpos) \in Int
          BY <1>1, <3>1, Gaps
        <4>2. QED  BY <1>1, <4>1, CallTypes
      <3>5. ~(secpos + 1 >= Sectors)
        BY <3>2, <3>3, <3>4
      <3>6. QED  BY <3>1, <3>5 DEF Secs
    <2>5. FlashTypeOK'
      BY <1>1, <2>1, <2>3, <2>4, FlashAssumption DEF FlashTypeOK, Offs
    <2>6. Place'
      <3>1. Gap(secpos)' = done' + call'.off - secoff'
        <4>1. Gap(secpos)' = Gap(secpos + 1)
          BY <1>1, <2>1 DEF Gap
        <4>2. QED  BY <1>1, <2>1, <2>3, <4>1, CallTypes
      <3>2. call'.sec <= secpos' /\ done' <= Len(call'.data)
        <4>1. /\ call.sec <= secpos /\ call.sec \in Int /\ secpos \in Int
              /\ Len(call.data) \in Int /\ done' \in Int
          BY <1>1, <2>3, CallTypes, Stands
        <4>2. QED  BY <1>1, <2>1, <2>3, <4>1
      <3>3. QED  BY <2>1, <3>1, <3>2 DEF Place
    <2>7. Around'
      <3>1. ASSUME NEW s \in Secs, s < secpos' PROVE flash'[s] = Target(s)'
        <4>1. s < secpos \/ s = secpos
          BY <1>1, <2>1, <3>1, CellTypes, CallTypes DEF Secs
        <4>2. QED  BY <1>1, <1>2, <4>1 DEF Around
      <3>2. ASSUME NEW s \in Secs, s > secpos' PROVE flash'[s] = before'[s]
        <4>1. s > secpos
          BY <1>1, <2>1, <3>2, CallTypes DEF Secs
        <4>2. QED  BY <1>1, <4>1 DEF Around
      <3>3. QED  BY <3>1, <3>2 DEF Around
    <2>8. InWork'
      <3>1. secpos + 1 > secpos
        BY <1>1, CallTypes
      <3>2. flash[secpos + 1] = before[secpos + 1]
        BY <1>1, <2>4, <3>1 DEF Around
      <3>3. QED  BY <1>1, <2>1, <3>2 DEF InWork
    <2>9. QED  BY <1>1, <2>1, <2>5, <2>6, <2>7, <2>8 DEF FInv
  <1>5. QED  BY <1>3, <1>4

LEMMA ReturnKeeps ==
  ASSUME FInv, Return
  PROVE  FInv'
  <1>1. 0 \in Secs /\ 0 \in Offs /\ 0 \in 0..SectorSize /\ 0 \in Nat /\ Erased \in Values
    BY FlashAssumption DEF Secs, Offs
  <1>2. FlashTypeOK'
    BY <1>1 DEF FInv, FlashTypeOK, Return, Queue_end, Content
  <1>3. QED  BY <1>2 DEF FInv, Return

LEMMA PowerFailsKeeps ==
  ASSUME FInv, PowerFails
  PROVE  FInv'
  <1>1. PICK sector \in [Offs -> Values] : flash' = [flash EXCEPT ![secpos] = sector]
    BY DEF PowerFails
  <1>2. flash' \in Content
    BY <1>1 DEF FInv, FlashTypeOK, Content
  <1>3. 0 \in Secs /\ 0 \in Offs /\ 0 \in 0..SectorSize /\ 0 \in Nat /\ Erased \in Values
    BY FlashAssumption DEF Secs, Offs
  <1>4. fails' \in 0..MaxFails
    BY FlashAssumption DEF PowerFails, FInv, FlashTypeOK
  <1>5. FlashTypeOK'
    BY <1>2, <1>3, <1>4 DEF FlashTypeOK, PowerFails
  <1>6. QED  BY <1>5 DEF FInv, PowerFails

LEMMA FInvNext == FInv /\ [FlashNext]_flashVars => FInv'
  BY BeginKeeps, ReadSectorKeeps, CheckKeeps, EraseSectorKeeps, ProgramPageKeeps,
     NextSectorKeeps, ReturnKeeps, PowerFailsKeeps, StutterKeeps DEF FlashNext, WriteStep

LEMMA FInvAlways == FlashSpec => []FInv
  BY FInvInit, FInvNext, PTL DEF FlashSpec

\* The variables of write keep their types, for every chip and all writes.
THEOREM FlashTypes == FlashSpec => []FlashTypeOK
  <1>1. FInv => FlashTypeOK
    BY DEF FInv
  <1>2. QED  BY <1>1, FInvAlways, PTL

-----------------------------------------------------------------------------
\* When write returns every sector has come to its target.
LEMMA AllWritten ==
  ASSUME FInv, fpc = "end"
  PROVE  flash = Store!Overwritten(before, call)
  <1>1. /\ call # NoWrite /\ FlashTypeOK /\ Place /\ NumByte = Secremain
        /\ flash[secpos] = Target(secpos) /\ Around
    BY DEF FInv, Place, InWork
  <1>2. ASSUME NEW s \in Secs PROVE flash[s] = Target(s)
    <2>1. s \in Int /\ secpos \in Int
      BY <1>1, CallTypes DEF Secs
    <2>2. CASE s = secpos
      BY <1>1, <2>2
    <2>3. CASE s < secpos
      BY <1>1, <2>3 DEF Around
    <2>4. CASE s > secpos
      BY <1>1, <2>4, TargetAfter DEF Around
    <2>5. QED  BY <2>1, <2>2, <2>3, <2>4
  <1>3. flash = [s \in Secs |-> flash[s]]
    BY <1>1 DEF FlashTypeOK, Content
  <1>4. Store!Overwritten(before, call)
          = [s \in Secs |-> Store!Overwritten(before, call)[s]]
    BY DEF Store!Overwritten, Store!Secs, Secs
  <1>5. QED  BY <1>2, <1>3, <1>4 DEF Target

\* A power failure changes no sector that the write does not touch.
LEMMA UntouchedSurvives ==
  ASSUME FInv, PowerFails, NEW s \in Secs, ~Store!Touches(call, s)
  PROVE  flash'[s] = before[s]
  <1>1. /\ call # NoWrite /\ FlashTypeOK /\ Place /\ InWork /\ Around
        /\ flash \in Content /\ secpos \in Secs /\ before \in Content /\ fpc # "idle"
    BY DEF FInv, PowerFails, FlashTypeOK
  <1>2. PICK sector \in [Offs -> Values] :
          /\ \A o \in Offs : sector[o] \in Afterwards(o)
          /\ flash' = [flash EXCEPT ![secpos] = sector]
    BY DEF PowerFails
  <1>3. Target(s) = before[s]
    BY <1>1, Untouched DEF Store!Touches, Store!Offs, Offs
  <1>4. CASE s # secpos
    <2>1. flash'[s] = flash[s]
      BY <1>1, <1>2, <1>4 DEF Content
    <2>2. s < secpos \/ s > secpos
      BY <1>1, <1>4, CallTypes DEF Secs
    <2>3. QED  BY <1>1, <1>3, <2>1, <2>2 DEF Around
  <1>5. CASE s = secpos
    <2>1. \A o \in Offs : ~InChunk(o)
      BY <1>1, <1>5, TargetHere DEF Store!Touches, Store!Offs, Offs
    <2>2. Secremain = 0
      <3>1. secoff \in Offs /\ secoff \in Nat /\ Secremain \in Nat
        BY <1>1, CallTypes, Chunk DEF FlashTypeOK
      <3>2. Secremain # 0 => InChunk(secoff)
        BY <3>1 DEF InChunk
      <3>3. QED  BY <2>1, <3>1, <3>2
    <2>3. fpc # "erase"
      BY <1>1, <2>2 DEF Place
    <2>4. fpc = "program" => PageWritten = flash[secpos] /\ flash[secpos] = before[secpos]
      <3> SUFFICES ASSUME fpc = "program"
                   PROVE  PageWritten = flash[secpos] /\ flash[secpos] = before[secpos]
        OBVIOUS
      <3>1. ~whole /\ addr = secoff /\ End = secoff /\ addr \in Nat
        BY <1>1, <2>2, EndInSector, CallTypes DEF Place
      <3>2. Pageremain = 0
        BY <1>1, <3>1, Blank, PageDone
      <3>3. flash[secpos] \in [Offs -> Values] /\ before[secpos] \in [Offs -> Values]
        BY <1>1 DEF Content
      <3>4. \A o \in Offs : o \notin addr..(addr - 1)
        BY <3>1, <1>1, CellTypes
      <3>5. PageWritten = flash[secpos]
        BY <1>1, <3>2, <3>1, <3>3, <3>4, Blank, PageDone
      <3>6. flash[secpos] = before[secpos]
        BY <1>1, <3>1, <3>3, <3>4 DEF InWork, Filled
      <3>7. QED  BY <3>5, <3>6
    <2>5. flash[secpos] = before[secpos]
      <3>1. fpc \in {"read", "check", "program", "next", "end"}
        BY <1>1, <2>3 DEF FlashTypeOK
      <3>2. QED  BY <1>1, <1>3, <1>5, <2>4, <3>1 DEF InWork
    <2>6. \A o \in Offs : Afterwards(o) = {flash[secpos][o]}
      BY <2>3, <2>4 DEF Afterwards
    <2>7. sector = flash[secpos]
      <3>1. flash[secpos] \in [Offs -> Values]
        BY <1>1 DEF Content
      <3>2. \A o \in Offs : sector[o] = flash[secpos][o]
        BY <1>2, <2>6
      <3>3. QED  BY <3>1, <3>2
    <2>8. flash'[secpos] = sector
      BY <1>1, <1>2 DEF Content
    <2>9. QED  BY <1>5, <2>5, <2>7, <2>8
  <1>6. QED  BY <1>4, <1>5

-----------------------------------------------------------------------------
LEMMA StoreInit == FlashInit => Store!Init
  <1> SUFFICES ASSUME FlashInit PROVE Store!Init
    OBVIOUS
  <1>1. flash \in [Secs -> [Offs -> Values]]
    BY FlashAssumption DEF FlashInit
  <1>2. QED  BY <1>1 DEF FlashInit, Store!Init, Store!Secs, Store!Offs, Secs, Offs

\* Every step of write is a step of the storage, or none it can see.
LEMMA StoreNext ==
  FInv /\ [FlashNext]_flashVars
    => [Store!Next]_<<IF call = NoWrite THEN flash ELSE before, call, fails>>
  <1> SUFFICES ASSUME FInv, [FlashNext]_flashVars
               PROVE  [Store!Next]_<<IF call = NoWrite THEN flash ELSE before, call, fails>>
    OBVIOUS
  <1> USE DEF Store!Next
  <1>1. ASSUME NEW w \in Requests, Begin(w) PROVE Store!Begin
    BY <1>1, FlashAssumption DEF Begin, Store!Begin, FInv
  <1>2. CASE ReadSector \/ Check \/ EraseSector \/ ProgramPage \/ NextSector
    <2>1. call # NoWrite /\ UNCHANGED <<before, call, fails>>
      BY <1>2 DEF FInv, ReadSector, Check, EraseSector, ProgramPage, NextSector, flashVars
    <2>2. QED  BY <2>1
  <1>3. CASE Return
    <2>1. flash = Store!Overwritten(before, call) /\ call # NoWrite
      BY <1>3, AllWritten DEF Return, FInv
    <2>2. QED  BY <1>3, <2>1 DEF Return, Store!Finish
  <1>4. CASE PowerFails
    <2>1. call # NoWrite /\ call' = NoWrite /\ fails' = fails + 1
      BY <1>4 DEF PowerFails, FInv
    <2>2. flash' \in [Secs -> [Offs -> Values]]
      BY <1>4, PowerFailsKeeps DEF FInv, FlashTypeOK, Content
    <2>3. \A s \in Secs : ~Store!Touches(call, s) => flash'[s] = before[s]
      BY <1>4, UntouchedSurvives
    <2>4. Store!Fail
      BY <2>1, <2>2, <2>3 DEF Store!Fail, Store!Secs, Store!Offs, Secs, Offs
    <2>5. QED  BY <2>4
  <1>5. CASE UNCHANGED flashVars
    BY <1>5 DEF flashVars
  <1>6. QED  BY <1>1, <1>2, <1>3, <1>4, <1>5 DEF FlashNext, WriteStep

\* write is a storage of bytes, for every number and size of sectors and pages
\* and whatever is written: a write that returns changed its own bytes alone, a
\* write cut off by the power spoils only sectors it touches.
THEOREM FlashStoresBytes == FlashSpec => StoresBytes
  BY StoreInit, StoreNext, FInvAlways, PTL DEF FlashSpec, StoresBytes, Store!Spec
=============================================================================

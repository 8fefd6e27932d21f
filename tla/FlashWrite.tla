----------------------------- MODULE FlashWrite -----------------------------
(***************************************************************************)
(* W25QXX::write (MIDDLEWARE/Src/W25QXX.cpp): for each sector a write      *)
(* touches, read the sector, look whether the bytes to be written are      *)
(* erased; if they are not, erase the sector and program all of it again,  *)
(* if they are, program them alone; always page by page.  The power may    *)
(* fail at any point.                                                      *)
(*                                                                         *)
(* An address is a sector and an offset in it.  The chip: erasing makes a  *)
(* sector Erased (0xFF), programming only clears bits, so that a byte that *)
(* is not erased is spoilt unless it keeps its value, and a page program   *)
(* that runs over the end of its page goes on at the page's beginning.     *)
(*                                                                         *)
(* Both locks (W25QXX's and the SPI's, HARD_BASE.cpp) are spin locks which *)
(* one task would wait for for ever if it held them itself: write takes    *)
(* them, and Erase_Sector takes them again.                                *)
(***************************************************************************)
EXTENDS Integers, Sequences

CONSTANTS
  Sectors, SectorSize, PageSize,
  Values, Erased, Junk,   \* Junk: a byte spoilt by programming or power failure
  Requests,               \* the calls of write: [sec, off, data]
  NoWrite,
  MaxFails                \* bound on power failures

VARIABLES
  flash,                  \* what the chip holds
  fpc,                    \* where write stands
  lock, spi_lock,         \* lock_flag of the driver and of the SPI
  W25QXX_BUF,
  call,                   \* the call of write, NoWrite between calls
  secpos, secoff,
  done,                   \* bytes of the call in earlier sectors (pBuffer)
  whole,                  \* the sector is rewritten as a whole
  addr,                   \* offset in the sector that Write_NoCheck has come to
  before,                 \* history: what the chip held when the call began
  fails

flashVars == <<flash, fpc, lock, spi_lock, W25QXX_BUF, call, secpos, secoff, done, whole, addr,
               before, fails>>

-----------------------------------------------------------------------------
Secs == 0..(Sectors - 1)
Offs == 0..(SectorSize - 1)
Content == [Secs -> [Offs -> Values]]

Smaller(a, b) == IF a <= b THEN a ELSE b

ASSUME FlashAssumption ==
  /\ Sectors \in Nat \ {0} /\ PageSize \in Nat \ {0} /\ MaxFails \in Nat
  /\ SectorSize \in Nat \ {0} /\ SectorSize % PageSize = 0
  /\ {Erased, Junk} \subseteq Values /\ Erased # Junk
  /\ NoWrite \notin Requests

\* The calls stay within the chip.
ASSUME RequestAssumption ==
  \A w \in Requests :
    /\ w.sec \in Secs /\ w.off \in Offs /\ w.data \in Seq(Values)
    /\ (w.sec * SectorSize) + w.off + Len(w.data) <= Sectors * SectorSize

NumByte   == Len(call.data) - done
\* The bytes of the call that lie in the sector.  Faulty variant: as many as a
\* sector has, wherever they begin.
SecremainFull == Smaller(NumByte, SectorSize)
Secremain == Smaller(NumByte, SectorSize - secoff)
InChunk(o) == o \in secoff..(secoff + Secremain - 1)
Datum(o)  == call.data[done + o - secoff + 1]

FlashTypeOK ==
  /\ flash \in Content /\ before \in Content
  /\ fpc \in {"idle", "read", "check", "erase", "program", "next", "end"}
  /\ lock \in BOOLEAN /\ spi_lock \in BOOLEAN
  /\ W25QXX_BUF \in [Offs -> Values]
  /\ call \in Requests \cup {NoWrite}
  /\ secpos \in Secs /\ secoff \in Offs /\ done \in Nat /\ whole \in BOOLEAN
  /\ addr \in 0..SectorSize
  /\ fails \in 0..MaxFails

FlashInit ==
  /\ flash = [s \in Secs |-> [o \in Offs |-> Erased]]
  /\ fpc = "idle" /\ lock = FALSE /\ spi_lock = FALSE
  /\ W25QXX_BUF = [o \in Offs |-> Erased]
  /\ call = NoWrite /\ secpos = 0 /\ secoff = 0 /\ done = 0 /\ whole = FALSE /\ addr = 0
  /\ before = flash /\ fails = 0

-----------------------------------------------------------------------------
Locked     == lock \/ spi_lock
Queue_star == lock' = TRUE /\ spi_lock' = TRUE
Queue_end  == lock' = FALSE /\ spi_lock' = FALSE

Begin(w) ==
  /\ fpc = "idle" /\ ~Locked
  /\ Queue_star
  /\ fpc' = "read" /\ call' = w
  /\ secpos' = w.sec /\ secoff' = w.off /\ done' = 0
  /\ before' = flash
  /\ UNCHANGED <<flash, W25QXX_BUF, whole, addr, fails>>

\* What read does with the locks: it releases them, before it reads and again
\* after it.  The faulty variant leaves them to its caller.
ReadKeeps == UNCHANGED <<lock, spi_lock>>
ReadLocks == Queue_end

ReadSector ==
  /\ fpc = "read"
  /\ ReadLocks
  /\ fpc' = "check"
  /\ W25QXX_BUF' = flash[secpos]
  /\ UNCHANGED <<flash, call, secpos, secoff, done, whole, addr, before, fails>>

\* Is there a byte to be erased?
MustErase == \E o \in Offs : InChunk(o) /\ W25QXX_BUF[o] # Erased

Check ==
  /\ fpc = "check"
  /\ IF MustErase
     THEN fpc' = "erase" /\ whole' = TRUE /\ addr' = 0
     ELSE fpc' = "program" /\ whole' = FALSE /\ addr' = secoff
  /\ UNCHANGED <<flash, lock, spi_lock, W25QXX_BUF, call, secpos, secoff, done, before, fails>>

\* What is left of the sector in memory when it is written again; the faulty
\* variant keeps only the new bytes.
MergedNew == [o \in Offs |-> IF InChunk(o) THEN Datum(o) ELSE Erased]
Merged == [o \in Offs |-> IF InChunk(o) THEN Datum(o) ELSE W25QXX_BUF[o]]

\* Erase_Sector, which takes and releases the locks, and the copy loop.  While a
\* lock is taken it spins.
EraseSector ==
  /\ fpc = "erase"
  /\ IF Locked
     THEN UNCHANGED flashVars
     ELSE /\ Queue_end
          /\ flash' = [flash EXCEPT ![secpos] = [o \in Offs |-> Erased]]
          /\ W25QXX_BUF' = Merged
          /\ fpc' = "program"
          /\ UNCHANGED <<call, secpos, secoff, done, whole, addr, before, fails>>

\* Write_NoCheck: from addr to End, Source is what is to be there.
End == IF whole THEN SectorSize ELSE secoff + Secremain
Source(o) == IF whole THEN W25QXX_BUF[o] ELSE Datum(o)

\* What one page takes.
Pageremain == Smaller(PageSize - (addr % PageSize), End - addr)

\* Write_Page in the chip: where the i-th byte of a page program goes, and what
\* programming makes of a byte.
PageCell(i) == addr - (addr % PageSize) + (((addr % PageSize) + i) % PageSize)
Programmed(old, new) ==
  IF new = Erased THEN old ELSE IF old \in {Erased, new} THEN new ELSE Junk
PageWritten ==
  [o \in Offs |->
    IF \E i \in 0..(Pageremain - 1) : PageCell(i) = o
    THEN Programmed(flash[secpos][o],
                    Source(addr + CHOOSE i \in 0..(Pageremain - 1) : PageCell(i) = o))
    ELSE flash[secpos][o]]

ProgramPage ==
  /\ fpc = "program"
  /\ flash' = [flash EXCEPT ![secpos] = PageWritten]
  /\ addr' = addr + Pageremain
  /\ fpc' = IF addr' = End THEN "next" ELSE "program"
  /\ UNCHANGED <<lock, spi_lock, W25QXX_BUF, call, secpos, secoff, done, whole, before, fails>>

\* The next sector, if there are bytes left.
NextSector ==
  /\ fpc = "next"
  /\ IF NumByte = Secremain
     THEN fpc' = "end" /\ UNCHANGED <<secpos, secoff, done>>
     ELSE /\ fpc' = "read"
          /\ secpos' = secpos + 1 /\ secoff' = 0 /\ done' = done + Secremain
  /\ UNCHANGED <<flash, lock, spi_lock, W25QXX_BUF, call, whole, addr, before, fails>>

Return ==
  /\ fpc = "end"
  /\ Queue_end
  /\ fpc' = "idle" /\ call' = NoWrite
  /\ secpos' = 0 /\ secoff' = 0 /\ done' = 0 /\ whole' = FALSE /\ addr' = 0
  /\ W25QXX_BUF' = [o \in Offs |-> Erased] /\ before' = flash
  /\ UNCHANGED <<flash, fails>>

\* The power fails: every byte of the sector being erased or of the page being
\* programmed has its old value, its new one, or none of both.
Afterwards(o) ==
  CASE fpc = "erase"   -> {flash[secpos][o], Erased, Junk}
    [] fpc = "program" -> {flash[secpos][o], PageWritten[o]}
                            \cup (IF flash[secpos][o] = PageWritten[o] THEN {} ELSE {Junk})
    [] OTHER           -> {flash[secpos][o]}

PowerFails ==
  /\ fpc # "idle" /\ fails < MaxFails
  /\ \E sector \in [Offs -> Values] :
       /\ \A o \in Offs : sector[o] \in Afterwards(o)
       /\ flash' = [flash EXCEPT ![secpos] = sector]
  /\ fails' = fails + 1
  /\ lock' = FALSE /\ spi_lock' = FALSE
  /\ fpc' = "idle" /\ call' = NoWrite
  /\ secpos' = 0 /\ secoff' = 0 /\ done' = 0 /\ whole' = FALSE /\ addr' = 0
  /\ W25QXX_BUF' = [o \in Offs |-> Erased] /\ before' = flash'

WriteStep == ReadSector \/ Check \/ EraseSector \/ ProgramPage \/ NextSector \/ Return

FlashNext == (\E w \in Requests : Begin(w)) \/ WriteStep \/ PowerFails

\* The calling task goes on with what it has begun.
FlashSpec == FlashInit /\ [][FlashNext]_flashVars /\ WF_flashVars(WriteStep)

-----------------------------------------------------------------------------
\* write implements a storage of bytes: when it returns, the bytes it was given
\* are where they belong and every other byte is as before, although whole
\* sectors were erased (W25QXX.cpp:305-334); if the power fails in between, only
\* sectors the write touches may be spoilt.
Store == INSTANCE ByteStore WITH content <- IF call = NoWrite THEN flash ELSE before,
                                 pending <- call,
                                 failures <- fails
StoresBytes == Store!Spec

\* write never waits for itself: it ends although Erase_Sector takes the locks
\* that write has taken, since read releases them (W25QXX.cpp:297, 307, 314, 349).
WriteEnds == fpc # "idle" ~> fpc = "idle"
=============================================================================

SPECIFICATION MCSpec
CONSTANTS
  Sectors = 3
  SectorSize = 4
  PageSize = 2
  Values = {"a", "b", "Erased", "Junk"}
  Erased = "Erased"
  Junk = "Junk"
  Requests <- MCRequests
  NoWrite = NoWrite
  MaxFails = 1
  Bytes = {"x", "y", "CR", "LF"}
  CR = "CR"
  LF = "LF"
  MaxFifo = 5
  MaxTyped = 7
INVARIANTS
  FlashTypeOK
  ConsoleTypeOK
PROPERTIES
  StoresBytes
  WriteEnds
  ServesLines
  LineServed

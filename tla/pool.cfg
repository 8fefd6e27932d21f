SPECIFICATION RequestSpec
CONSTANTS
  Blocks = 11
  BlockSize = 2
  Sizes <- MCSizes
  Fail = Fail
  Documents <- MCDocuments
  MaxOthers = 2
  MaxHeld = 1
  NoDoc = NoDoc
  NoCmd = NoCmd
INVARIANTS
  TypeOK
  NoOverlap
  TableExact
  NoFalseRefusal
  RequestTypeOK
PROPERTIES
  Promise
  WithinContract
  RequestFreesAll
  LastWins
  RequestEnds

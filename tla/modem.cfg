SPECIFICATION FairSpec
CONSTANTS
  Steps = 2
  OkSteps = {1}
  Polls = 1
  FreeTime = 2
  NoMsg = NoMsg
  Spliced = Spliced
  Cut = Cut
  MaxMsgs = 2
  MaxDrops = 2
  MaxFails = 1
  MaxBuf = 4
INVARIANTS
  TypeOK
  CallbackOn
  NotSpliced
  LossAccounted
PROPERTIES
  InOrderOnce
  LossNoticed
  RequestServed
CHECK_DEADLOCK FALSE

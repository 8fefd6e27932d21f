SPECIFICATION FairSpec
CONSTANTS
  Steps = 2
  OkSteps = {1}
  Polls = 1
  FreeTime = 1
  NoMsg = NoMsg
  Spliced = Spliced
  Cut = Cut
  MaxMsgs = 0
  MaxDrops = 1
  MaxFails = 0
  MaxBuf = 2
PROPERTIES
  DeadLinkNoticed
CHECK_DEADLOCK FALSE

SPECIFICATION FairSpec
CONSTANTS
  Tasks = {"LOGIC", "EC20"}
  Prio <- MCPrio
  Lora = FALSE
  IdLen = 1
  InitId <- MCInitId1
  Devices <- MCDevices1
  Words <- MCWords1
  Values = {"a"}
  NoVal = "none"
  Old = "old"
  QueueNum = 2
  FreeTime = 1
  Polls = 1
  Noisy = FALSE
  MaxCmds = 2
  MaxAir = 2
  MaxRx = 2
INVARIANTS
  FlagHasWaiter
  FrameIsCommand
  SuccessIsGenuine
PROPERTIES
  CommandEnds

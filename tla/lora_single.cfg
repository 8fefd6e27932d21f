SPECIFICATION Spec
CONSTANTS
  Tasks = {"LOGIC"}
  Prio <- MCPrio
  Lora = TRUE
  IdLen = 2
  InitId <- MCInitId2
  Devices <- MCDevices2
  Words <- MCWords2
  Values = {"a", "b"}
  NoVal = "none"
  Old = "old"
  QueueNum = 2
  FreeTime = 2
  Polls = 2
  Noisy = TRUE
  MaxCmds = 0
  MaxAir = 2
  MaxRx = 3
INVARIANTS
  TypeOK
  FrameIsCommand
  SuccessIsAnswered
  SuccessIsGenuine
  QueueDrains

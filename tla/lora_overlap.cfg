SPECIFICATION Spec
CONSTANTS
  Tasks = {"LOGIC", "EC20"}
  Prio <- MCPrio
  Lora = TRUE
  IdLen = 2
  InitId <- MCInitId2
  Devices <- MCDevices2
  Words <- MCWords2
  Values = {"a"}
  NoVal = "none"
  Old = "old"
  QueueNum = 2
  FreeTime = 1
  Polls = 1
  Noisy = FALSE
  MaxCmds = 3
  MaxAir = 2
  MaxRx = 2
INVARIANTS
  QuietOkMeansSet

SPECIFICATION Spec
CONSTANTS
  Buses = {lora}
  Devices = {set, reboot, init, save}
  Mems = {mqtt, server_word}
  add_node = add_node
  del_node = del_node
  add_mem = add_mem
  del_mem = del_mem
  Blank = Blank
  Cells <- MCCells
  Code <- MCCode
  Cr = Cr
  Lf = Lf
  Mark = Mark
  set = set
  save = save
  reboot = reboot
  init = init
  server_word = server_word
  mqtt = mqtt
  u = u
  v = v
  w = w
  x = x
  BadIp = BadIp
  Base = 8
  Size = 32
  NameMax = 2
  LineMax = 8
  Typed <- MCTyped
  Servers <- MCServers
  NameSets <- MCShort
  DefaultNames <- MCDefaults
  DefaultServer <- MCDefaultServer
  MaxSaves = 3
  MaxCrashes = 1
  MaxSets = 1
INVARIANTS
  ReplayRebuilds

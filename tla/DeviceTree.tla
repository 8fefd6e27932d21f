------------------------------ MODULE DeviceTree ------------------------------
(***************************************************************************)
(* Device_Node_Def: the description of the slaves on the two field buses.  *)
(* A bus is a list of devices and their number, a device a list of memory  *)
(* nodes and their number; commands add and delete both by name.           *)
(*                                                                         *)
(* A command is the sequence of its words.  The word for a device stands   *)
(* for its name and id, the one for a memory node for its name, address,   *)
(* type and factor: only names decide what a command does.                 *)
(***************************************************************************)
EXTENDS Naturals, SequencesExt

CONSTANTS
  Buses, Devices, Mems,                   \* names
  add_node, del_node, add_mem, del_mem,   \* command words
  Blank                                   \* the empty word

ASSUME TreeAssumption ==
  /\ add_node \notin {del_node, add_mem, del_mem}
  /\ del_node \notin {add_mem, del_mem} /\ add_mem # del_mem

\* iss >> word: the k-th word of a command, empty when there are fewer.
Word(c, k) == IF k <= Len(c) THEN c[k] ELSE Blank

\* Where a list holds a node of this name, 0 when it does not.
First(at) == IF at = {} THEN 0 ELSE CHOOSE i \in at : \A j \in at : i <= j
DeviceAt(bus, d) == First({i \in 1..Len(bus.devs) : bus.devs[i].name = d})
MemAt(dev, m)    == First({i \in 1..Len(dev.mems) : dev.mems[i] = m})

EmptyTree == [b \in Buses |-> [num |-> 0, devs |-> <<>>]]
Device    == [name : Devices, num : Nat, mems : Seq(Mems)]
Bus       == [num : Nat, devs : Seq(Device)]
Tree      == [Buses -> Bus]

-----------------------------------------------------------------------------
\* The condition under which a command's reply contains "success".
Accepted(tree, c) ==
  /\ Word(c, 2) \in Buses
  /\ LET bus == tree[Word(c, 2)]
         at  == DeviceAt(bus, Word(c, 3))
         has == at # 0 /\ MemAt(bus.devs[at], Word(c, 4)) # 0 IN
       \/ Word(c, 1) = add_node /\ Word(c, 3) \in Devices /\ at = 0
       \/ Word(c, 1) = del_node /\ at # 0
       \/ Word(c, 1) = add_mem  /\ Word(c, 4) \in Mems /\ at # 0 /\ ~has
       \/ Word(c, 1) = del_mem  /\ has

\* add_device_to_bus: the new node is the last of the list.
NodeAdded(bus, d) ==
  [num |-> bus.num + 1, devs |-> Append(bus.devs, [name |-> d, num |-> 0, mems |-> <<>>])]

\* del_node; the faulty variant does not count.
NodeUncounted(bus, d) ==
  [num |-> bus.num, devs |-> RemoveAt(bus.devs, DeviceAt(bus, d))]

NodeDeleted(bus, d) ==
  [num |-> bus.num - 1, devs |-> RemoveAt(bus.devs, DeviceAt(bus, d))]

\* add_mem and del_mem: device->num follows the list.
MemAdded(dev, m)   == [dev EXCEPT !.num = @ + 1, !.mems = Append(@, m)]
MemDeleted(dev, m) == [dev EXCEPT !.num = @ - 1, !.mems = RemoveAt(@, MemAt(dev, m))]

\* The bus after an accepted command.
BusAfter(bus, c) ==
  LET d == Word(c, 3)
      m == Word(c, 4)
      at == DeviceAt(bus, d) IN
  CASE Word(c, 1) = add_node -> NodeAdded(bus, d)
    [] Word(c, 1) = del_node -> NodeDeleted(bus, d)
    [] Word(c, 1) = add_mem  -> [bus EXCEPT !.devs[at] = MemAdded(@, m)]
    [] Word(c, 1) = del_mem  -> [bus EXCEPT !.devs[at] = MemDeleted(@, m)]

\* Device_Node_Def::Command; a rejected one changes nothing.
TreeAfter(tree, c) ==
  IF Accepted(tree, c) THEN [tree EXCEPT ![Word(c, 2)] = BusAfter(@, c)] ELSE tree

-----------------------------------------------------------------------------
\* The counters agree with the lists they count and no name occurs twice, so
\* "tree" and the searches by name show every node and always the same one.
DeviceConsistent(dev) == dev.num = Len(dev.mems) /\ IsInjective(dev.mems)

BusConsistent(bus) ==
  /\ bus.num = Len(bus.devs)
  /\ \A i, j \in 1..Len(bus.devs) : bus.devs[i].name = bus.devs[j].name => i = j
  /\ \A i \in 1..Len(bus.devs) : DeviceConsistent(bus.devs[i])

Consistent(tree) == \A b \in Buses : BusConsistent(tree[b])
=============================================================================

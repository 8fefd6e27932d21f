------------------------------ MODULE StoreProofs ------------------------------
(***************************************************************************)
(* Theorems about the device tree and the gateway's store, for any names,  *)
(* any commands and any number of restarts and power failures.             *)
(***************************************************************************)
EXTENDS GatewayStore, LeastElement, SequenceTheorems, FiniteSetTheorems, TLAPS

-----------------------------------------------------------------------------
(* The device tree.                                                        *)

\* What a search by name returns.
LEMMA FirstFound ==
  ASSUME NEW at \in SUBSET (Nat \ {0})
  PROVE  IF at = {} THEN First(at) = 0 ELSE First(at) \in at
  <1>1. CASE at # {}
    <2>1. \E i \in at : \A j \in at : i <= j
      BY <1>1, Least
    <2>2. QED  BY <1>1, <2>1 DEF First
  <1>2. QED  BY <1>1 DEF First

LEMMA DeviceFound ==
  ASSUME NEW bus \in Bus, NEW d
  PROVE  /\ DeviceAt(bus, d) = 0 => \A i \in 1..Len(bus.devs) : bus.devs[i].name # d
         /\ DeviceAt(bus, d) # 0 => DeviceAt(bus, d) \in 1..Len(bus.devs)
  <1> DEFINE at == {i \in 1..Len(bus.devs) : bus.devs[i].name = d}
  <1>1. Len(bus.devs) \in Nat
    BY DEF Bus
  <1>2. at \in SUBSET (Nat \ {0})
    BY <1>1
  <1>3. IF at = {} THEN First(at) = 0 ELSE First(at) \in at
    BY <1>2, FirstFound
  <1>4. 0 \notin at
    BY <1>2
  <1>5. QED  BY <1>3, <1>4 DEF DeviceAt

LEMMA MemFound ==
  ASSUME NEW dev \in Device, NEW m
  PROVE  /\ MemAt(dev, m) = 0 => \A i \in 1..Len(dev.mems) : dev.mems[i] # m
         /\ MemAt(dev, m) # 0 => MemAt(dev, m) \in 1..Len(dev.mems)
  <1> DEFINE at == {i \in 1..Len(dev.mems) : dev.mems[i] = m}
  <1>1. Len(dev.mems) \in Nat
    BY DEF Device
  <1>2. at \in SUBSET (Nat \ {0})
    BY <1>1
  <1>3. IF at = {} THEN First(at) = 0 ELSE First(at) \in at
    BY <1>2, FirstFound
  <1>4. 0 \notin at
    BY <1>2
  <1>5. QED  BY <1>3, <1>4 DEF MemAt

\* A list without one of its elements.
LEMMA Removed ==
  ASSUME NEW S, NEW s \in Seq(S), NEW k \in 1..Len(s)
  PROVE  /\ RemoveAt(s, k) \in Seq(S) /\ Len(RemoveAt(s, k)) = Len(s) - 1
         /\ \A i \in 1..(Len(s) - 1) : RemoveAt(s, k)[i] = s[IF i < k THEN i ELSE i + 1]
  <1> DEFINE L == Len(s)
             u == SubSeq(s, 1, k - 1)
             v == SubSeq(s, k + 1, L)
  <1>1. L \in Nat /\ k \in Nat /\ 1 <= k /\ k <= L
    OBVIOUS
  <1>2. u \in Seq(S) /\ Len(u) = k - 1 /\ \A i \in 1..(k - 1) : u[i] = s[i]
    <2>1. 1 \in Int /\ k - 1 \in Int /\ \A i \in 1..(k - 1) : s[i] \in S
      BY <1>1
    <2>2. /\ u \in Seq(S) /\ Len(u) = IF 1 <= k - 1 THEN (k - 1) - 1 + 1 ELSE 0
          /\ \A i \in 1..((k - 1) - 1 + 1) : u[i] = s[1 + i - 1]
      BY <2>1, SubSeqProperties
    <2>3. QED  BY <1>1, <2>2
  <1>3. v \in Seq(S) /\ Len(v) = L - k /\ \A i \in 1..(L - k) : v[i] = s[k + i]
    <2>1. k + 1 \in Int /\ L \in Int /\ \A i \in (k + 1)..L : s[i] \in S
      BY <1>1
    <2>2. /\ v \in Seq(S) /\ Len(v) = IF k + 1 <= L THEN L - (k + 1) + 1 ELSE 0
          /\ \A i \in 1..(L - (k + 1) + 1) : v[i] = s[k + 1 + i - 1]
      BY <2>1, SubSeqProperties
    <2>3. QED  BY <1>1, <2>2
  <1>4. RemoveAt(s, k) = u \o v
    BY DEF RemoveAt
  <1> HIDE DEF u, v, L
  <1>5. /\ u \o v \in Seq(S) /\ Len(u \o v) = Len(u) + Len(v)
        /\ \A i \in 1..(Len(u) + Len(v)) :
             (u \o v)[i] = IF i <= Len(u) THEN u[i] ELSE v[i - Len(u)]
    BY <1>2, <1>3, ConcatProperties
  <1>6. Len(u) + Len(v) = L - 1
    BY <1>1, <1>2, <1>3
  <1>7. ASSUME NEW i \in 1..(L - 1) PROVE (u \o v)[i] = s[IF i < k THEN i ELSE i + 1]
    <2>1. CASE i < k
      <3>1. i \in 1..(k - 1) /\ i <= Len(u)
        BY <1>1, <1>2, <2>1
      <3>2. QED  BY <1>2, <1>5, <1>6, <2>1, <3>1
    <2>2. CASE ~(i < k)
      <3>1. ~(i <= Len(u)) /\ i - Len(u) \in 1..(L - k) /\ k + (i - Len(u)) = i + 1
        BY <1>1, <1>2, <2>2
      <3>2. QED  BY <1>3, <1>5, <1>6, <2>2, <3>1
    <2>3. QED  BY <2>1, <2>2
  <1>8. QED  BY <1>4, <1>5, <1>6, <1>7 DEF L

BusOK(bus)    == bus \in Bus /\ BusConsistent(bus)
DeviceOK(dev) == dev \in Device /\ DeviceConsistent(dev)

LEMMA NodeAddedOK ==
  ASSUME NEW bus, BusOK(bus), NEW d \in Devices, DeviceAt(bus, d) = 0
  PROVE  BusOK(NodeAdded(bus, d))
  <1> DEFINE dev == [name |-> d, num |-> 0, mems |-> <<>>]
             L == Len(bus.devs)
             t == Append(bus.devs, dev)
  <1>1. bus.num \in Nat /\ bus.devs \in Seq(Device) /\ bus.num = L /\ L \in Nat
    BY DEF BusOK, Bus, BusConsistent
  <1>2. dev \in Device /\ DeviceConsistent(dev) /\ dev.name = d
    BY DEF Device, DeviceConsistent, IsInjective
  <1>3. /\ \A i \in 1..L : bus.devs[i].name # d
        /\ \A i, j \in 1..L : bus.devs[i].name = bus.devs[j].name => i = j
        /\ \A i \in 1..L : DeviceConsistent(bus.devs[i])
    BY DeviceFound DEF BusOK, BusConsistent
  <1> HIDE DEF dev, L, t
  <1>4. /\ t \in Seq(Device) /\ Len(t) = L + 1 /\ t[L + 1] = dev
        /\ \A i \in 1..L : t[i] = bus.devs[i]
    BY <1>1, <1>2, AppendProperties DEF t, L
  <1>5. \A i \in 1..(L + 1) : i # L + 1 => i \in 1..L
    BY <1>1
  <1>6. \A i, j \in 1..(L + 1) : t[i].name = t[j].name => i = j
    BY <1>2, <1>3, <1>4, <1>5
  <1>7. \A i \in 1..(L + 1) : DeviceConsistent(t[i])
    BY <1>2, <1>3, <1>4, <1>5
  <1>8. NodeAdded(bus, d) = [num |-> L + 1, devs |-> t]
    BY <1>1 DEF NodeAdded, t, dev
  <1>9. QED  BY <1>1, <1>4, <1>6, <1>7, <1>8 DEF BusOK, Bus, BusConsistent

LEMMA NodeDeletedOK ==
  ASSUME NEW bus, BusOK(bus), NEW d, DeviceAt(bus, d) # 0
  PROVE  BusOK(NodeDeleted(bus, d))
  <1> DEFINE L == Len(bus.devs)
             k == DeviceAt(bus, d)
             t == RemoveAt(bus.devs, k)
             from(i) == IF i < k THEN i ELSE i + 1
  <1>1. bus.num \in Nat /\ bus.devs \in Seq(Device) /\ bus.num = L /\ L \in Nat /\ k \in 1..L
    BY DeviceFound DEF BusOK, Bus, BusConsistent
  <1>2. /\ \A i, j \in 1..L : bus.devs[i].name = bus.devs[j].name => i = j
        /\ \A i \in 1..L : DeviceConsistent(bus.devs[i])
    BY DEF BusOK, BusConsistent
  <1>3. /\ t \in Seq(Device) /\ Len(t) = L - 1
        /\ \A i \in 1..(L - 1) : t[i] = bus.devs[from(i)]
    BY <1>1, Removed
  <1>4. NodeDeleted(bus, d) = [num |-> L - 1, devs |-> t]
    BY <1>1 DEF NodeDeleted
  <1>5. /\ \A i \in 1..(L - 1) : from(i) \in 1..L
        /\ \A i, j \in 1..(L - 1) : from(i) = from(j) => i = j
    <2> HIDE DEF L, k
    <2>1. QED  BY <1>1
  <1> HIDE DEF L, k, t, from
  <1>6. \A i, j \in 1..(L - 1) : t[i].name = t[j].name => i = j
    BY <1>2, <1>3, <1>5
  <1>7. \A i \in 1..(L - 1) : DeviceConsistent(t[i])
    BY <1>2, <1>3, <1>5
  <1>8. L - 1 \in Nat
    BY <1>1
  <1>9. QED  BY <1>3, <1>4, <1>6, <1>7, <1>8 DEF BusOK, Bus, BusConsistent

LEMMA MemAddedOK ==
  ASSUME NEW dev, DeviceOK(dev), NEW m \in Mems, MemAt(dev, m) = 0
  PROVE  DeviceOK(MemAdded(dev, m)) /\ MemAdded(dev, m).name = dev.name
  <1> DEFINE L == Len(dev.mems)
             t == Append(dev.mems, m)
  <1>1. /\ dev \in Device /\ dev.num \in Nat /\ dev.mems \in Seq(Mems) /\ dev.name \in Devices
        /\ dev.num = L /\ L \in Nat
    BY DEF DeviceOK, Device, DeviceConsistent
  <1>2. /\ \A i \in 1..L : dev.mems[i] # m
        /\ \A i, j \in 1..L : dev.mems[i] = dev.mems[j] => i = j
    <2>1. DOMAIN dev.mems = 1..L
      BY <1>1
    <2>2. \A i \in 1..L : dev.mems[i] # m
      BY <1>1, MemFound
    <2>3. QED  BY <2>1, <2>2 DEF DeviceOK, DeviceConsistent, IsInjective
  <1>3. /\ MemAdded(dev, m) \in [name : Devices, num : {L + 1}, mems : {t}]
        /\ MemAdded(dev, m).name = dev.name
    <2>1. dev.num + 1 = L + 1
      BY <1>1
    <2> HIDE DEF L
    <2>2. QED  BY <1>1, <2>1 DEF MemAdded, Device
  <1>4. /\ t \in Seq(Mems) /\ Len(t) = L + 1 /\ t[L + 1] = m /\ DOMAIN t = 1..(L + 1)
        /\ \A i \in 1..L : t[i] = dev.mems[i]
    BY <1>1
  <1> HIDE DEF L, t
  <1>5. \A i \in 1..(L + 1) : i # L + 1 => i \in 1..L
    BY <1>1
  <1>6. IsInjective(t)
    BY <1>2, <1>4, <1>5 DEF IsInjective
  <1>7. QED  BY <1>1, <1>3, <1>4, <1>6 DEF DeviceOK, Device, DeviceConsistent

LEMMA MemDeletedOK ==
  ASSUME NEW dev, DeviceOK(dev), NEW m, MemAt(dev, m) # 0
  PROVE  DeviceOK(MemDeleted(dev, m)) /\ MemDeleted(dev, m).name = dev.name
  <1> DEFINE L == Len(dev.mems)
             k == MemAt(dev, m)
             t == RemoveAt(dev.mems, k)
             from(i) == IF i < k THEN i ELSE i + 1
  <1>1. /\ dev \in Device /\ dev.num \in Nat /\ dev.mems \in Seq(Mems) /\ dev.name \in Devices
        /\ dev.num = L /\ L \in Nat
    BY DEF DeviceOK, Device, DeviceConsistent
  <1>2. k \in 1..L
    BY <1>1, MemFound
  <1>3. \A i, j \in 1..L : dev.mems[i] = dev.mems[j] => i = j
    <2>1. DOMAIN dev.mems = 1..L
      BY <1>1
    <2>2. QED  BY <2>1 DEF DeviceOK, DeviceConsistent, IsInjective
  <1>4. /\ MemDeleted(dev, m) \in [name : Devices, num : {L - 1}, mems : {t}]
        /\ MemDeleted(dev, m).name = dev.name
    <2>1. dev.num - 1 = L - 1
      BY <1>1
    <2> HIDE DEF L
    <2>2. QED  BY <1>1, <2>1 DEF MemDeleted, Device
  <1>5. /\ t \in Seq(Mems) /\ Len(t) = L - 1
        /\ \A i \in 1..(L - 1) : t[i] = dev.mems[from(i)]
    BY <1>1, <1>2, Removed
  <1>6. DOMAIN t = 1..(L - 1)
    BY <1>5
  <1>7. /\ \A i \in 1..(L - 1) : from(i) \in 1..L
        /\ \A i, j \in 1..(L - 1) : from(i) = from(j) => i = j
    <2> HIDE DEF L, k
    <2>1. QED  BY <1>1, <1>2
  <1> HIDE DEF L, k, t, from
  <1>8. IsInjective(t)
    BY <1>3, <1>5, <1>6, <1>7 DEF IsInjective
  <1>9. L - 1 \in Nat
    BY <1>1, <1>2
  <1>10. QED  BY <1>1, <1>4, <1>5, <1>8, <1>9 DEF DeviceOK, Device, DeviceConsistent

\* A device put in another's place, of the same name.
LEMMA DeviceReplacedOK ==
  ASSUME NEW bus, BusOK(bus), NEW at \in 1..Len(bus.devs),
         NEW dev, DeviceOK(dev), dev.name = bus.devs[at].name
  PROVE  BusOK([bus EXCEPT !.devs[at] = dev])
  <1> DEFINE L == Len(bus.devs)
             t == [bus.devs EXCEPT ![at] = dev]
  <1>1. bus \in Bus /\ bus.num \in Nat /\ bus.devs \in Seq(Device) /\ bus.num = L /\ L \in Nat
    BY DEF BusOK, Bus, BusConsistent
  <1>2. /\ \A i, j \in 1..L : bus.devs[i].name = bus.devs[j].name => i = j
        /\ \A i \in 1..L : DeviceConsistent(bus.devs[i])
    BY DEF BusOK, BusConsistent
  <1>3. [bus EXCEPT !.devs[at] = dev] \in [num : {L}, devs : {t}]
    <2> HIDE DEF L
    <2>1. QED  BY <1>1 DEF Bus
  <1>4. t \in Seq(Device) /\ Len(t) = L
    BY <1>1 DEF DeviceOK
  <1>5. \A i \in 1..L : t[i] = IF i = at THEN dev ELSE bus.devs[i]
    BY <1>1
  <1> HIDE DEF L, t
  <1>6. \A i \in 1..L : t[i].name = bus.devs[i].name /\ DeviceConsistent(t[i])
    BY <1>2, <1>5 DEF DeviceOK
  <1>7. QED  BY <1>1, <1>2, <1>3, <1>4, <1>6 DEF BusOK, Bus, BusConsistent

\* An accepted command keeps its bus consistent ...
LEMMA BusAfterOK ==
  ASSUME NEW old, NEW c, Accepted(old, c), BusOK(old[Word(c, 2)])
  PROVE  BusOK(BusAfter(old[Word(c, 2)], c))
  <1> DEFINE bus == old[Word(c, 2)]
             d == Word(c, 3)
             m == Word(c, 4)
             at == DeviceAt(bus, d)
             has == at # 0 /\ MemAt(bus.devs[at], m) # 0
             after == BusAfter(bus, c)
  <1> SUFFICES BusOK(after)
    OBVIOUS
  <1>1. \/ Word(c, 1) = add_node /\ d \in Devices /\ at = 0
        \/ Word(c, 1) = del_node /\ at # 0
        \/ Word(c, 1) = add_mem /\ m \in Mems /\ at # 0 /\ ~has
        \/ Word(c, 1) = del_mem /\ has
    BY DEF Accepted
  <1>2. /\ Word(c, 1) = add_node => after = NodeAdded(bus, d)
        /\ Word(c, 1) = del_node => after = NodeDeleted(bus, d)
        /\ Word(c, 1) = add_mem => after = [bus EXCEPT !.devs[at] = MemAdded(@, m)]
        /\ Word(c, 1) = del_mem => after = [bus EXCEPT !.devs[at] = MemDeleted(@, m)]
    BY TreeAssumption DEF BusAfter
  <1> HIDE DEF bus, d, m, after
  <1>3. BusOK(bus)
    BY DEF bus
  <1>4. at # 0 => at \in 1..Len(bus.devs) /\ DeviceOK(bus.devs[at])
    <2>1. bus \in Bus
      BY <1>3 DEF BusOK
    <2>2. at # 0 => at \in 1..Len(bus.devs)
      BY <2>1, DeviceFound
    <2>3. bus.devs \in Seq(Device)
      BY <2>1 DEF Bus
    <2> HIDE DEF at
    <2>4. QED  BY <1>3, <2>2, <2>3 DEF BusOK, BusConsistent, DeviceOK
  <1>5. CASE Word(c, 1) = add_node /\ d \in Devices /\ at = 0
    <2>1. after = NodeAdded(bus, d)
      BY <1>2, <1>5
    <2>2. BusOK(NodeAdded(bus, d))
      BY <1>3, <1>5, NodeAddedOK
    <2>3. QED  BY <2>1, <2>2
  <1>6. CASE Word(c, 1) = del_node /\ at # 0
    <2>1. after = NodeDeleted(bus, d)
      BY <1>2, <1>6
    <2>2. BusOK(NodeDeleted(bus, d))
      BY <1>3, <1>6, NodeDeletedOK
    <2>3. QED  BY <2>1, <2>2
  <1> HIDE DEF at
  <1>7. CASE Word(c, 1) = add_mem /\ m \in Mems /\ at # 0 /\ ~has
    <2> DEFINE dev == MemAdded(bus.devs[at], m)
    <2>1. DeviceOK(dev) /\ dev.name = bus.devs[at].name
      BY <1>4, <1>7, MemAddedOK
    <2>2. after = [bus EXCEPT !.devs[at] = dev]
      BY <1>2, <1>7
    <2> HIDE DEF dev
    <2>3. BusOK([bus EXCEPT !.devs[at] = dev])
      BY <1>3, <1>4, <1>7, <2>1, DeviceReplacedOK
    <2>4. QED  BY <2>2, <2>3
  <1>8. CASE Word(c, 1) = del_mem /\ has
    <2> DEFINE dev == MemDeleted(bus.devs[at], m)
    <2>1. DeviceOK(dev) /\ dev.name = bus.devs[at].name
      BY <1>4, <1>8, MemDeletedOK
    <2>2. after = [bus EXCEPT !.devs[at] = dev]
      BY <1>2, <1>8
    <2> HIDE DEF dev
    <2>3. BusOK([bus EXCEPT !.devs[at] = dev])
      BY <1>3, <1>4, <1>8, <2>1, DeviceReplacedOK
    <2>4. QED  BY <2>2, <2>3
  <1>9. QED  BY <1>1, <1>5, <1>6, <1>7, <1>8

\* ... and with it the tree, whatever the words are.
LEMMA TreeAfterOK ==
  ASSUME NEW old \in Tree, Consistent(old), NEW c
  PROVE  TreeAfter(old, c) \in Tree /\ Consistent(TreeAfter(old, c))
  <1>1. CASE ~Accepted(old, c)
    BY <1>1 DEF TreeAfter
  <1>2. CASE Accepted(old, c)
    <2> DEFINE b == Word(c, 2)
               new == BusAfter(old[b], c)
    <2>1. b \in Buses
      BY <1>2 DEF Accepted
    <2>2. old[b] \in Bus /\ BusConsistent(old[b])
      BY <2>1 DEF Tree, Consistent
    <2>3. new \in Bus /\ BusConsistent(new)
      BY <1>2, <2>2, BusAfterOK DEF BusOK
    <2>4. TreeAfter(old, c) = [old EXCEPT ![b] = new]
      BY <1>2 DEF TreeAfter
    <2> HIDE DEF b, new
    <2>5. QED  BY <2>1, <2>3, <2>4 DEF Tree, Consistent
  <1>3. QED  BY <1>1, <1>2

LEMMA EmptyTreeOK == EmptyTree \in Tree /\ Consistent(EmptyTree)
  BY DEF EmptyTree, Tree, Bus, Consistent, BusConsistent, DeviceConsistent

TreeOK == tree \in Tree /\ TreeConsistent

LEMMA TreeOKInit == Init => TreeOK
  BY EmptyTreeOK DEF Init, TreeOK, TreeConsistent

LEMMA TreeOKNext == TreeOK /\ [Next]_vars => TreeOK'
  <1> SUFFICES ASSUME TreeOK, [Next]_vars PROVE TreeOK'
    OBVIOUS
  <1>1. tree' = tree \/ tree' = EmptyTree \/ \E c : tree' = TreeAfter(tree, c)
    <2>1. CASE UNCHANGED vars
      BY <2>1 DEF vars, ram
    <2>2. CASE Check \/ Boot \/ RunEnds \/ SetServer \/ SetServerBad \/ SetMqtt \/ Save \/ InitCommand
      BY <2>2 DEF Check, Boot, RunEnds, SetServer, SetServerBad, SetMqtt, Save, InitCommand, ram
    <2>3. CASE RunDevice \/ RunSet \/ RunSave \/ RunReboot \/ RunInit
      BY <2>3 DEF RunDevice, RunSet, RunSave, RunReboot, RunInit, Restarted
    <2>4. CASE WriteByte
      BY <2>4 DEF WriteByte, Restarted, ram
    <2>5. CASE DeviceCommand \/ Rejected
      BY <2>5 DEF DeviceCommand, Rejected
    <2>6. CASE Reboot \/ PowerFails
      BY <2>6 DEF Reboot, PowerFails, Restarted
    <2>7. QED  BY <2>1, <2>2, <2>3, <2>4, <2>5, <2>6 DEF Next, Step
  <1>2. tree \in Tree /\ Consistent(tree)
    BY DEF TreeOK, TreeConsistent
  <1>3. tree' \in Tree /\ Consistent(tree')
    BY <1>1, <1>2, EmptyTreeOK, TreeAfterOK
  <1>4. QED  BY <1>3 DEF TreeOK, TreeConsistent

\* The device tree's counters and lists agree and no name is there twice, after
\* any command and after a replay of whatever the EEPROM holds.
THEOREM TreeStaysConsistent == Spec => []TreeConsistent
  <1>1. TreeOK => TreeConsistent
    BY DEF TreeOK
  <1>2. QED  BY <1>1, TreeOKInit, TreeOKNext, PTL DEF Spec
-----------------------------------------------------------------------------
(* What writes leave behind.                                               *)

\* As long as the log fits its cells, a cell that holds a length holds a byte.
Lengths == {NameAt(1), NameAt(2), NameAt(3), LengthAt, LengthAt + 1}
Memory  == {e \in [0..(Size - 1) -> Cells] : \A a \in Lengths : e[a] \in 0..(Base - 1)}

\* e is the memory before the writes w; a is an address.
CellOf(e, a) == IF a \in DOMAIN e THEN e[a] ELSE Erased

Leaves(e, w, a, v) ==
  \/ \E i \in 1..Len(w) : /\ w[i].at = a /\ w[i].val = v
                          /\ \A j \in 1..Len(w) : i < j => w[j].at # a
  \/ CellOf(e, a) = v /\ \A j \in 1..Len(w) : w[j].at # a

Valid(w) == /\ w \in Seq(Write)
            /\ \A i \in 1..Len(w) : w[i].at \in Lengths => w[i].val \in 0..(Base - 1)

\* One write after the other leaves what all of them leave.
LEMMA FirstWritten ==
  ASSUME NEW e \in Memory, NEW w \in Seq(Write), w # <<>>, NEW a, NEW v, Leaves(e, w, a, v)
  PROVE  Leaves([e EXCEPT ![w[1].at] = w[1].val], Tail(w), a, v)
  <1> DEFINE t == Tail(w)
             f == [e EXCEPT ![w[1].at] = w[1].val]
  <1>1. /\ Len(t) = Len(w) - 1 /\ Len(w) \in Nat \ {0}
        /\ \A k \in 1..(Len(w) - 1) : t[k] = w[k + 1]
    OBVIOUS
  <1>2. w[1] \in Write /\ w[1].at \in DOMAIN e /\ DOMAIN f = DOMAIN e
    <2>1. w[1] \in Write
      BY <1>1
    <2>2. QED  BY <2>1 DEF Write, Memory
  <1>3. CellOf(f, a) = IF a = w[1].at THEN w[1].val ELSE CellOf(e, a)
    BY <1>2 DEF CellOf, Memory
  <1> HIDE DEF t, f
  <1>4. CASE CellOf(e, a) = v /\ \A j \in 1..Len(w) : w[j].at # a
    <2>1. 1 \in 1..Len(w) /\ \A k \in 1..Len(t) : k + 1 \in 1..Len(w) /\ t[k] = w[k + 1]
      BY <1>1
    <2>2. CellOf(f, a) = v /\ \A k \in 1..Len(t) : t[k].at # a
      BY <1>3, <1>4, <2>1
    <2>3. QED  BY <2>2 DEF Leaves, t, f
  <1>5. CASE \E i \in 1..Len(w) : /\ w[i].at = a /\ w[i].val = v
                                  /\ \A j \in 1..Len(w) : i < j => w[j].at # a
    <2>1. PICK i \in 1..Len(w) : /\ w[i].at = a /\ w[i].val = v
                                 /\ \A j \in 1..Len(w) : i < j => w[j].at # a
      BY <1>5
    <2>2. \A k \in 1..Len(t) : k + 1 \in 1..Len(w) /\ t[k] = w[k + 1]
      BY <1>1
    <2>3. CASE i = 1
      <3>1. CellOf(f, a) = v
        BY <1>3, <2>1, <2>3
      <3>2. \A k \in 1..Len(t) : t[k].at # a
        <4>1. \A k \in 1..Len(t) : i < k + 1
          BY <2>3
        <4>2. QED  BY <2>1, <2>2, <4>1
      <3>3. QED  BY <3>1, <3>2 DEF Leaves, t, f
    <2>4. CASE i # 1
      <3>1. i - 1 \in 1..Len(t) /\ i - 1 + 1 = i
        BY <1>1, <2>4
      <3>2. t[i - 1].at = a /\ t[i - 1].val = v
        BY <2>1, <2>2, <3>1
      <3>3. \A k \in 1..Len(t) : i - 1 < k => t[k].at # a
        <4>1. \A k \in 1..Len(t) : i - 1 < k => i < k + 1
          OBVIOUS
        <4>2. QED  BY <2>1, <2>2, <4>1
      <3>4. QED  BY <3>1, <3>2, <3>3 DEF Leaves, t, f
    <2>5. QED  BY <2>3, <2>4
  <1>6. QED  BY <1>4, <1>5 DEF Leaves

\* With nothing left to write.
LEMMA NothingWritten ==
  ASSUME NEW e, NEW a, NEW v
  PROVE  Leaves(e, <<>>, a, v) <=> CellOf(e, a) = v
  BY DEF Leaves

\* More writes: what they write, and beside them what was there.
LEMMA MoreWrites ==
  ASSUME NEW e, NEW w \in Seq(Write), NEW p \in Seq(Write)
  PROVE  /\ w \o p \in Seq(Write)
         /\ \A i \in 1..Len(p) : (\A j \in 1..Len(p) : i < j => p[j].at # p[i].at)
                                   => Leaves(e, w \o p, p[i].at, p[i].val)
         /\ \A a, v : Leaves(e, w, a, v) /\ (\A j \in 1..Len(p) : p[j].at # a)
                        => Leaves(e, w \o p, a, v)
  <1> DEFINE t == w \o p
             L == Len(w)
             M == Len(p)
  <1>1. /\ t \in Seq(Write) /\ Len(t) = L + M /\ L \in Nat /\ M \in Nat
        /\ \A k \in 1..(L + M) : t[k] = IF k <= L THEN w[k] ELSE p[k - L]
    BY ConcatProperties
  <1> HIDE DEF t, L, M
  <1>2. \A k \in 1..L : k \in 1..(L + M) /\ t[k] = w[k]
    BY <1>1
  <1>3. \A i \in 1..M : L + i \in 1..(L + M) /\ t[L + i] = p[i]
    BY <1>1
  <1>4. \A k \in 1..(L + M) : k \in 1..L \/ (k - L \in 1..M /\ k = L + (k - L))
    BY <1>1
  <1>5. ASSUME NEW i \in 1..M, \A j \in 1..M : i < j => p[j].at # p[i].at
        PROVE  Leaves(e, t, p[i].at, p[i].val)
    <2>1. ASSUME NEW k \in 1..(L + M), L + i < k PROVE t[k].at # p[i].at
      <3>1. k - L \in 1..M /\ k = L + (k - L) /\ i < k - L
        BY <1>1, <2>1
      <3>2. QED  BY <1>3, <1>5, <3>1
    <2>2. QED  BY <1>1, <1>3, <2>1 DEF Leaves
  <1>6. ASSUME NEW a, NEW v, Leaves(e, w, a, v), \A j \in 1..M : p[j].at # a
        PROVE  Leaves(e, t, a, v)
    <2>1. \A k \in 1..(L + M) : k \notin 1..L => t[k].at # a
      BY <1>3, <1>4, <1>6
    <2>2. CASE CellOf(e, a) = v /\ \A j \in 1..L : w[j].at # a
      <3>1. \A k \in 1..(L + M) : t[k].at # a
        BY <1>2, <2>1, <2>2
      <3>2. QED  BY <1>1, <2>2, <3>1 DEF Leaves
    <2>3. CASE \E i \in 1..L : /\ w[i].at = a /\ w[i].val = v
                               /\ \A j \in 1..L : i < j => w[j].at # a
      <3>1. PICK i \in 1..L : /\ w[i].at = a /\ w[i].val = v
                              /\ \A j \in 1..L : i < j => w[j].at # a
        BY <2>3
      <3>2. \A k \in 1..(L + M) : i < k => t[k].at # a
        BY <1>2, <2>1, <3>1
      <3>3. i \in 1..(L + M) /\ t[i].at = a /\ t[i].val = v
        BY <1>2, <3>1
      <3>4. QED  BY <1>1, <3>2, <3>3 DEF Leaves
    <2>4. QED  BY <1>6, <2>2, <2>3 DEF Leaves, L
  <1>7. QED  BY <1>1, <1>5, <1>6 DEF t, M

\* A Put is such writes, one cell after the other.
LEMMA PutWrites ==
  ASSUME NEW b \in Nat, NEW s \in Seq(Cells), b + Len(s) <= Size
  PROVE  /\ Put(b, s) \in Seq(Write) /\ Len(Put(b, s)) = Len(s)
         /\ \A i \in 1..Len(s) : Put(b, s)[i].at = b + i - 1 /\ Put(b, s)[i].val = s[i]
  <1>1. Len(s) \in Nat /\ \A i \in 1..Len(s) : s[i] \in Cells
    OBVIOUS
  <1>2. Size \in Nat \ {0}
    BY StoreAssumption
  <1>3. \A i \in 1..Len(s) : b + i - 1 \in 0..(Size - 1)
    BY <1>1, <1>2
  <1>4. \A i \in 1..Len(s) : (b + i - 1) % Size = b + i - 1
    <2>1. \A k \in 0..(Size - 1) : k % Size = k
      BY <1>2
    <2>2. QED  BY <1>3, <2>1
  <1>5. \A i \in 1..Len(s) : [at |-> (b + i - 1) % Size, val |-> s[i]] \in Write
    BY <1>1, <1>3, <1>4 DEF Write
  <1>6. QED  BY <1>1, <1>4, <1>5 DEF Put

LEMMA PutLeaves ==
  ASSUME NEW e, NEW w \in Seq(Write), NEW b \in Nat, NEW s \in Seq(Cells), b + Len(s) <= Size
  PROVE  /\ w \o Put(b, s) \in Seq(Write)
         /\ \A i \in 1..Len(s) : Leaves(e, w \o Put(b, s), b + i - 1, s[i])
         /\ \A a, v : Leaves(e, w, a, v) /\ a \notin b..(b + Len(s) - 1)
                        => Leaves(e, w \o Put(b, s), a, v)
  <1> DEFINE p == Put(b, s)
  <1>1. /\ p \in Seq(Write) /\ Len(p) = Len(s) /\ Len(s) \in Nat
        /\ \A i \in 1..Len(s) : p[i].at = b + i - 1 /\ p[i].val = s[i]
    BY PutWrites
  <1> HIDE DEF p
  <1>2. \A i, j \in 1..Len(s) : i < j => p[j].at # p[i].at
    <2>1. \A i, j \in 1..Len(s) : i < j => b + i - 1 # b + j - 1
      OBVIOUS
    <2>2. QED  BY <1>1, <2>1
  <1>3. \A j \in 1..Len(s) : p[j].at \in b..(b + Len(s) - 1)
    <2>1. \A j \in 1..Len(s) : b + j - 1 \in b..(b + Len(s) - 1)
      BY <1>1
    <2>2. QED  BY <1>1, <2>1
  <1>4. /\ w \o p \in Seq(Write)
        /\ \A i \in 1..Len(p) : (\A j \in 1..Len(p) : i < j => p[j].at # p[i].at)
                                  => Leaves(e, w \o p, p[i].at, p[i].val)
        /\ \A a, v : Leaves(e, w, a, v) /\ (\A j \in 1..Len(p) : p[j].at # a)
                       => Leaves(e, w \o p, a, v)
    BY <1>1, MoreWrites
  <1>5. \A i \in 1..Len(s) : Leaves(e, w \o p, b + i - 1, s[i])
    BY <1>1, <1>2, <1>4
  <1>6. ASSUME NEW a, NEW v, Leaves(e, w, a, v), a \notin b..(b + Len(s) - 1)
        PROVE  Leaves(e, w \o p, a, v)
    <2>1. \A j \in 1..Len(p) : p[j].at # a
      BY <1>1, <1>3, <1>6
    <2>2. QED  BY <1>4, <1>6, <2>1
  <1>7. QED  BY <1>4, <1>5, <1>6 DEF p

\* The same, for what every list of writes keeps to.
LEMMA PutValid ==
  ASSUME NEW w, Valid(w), NEW b \in Nat, NEW s \in Seq(Cells), b + Len(s) <= Size,
         \A i \in 1..Len(s) : b + i - 1 \in Lengths => s[i] \in 0..(Base - 1)
  PROVE  Valid(w \o Put(b, s))
  <1> DEFINE p == Put(b, s)
             t == w \o p
             L == Len(w)
             M == Len(p)
  <1>1. /\ p \in Seq(Write) /\ M = Len(s)
        /\ \A i \in 1..Len(s) : p[i].at = b + i - 1 /\ p[i].val = s[i]
    BY PutWrites
  <1>2. w \in Seq(Write) /\ \A i \in 1..L : w[i].at \in Lengths => w[i].val \in 0..(Base - 1)
    BY DEF Valid
  <1> HIDE DEF p
  <1>3. /\ t \in Seq(Write) /\ Len(t) = L + M /\ L \in Nat /\ M \in Nat
        /\ \A k \in 1..(L + M) : t[k] = IF k <= L THEN w[k] ELSE p[k - L]
    <2>1. p \in Seq(Write) /\ w \in Seq(Write)
      BY <1>1, <1>2
    <2>2. QED  BY <2>1, ConcatProperties
  <1> HIDE DEF t, L, M
  <1>4. ASSUME NEW k \in 1..(L + M), t[k].at \in Lengths PROVE t[k].val \in 0..(Base - 1)
    <2>1. CASE k <= L
      <3>1. k \in 1..L /\ t[k] = w[k]
        BY <1>3, <2>1
      <3>2. QED  BY <1>2, <1>4, <3>1
    <2>2. CASE ~(k <= L)
      <3>1. k \in 1..(L + M) /\ L \in Nat /\ M \in Nat
        BY <1>3
      <3>2. k - L \in 1..M
        BY <2>2, <3>1
      <3>3. t[k] = p[k - L]
        BY <1>3, <2>2
      <3>4. p[k - L].at = b + (k - L) - 1 /\ p[k - L].val = s[k - L]
        BY <1>1, <3>2
      <3>5. QED  BY <1>1, <1>4, <3>2, <3>3, <3>4
    <2>3. QED  BY <2>1, <2>2
  <1>5. QED  BY <1>3, <1>4 DEF Valid, t, p

-----------------------------------------------------------------------------
(* Where things are.                                                       *)

LEMMA Layout ==
  /\ Base \in Nat \ {0} /\ Base > 2 /\ NameMax \in Nat \ {0} /\ NameMax < Base - 1
  /\ LogMax \in Nat /\ LogMax < (Base - 1) * Base
  /\ NameAt(1) = 2 /\ NameAt(2) = NameMax + 3 /\ NameAt(3) = 2 * NameMax + 4
  /\ LengthAt = 3 * NameMax + 5 /\ LogAt = 3 * NameMax + 7 /\ Size = 3 * NameMax + 8 + LogMax
  <1>1. NameMax \in Nat \ {0} /\ Base \in Nat /\ Base > 2 /\ NameMax < Base - 1 /\ Size \in Nat
        /\ 3 * NameMax + 7 < Size /\ Size <= (Base - 1) * Base
    BY StoreAssumption
  <1>2. /\ NameAt(1) = 2 /\ NameAt(2) = NameMax + 3 /\ NameAt(3) = 2 * NameMax + 4
        /\ NameAt(4) = 3 * NameMax + 5
    BY <1>1 DEF NameAt
  <1>3. LengthAt = 3 * NameMax + 5 /\ LogAt = 3 * NameMax + 7
    BY <1>1, <1>2 DEF LengthAt, LogAt
  <1>4. LogMax = Size - 1 - (3 * NameMax + 7)
    BY <1>3 DEF LogMax, CheckAt
  <1> DEFINE q == (Base - 1) * Base
  <1>5. q \in Int /\ Size <= q
    BY <1>1
  <1> HIDE DEF q
  <1>6. LogMax \in Nat /\ LogMax < q /\ Size = 3 * NameMax + 8 + LogMax
    BY <1>1, <1>4, <1>5
  <1>7. QED  BY <1>1, <1>2, <1>3, <1>6 DEF q

\* The names' places, one after the other, between the server and the log.
LEMMA Places ==
  ASSUME NEW k \in 1..3
  PROVE  /\ NameAt(k) \in Nat /\ NameAt(k) >= 2 /\ NameAt(k) + NameMax < LengthAt
         /\ NameAt(k) \in Lengths
         /\ \A i \in 1..NameMax : NameAt(k) + i \notin Lengths
         /\ \A j \in 1..3 : j # k => NameAt(j) + NameMax < NameAt(k) \/ NameAt(k) + NameMax < NameAt(j)
  <1>1. k = 1 \/ k = 2 \/ k = 3
    OBVIOUS
  <1>2. \A j \in 1..3 : j = 1 \/ j = 2 \/ j = 3
    OBVIOUS
  <1>3. QED  BY <1>1, <1>2, Layout DEF Lengths

\* The two bytes of a number.
LEMMA DivMod ==
  ASSUME NEW n \in Nat, NEW b \in Nat \ {0}
  PROVE  n % b \in 0..(b - 1) /\ n \div b \in Nat /\ n = (n % b) + b * (n \div b)
  OBVIOUS

LEMMA DivBelow ==
  ASSUME NEW n \in Nat, NEW b \in Nat \ {0}, n < b * b
  PROVE  n \div b \in 0..(b - 1)
  <1> DEFINE q == n \div b
  <1>1. q \in Nat /\ b * q <= n
    BY DivMod
  <1> HIDE DEF q
  <1>2. ASSUME q >= b PROVE FALSE
    <2>1. b * q >= b * b
      BY <1>1, <1>2
    <2>2. QED  BY <1>1, <2>1
  <1>3. QED  BY <1>1, <1>2 DEF q

\* A length of the log that fits its cells fits two bytes.
LEMMA FitsTwoBytes ==
  ASSUME NEW n \in 0..LogMax
  PROVE  n \in 0..(Base * Base - 1)
  <1>1. LogMax \in Nat /\ LogMax < (Base - 1) * Base /\ Base \in Nat \ {0}
    BY Layout
  <1>2. \A b \in Nat \ {0} : (b - 1) * b <= b * b - 1 /\ (b - 1) * b \in Nat /\ b * b \in Nat
    OBVIOUS
  <1> DEFINE x == (Base - 1) * Base
             y == Base * Base
  <1>3. x <= y - 1 /\ x \in Nat /\ y \in Nat /\ LogMax < x
    BY <1>1, <1>2
  <1> HIDE DEF x, y
  <1>4. n \in 0..(y - 1)
    BY <1>1, <1>3
  <1>5. QED  BY <1>4 DEF y

LEMMA TwoBytes ==
  ASSUME NEW n \in 0..(Base * Base - 1)
  PROVE  /\ Bytes(n) \in Seq(Cells) /\ Len(Bytes(n)) = 2
         /\ \A i \in 1..2 : Bytes(n)[i] \in 0..(Base - 1)
         /\ n = Bytes(n)[1] + Base * Bytes(n)[2]
  <1>1. n \in Nat /\ n < Base * Base /\ Base \in Nat \ {0}
    <2>1. Base \in Nat \ {0} /\ \A b \in Nat \ {0} : b * b \in Nat
      BY Layout
    <2> DEFINE y == Base * Base
    <2>2. y \in Nat /\ n \in 0..(y - 1)
      BY <2>1
    <2> HIDE DEF y
    <2>3. n \in Nat /\ n < y
      BY <2>2
    <2>4. QED  BY <2>1, <2>3 DEF y
  <1>2. n % Base \in 0..(Base - 1) /\ n \div Base \in 0..(Base - 1) /\ n = (n % Base) + Base * (n \div Base)
    BY <1>1, DivMod, DivBelow
  <1>3. 0..(Base - 1) \subseteq Cells
    BY StoreAssumption
  <1> DEFINE x == n % Base
             y == n \div Base
  <1>4. Bytes(n) = <<x, y>>
    BY DEF Bytes
  <1> HIDE DEF x, y
  <1>5. x \in 0..(Base - 1) /\ y \in 0..(Base - 1) /\ n = x + Base * y
    BY <1>2 DEF x, y
  <1>6. QED  BY <1>3, <1>4, <1>5

\* A byte alone.
LEMMA OneByte ==
  ASSUME NEW n \in 0..(Base - 1)
  PROVE  /\ <<n>> \in Seq(Cells) /\ Len(<<n>>) = 1 /\ <<n>>[1] = n
         /\ Bytes(n) \in Seq(Cells) /\ Len(Bytes(n)) = 2 /\ Bytes(n)[1] = n
  <1>1. Base \in Nat \ {0} /\ 0..(Base - 1) \subseteq Cells
    BY StoreAssumption
  <1>2. n % Base = n /\ n \div Base = 0
    BY <1>1
  <1>3. 0 \in Cells /\ n \in Cells
    BY <1>1
  <1>4. QED  BY <1>2, <1>3 DEF Bytes

-----------------------------------------------------------------------------
(* What the commands' writes store.                                        *)

Named(e, w, k, n) == /\ Leaves(e, w, NameAt(k), Len(n))
                     /\ \A i \in 1..Len(n) : Leaves(e, w, NameAt(k) + i, n[i])

Name    == {n \in Seq(Cells) : Len(n) <= NameMax}
Area(k) == NameAt(k)..(NameAt(k) + NameMax)

\* Both ways to store a name store it, and touch its place only.
LEMMA NameLeaves ==
  ASSUME NEW e, NEW w, Valid(w), NEW k \in 1..3, NEW n \in Name,
         NEW x \in {PutName(k, n), SaveName(k, n)}
  PROVE  /\ Valid(w \o x) /\ Named(e, w \o x, k, n)
         /\ \A a, v : Leaves(e, w, a, v) /\ a \notin Area(k) => Leaves(e, w \o x, a, v)
  <1> DEFINE b == NameAt(k)
             h == IF x = PutName(k, n) THEN <<Len(n)>> ELSE Bytes(Len(n))
             p == Put(b, h)
             q == Put(b + 1, n)
  <1>1. n \in Seq(Cells) /\ Len(n) \in 0..NameMax /\ Len(n) \in 0..(Base - 1)
    BY Layout DEF Name
  <1>2. h \in Seq(Cells) /\ Len(h) \in 1..2 /\ h[1] = Len(n)
    BY <1>1, OneByte
  <1>3. x = p \o q
    BY DEF PutName, SaveName
  <1>4. /\ b \in Nat /\ b + NameMax < LengthAt
        /\ \A i \in 1..NameMax : b + i \notin Lengths
    BY Places
  <1>5. NameMax \in Nat \ {0} /\ LengthAt < Size /\ LengthAt \in Nat /\ Size \in Nat
    BY Layout
  <1>6. w \in Seq(Write)
    BY DEF Valid
  <1> HIDE DEF b, h
  <1>7. b + Len(h) <= Size /\ b + 1 + Len(n) <= Size /\ b + 1 \in Nat
    <2> DEFINE H == Len(h)
               N == Len(n)
    <2>1. H \in 1..2 /\ N \in 0..NameMax /\ b \in Nat /\ b + NameMax < LengthAt
      BY <1>1, <1>2, <1>4
    <2> HIDE DEF H, N
    <2>2. b + H <= Size /\ b + 1 + N <= Size /\ b + 1 \in Nat
      BY <1>5, <2>1
    <2>3. QED  BY <2>2 DEF H, N
  <1>8. p \in Seq(Write) /\ q \in Seq(Write)
    BY <1>1, <1>2, <1>4, <1>7, PutWrites
  <1>9. Valid(w \o p)
    <2>1. \A i \in 1..Len(h) : b + i - 1 \in Lengths => h[i] \in 0..(Base - 1)
      <3>1. \A i \in 1..Len(h) : i = 1 \/ i = 2
        <4> DEFINE H == Len(h)
        <4>1. H \in 1..2
          BY <1>2
        <4> HIDE DEF H
        <4>2. \A i \in 1..H : i = 1 \/ i = 2
          BY <4>1
        <4>3. QED  BY <4>2 DEF H
      <3>2. b + 2 - 1 = b + 1 /\ b + 1 \notin Lengths
        BY <1>4, <1>5
      <3>3. QED  BY <1>1, <1>2, <3>1, <3>2
    <2>2. QED  BY <1>2, <1>4, <1>7, <2>1, PutValid
  <1>10. Valid((w \o p) \o q)
    <2>1. \A i \in 1..Len(n) : b + 1 + i - 1 \notin Lengths
      <3>1. \A i \in 1..Len(n) : i \in 1..NameMax /\ b + 1 + i - 1 = b + i
        BY <1>1, <1>4, <1>5
      <3>2. QED  BY <1>4, <3>1
    <2>2. QED  BY <1>1, <1>7, <1>9, <2>1, PutValid
  <1>11. (w \o p) \o q = w \o x
    BY <1>3, <1>6, <1>8, ConcatAssociative
  <1> DEFINE t == w \o p
  <1>12. /\ \A i \in 1..Len(h) : Leaves(e, t, b + i - 1, h[i])
         /\ \A a, v : Leaves(e, w, a, v) /\ a \notin b..(b + Len(h) - 1) => Leaves(e, t, a, v)
    BY <1>2, <1>4, <1>6, <1>7, PutLeaves
  <1>13. t \in Seq(Write)
    BY <1>9 DEF Valid
  <1> HIDE DEF t
  <1>14. /\ \A i \in 1..Len(n) : Leaves(e, t \o q, b + 1 + i - 1, n[i])
         /\ \A a, v : Leaves(e, t, a, v) /\ a \notin (b + 1)..(b + 1 + Len(n) - 1)
                        => Leaves(e, t \o q, a, v)
    BY <1>1, <1>7, <1>13, PutLeaves
  <1> HIDE DEF p, q
  <1>15. Leaves(e, t \o q, b, Len(n))
    <2>1. 1 \in 1..Len(h) /\ b + 1 - 1 = b /\ b \notin (b + 1)..(b + 1 + Len(n) - 1)
      BY <1>1, <1>2, <1>4
    <2>2. Leaves(e, t, b, Len(n))
      BY <1>2, <1>12, <2>1
    <2>3. QED  BY <1>14, <2>1, <2>2
  <1>16. \A i \in 1..Len(n) : Leaves(e, t \o q, b + i, n[i])
    <2>1. \A i \in 1..Len(n) : b + 1 + i - 1 = b + i
      BY <1>1, <1>4
    <2>2. QED  BY <1>14, <2>1
  <1>17. \A a, v : Leaves(e, w, a, v) /\ a \notin b..(b + NameMax) => Leaves(e, t \o q, a, v)
    <2>1. \A a : a \notin b..(b + NameMax) => /\ a \notin b..(b + Len(h) - 1)
                                              /\ a \notin (b + 1)..(b + 1 + Len(n) - 1)
      <3>1. /\ \A a \in b..(b + Len(h) - 1) : a \in b..(b + NameMax)
            /\ \A a \in (b + 1)..(b + 1 + Len(n) - 1) : a \in b..(b + NameMax)
        <4> DEFINE H == Len(h)
                   N == Len(n)
        <4>1. H \in 1..2 /\ N \in 0..NameMax /\ b \in Nat /\ NameMax \in Nat \ {0}
          BY <1>1, <1>2, <1>4, <1>5
        <4> HIDE DEF H, N
        <4>2. /\ \A a \in b..(b + H - 1) : a \in b..(b + NameMax)
              /\ \A a \in (b + 1)..(b + 1 + N - 1) : a \in b..(b + NameMax)
          BY <4>1
        <4>3. QED  BY <4>2 DEF H, N
      <3>2. QED  BY <3>1
    <2>2. QED  BY <1>12, <1>14, <2>1
  <1>18. QED  BY <1>10, <1>11, <1>15, <1>16, <1>17 DEF Named, Area, b, t

\* What is not in its place stays: another name, the server, the log.
LEMMA NamedStays ==
  ASSUME NEW e, NEW w, NEW t, NEW j \in 1..3, NEW n \in Name, Named(e, w, j, n),
         \A a \in Area(j) : \A v : Leaves(e, w, a, v) => Leaves(e, t, a, v)
  PROVE  Named(e, t, j, n)
  <1>1. NameMax \in Nat /\ NameAt(j) \in Nat /\ Len(n) \in 0..NameMax
    <2>1. NameAt(j) \in Nat
      BY Places
    <2>2. NameMax \in Nat
      BY Layout
    <2>3. QED  BY <2>1, <2>2 DEF Name
  <1>2. NameAt(j) \in Area(j) /\ \A i \in 1..Len(n) : NameAt(j) + i \in Area(j)
    BY <1>1 DEF Area
  <1>3. QED  BY <1>2 DEF Named

LEMMA AreasApart ==
  ASSUME NEW j \in 1..3, NEW k \in 1..3, j # k, NEW a \in Area(j)
  PROVE  a \notin Area(k)
  <1>1. NameMax \in Nat /\ NameAt(j) \in Nat /\ NameAt(k) \in Nat
    BY Layout, Places
  <1>2. NameAt(j) + NameMax < NameAt(k) \/ NameAt(k) + NameMax < NameAt(j)
    BY Places
  <1>3. QED  BY <1>1, <1>2 DEF Area

NameTriple == {s \in Seq(Seq(Cells)) : Len(s) = 3 /\ \A k \in 1..3 : Len(s[k]) <= NameMax}

LEMMA TripleNames ==
  ASSUME NEW s \in NameTriple, NEW k \in 1..3
  PROVE  s[k] \in Name
  <1>1. s \in Seq(Seq(Cells)) /\ Len(s) = 3 /\ Len(s[k]) <= NameMax
    BY DEF NameTriple
  <1> DEFINE S == Seq(Cells)
  <1>2. s \in Seq(S) /\ k \in 1..Len(s)
    BY <1>1
  <1> HIDE DEF S
  <1>3. s[k] \in S
    BY <1>2
  <1>4. QED  BY <1>1, <1>3 DEF Name, S

\* All three names.
LEMMA ThreeNames ==
  ASSUME NEW e, NEW w, Valid(w), NEW s \in NameTriple,
         NEW x \in {PutName(1, s[1]), SaveName(1, s[1])},
         NEW y \in {PutName(2, s[2]), SaveName(2, s[2])},
         NEW z \in {PutName(3, s[3]), SaveName(3, s[3])}
  PROVE  /\ Valid(w \o x \o y \o z)
         /\ \A k \in 1..3 : Named(e, w \o x \o y \o z, k, s[k])
         /\ \A a, v : Leaves(e, w, a, v) /\ (\A k \in 1..3 : a \notin Area(k))
                        => Leaves(e, w \o x \o y \o z, a, v)
  <1>1. 1 \in 1..3 /\ 2 \in 1..3 /\ 3 \in 1..3
    OBVIOUS
  <1>2. s[1] \in Name /\ s[2] \in Name /\ s[3] \in Name
    BY <1>1, TripleNames
  <1> DEFINE t1 == w \o x
             t2 == t1 \o y
             t3 == t2 \o z
  <1>3. /\ Valid(t1) /\ Named(e, t1, 1, s[1])
        /\ \A a, v : Leaves(e, w, a, v) /\ a \notin Area(1) => Leaves(e, t1, a, v)
    BY <1>1, <1>2, NameLeaves
  <1> HIDE DEF t1
  <1>4. /\ Valid(t2) /\ Named(e, t2, 2, s[2])
        /\ \A a, v : Leaves(e, t1, a, v) /\ a \notin Area(2) => Leaves(e, t2, a, v)
    BY <1>1, <1>2, <1>3, NameLeaves
  <1> HIDE DEF t2
  <1>5. /\ Valid(t3) /\ Named(e, t3, 3, s[3])
        /\ \A a, v : Leaves(e, t2, a, v) /\ a \notin Area(3) => Leaves(e, t3, a, v)
    BY <1>1, <1>2, <1>4, NameLeaves
  <1> HIDE DEF t3
  <1>6. Named(e, t2, 1, s[1])
    <2>1. \A a \in Area(1) : a \notin Area(2)
      BY <1>1, AreasApart
    <2>2. QED  BY <1>1, <1>2, <1>3, <1>4, <2>1, NamedStays
  <1>7. Named(e, t3, 1, s[1]) /\ Named(e, t3, 2, s[2])
    <2>1. \A a \in Area(1) : a \notin Area(3)
      BY <1>1, AreasApart
    <2>2. \A a \in Area(2) : a \notin Area(3)
      BY <1>1, AreasApart
    <2>3. Named(e, t3, 1, s[1])
      BY <1>1, <1>2, <1>5, <1>6, <2>1, NamedStays
    <2>4. Named(e, t3, 2, s[2])
      BY <1>1, <1>2, <1>4, <1>5, <2>2, NamedStays
    <2>5. QED  BY <2>3, <2>4
  <1>8. \A k \in 1..3 : Named(e, t3, k, s[k])
    <2>1. \A k \in 1..3 : k = 1 \/ k = 2 \/ k = 3
      OBVIOUS
    <2>2. QED  BY <1>5, <1>7, <2>1
  <1>9. \A a, v : Leaves(e, w, a, v) /\ (\A k \in 1..3 : a \notin Area(k)) => Leaves(e, t3, a, v)
    BY <1>1, <1>3, <1>4, <1>5
  <1>10. QED  BY <1>5, <1>8, <1>9 DEF t1, t2, t3

NamesWill(e, w, s) == \A k \in 1..3 : Named(e, w, k, s[k])

\* The log g of length n, and that length in two bytes.
LogWill(e, w, n, g) ==
  /\ Len(g) = n /\ n <= LogMax
  /\ \E x, y \in 0..(Base - 1) : /\ Leaves(e, w, LengthAt, x) /\ Leaves(e, w, LengthAt + 1, y)
                                 /\ n = x + Base * y
  /\ \A i \in 1..n : Leaves(e, w, LogAt + i - 1, g[i])

\* Writes below the log leave it as it was.
LEMMA LogStays ==
  ASSUME NEW e, NEW w, NEW t, NEW n \in Nat, NEW g, LogWill(e, w, n, g),
         \A a, v : Leaves(e, w, a, v) /\ a \in Nat /\ a >= LengthAt => Leaves(e, t, a, v)
  PROVE  LogWill(e, t, n, g)
  <1>1. /\ LengthAt \in Nat /\ LengthAt + 1 \in Nat /\ LengthAt + 1 >= LengthAt
        /\ \A i \in 1..n : LogAt + i - 1 \in Nat /\ LogAt + i - 1 >= LengthAt
    BY Layout
  <1>2. QED  BY <1>1 DEF LogWill

LEMMA BelowLog ==
  ASSUME NEW a \in Nat, a >= LengthAt, NEW k \in 1..3
  PROVE  a \notin Area(k) /\ a \notin 0..1
  <1>1. NameAt(k) \in Nat /\ NameAt(k) + NameMax < LengthAt /\ LengthAt \in Nat /\ LengthAt > 1
        /\ NameMax \in Nat
    BY Places, Layout
  <1>2. QED  BY <1>1 DEF Area

\* The list is not empty.
LEMMA NotEmpty ==
  ASSUME NEW S, NEW v \in Seq(S), NEW w \in Seq(S), Len(v) > 0 \/ Len(w) > 0
  PROVE  v \o w # <<>>
  <1>1. Len(v \o w) = Len(v) + Len(w) /\ Len(v) \in Nat /\ Len(w) \in Nat
    BY ConcatProperties
  <1>2. Len(v \o w) # 0
    BY <1>1
  <1>3. QED  BY <1>2

LEMMA NameWrites ==
  ASSUME NEW k \in 1..3, NEW n \in Name, NEW x \in {PutName(k, n), SaveName(k, n)}
  PROVE  x \in Seq(Write) /\ x # <<>>
  <1> DEFINE h == IF x = PutName(k, n) THEN <<Len(n)>> ELSE Bytes(Len(n))
             p == Put(NameAt(k), h)
             q == Put(NameAt(k) + 1, n)
  <1>1. n \in Seq(Cells) /\ Len(n) \in 0..NameMax /\ Len(n) \in 0..(Base - 1)
    BY Layout DEF Name
  <1>2. h \in Seq(Cells) /\ Len(h) \in 1..2
    BY <1>1, OneByte
  <1>3. x = p \o q
    BY DEF PutName, SaveName
  <1>4. /\ NameAt(k) \in Nat /\ NameAt(k) + 1 \in Nat
        /\ NameAt(k) + Len(h) <= Size /\ NameAt(k) + 1 + Len(n) <= Size
    <2> DEFINE H == Len(h)
               N == Len(n)
    <2>1. H \in 1..2 /\ N \in 0..NameMax
      BY <1>1, <1>2
    <2>2. NameAt(k) \in Nat /\ NameAt(k) + NameMax < LengthAt
      BY Places
    <2>3. LengthAt \in Nat /\ LengthAt < Size /\ Size \in Nat /\ NameMax \in Nat \ {0}
      BY Layout
    <2> HIDE DEF H, N
    <2>4. /\ NameAt(k) \in Nat /\ NameAt(k) + 1 \in Nat
          /\ NameAt(k) + H <= Size /\ NameAt(k) + 1 + N <= Size
      BY <2>1, <2>2, <2>3
    <2>5. QED  BY <2>4 DEF H, N
  <1> HIDE DEF h
  <1>5. p \in Seq(Write) /\ q \in Seq(Write) /\ Len(p) = Len(h)
    BY <1>1, <1>2, <1>4, PutWrites
  <1> HIDE DEF p, q
  <1>6. Len(p) > 0
    BY <1>2, <1>5
  <1>7. p \o q \in Seq(Write)
    BY <1>5, ConcatProperties
  <1>8. p \o q # <<>>
    BY <1>5, <1>6, NotEmpty
  <1>9. QED  BY <1>3, <1>7, <1>8

\* "set mqtt", "save" and "init", and a boot that brings the defaults back: w
\* is what is written before the names.
LEMMA NamesWritten ==
  ASSUME NEW e, NEW w, Valid(w), NEW s \in NameTriple,
         NEW x \in {PutName(1, s[1]), SaveName(1, s[1])},
         NEW y \in {PutName(2, s[2]), SaveName(2, s[2])},
         NEW z \in {PutName(3, s[3]), SaveName(3, s[3])}
  PROVE  LET t == w \o x \o y \o z IN
         /\ Valid(t) /\ t # <<>> /\ NamesWill(e, t, s)
         /\ \A a, v : Leaves(e, w, a, v) /\ a \in Nat /\ a >= LengthAt => Leaves(e, t, a, v)
  <1> DEFINE t == w \o x \o y \o z
  <1>1. /\ Valid(t) /\ \A k \in 1..3 : Named(e, t, k, s[k])
        /\ \A a, v : Leaves(e, w, a, v) /\ (\A k \in 1..3 : a \notin Area(k)) => Leaves(e, t, a, v)
    BY ThreeNames, ZenonT(60)
  <1>2. t # <<>>
    <2>1. Valid(w \o x) /\ Valid(w \o x \o y)
      <3>1. 1 \in 1..3 /\ 2 \in 1..3 /\ s[1] \in Name /\ s[2] \in Name
        BY TripleNames
      <3>2. Valid(w \o x)
        BY <3>1, NameLeaves
      <3> DEFINE t1 == w \o x
      <3> HIDE DEF t1
      <3>3. Valid(t1)
        BY <3>2 DEF t1
      <3>4. Valid(t1 \o y)
        BY <3>1, <3>3, NameLeaves
      <3>5. QED  BY <3>2, <3>4 DEF t1
    <2>2. z \in Seq(Write) /\ z # <<>>
      <3>1. 3 \in 1..3 /\ s[3] \in Name
        BY TripleNames
      <3>2. QED  BY <3>1, NameWrites
    <2>3. w \o x \o y \in Seq(Write)
      BY <2>1 DEF Valid
    <2> DEFINE t2 == w \o x \o y
    <2> HIDE DEF t2
    <2>4. t2 \in Seq(Write)
      BY <2>3 DEF t2
    <2>5. Len(z) > 0
      BY <2>2
    <2>6. t2 \o z # <<>>
      BY <2>2, <2>4, <2>5, NotEmpty
    <2>7. QED  BY <2>6 DEF t2
  <1>3. \A a \in Nat : a >= LengthAt => \A k \in 1..3 : a \notin Area(k)
    BY BelowLog
  <1> HIDE DEF t
  <1>4. NamesWill(e, t, s)
    BY <1>1 DEF NamesWill
  <1>5. \A a, v : Leaves(e, w, a, v) /\ a \in Nat /\ a >= LengthAt => Leaves(e, t, a, v)
    BY <1>1, <1>3
  <1>6. QED  BY <1>1, <1>2, <1>4, <1>5 DEF t

LEMMA NoWrites == Valid(<<>>)
  BY DEF Valid

\* "set mqtt".
LEMMA SetMqttWrites ==
  ASSUME NEW e, NEW s \in NameTriple
  PROVE  LET t == PutName(1, s[1]) \o PutName(2, s[2]) \o PutName(3, s[3]) IN
         /\ Valid(t) /\ t # <<>> /\ NamesWill(e, t, s)
         /\ \A n \in Nat : \A g : LogWill(e, <<>>, n, g) => LogWill(e, t, n, g)
  <1> DEFINE x == PutName(1, s[1])
             y == PutName(2, s[2])
             z == PutName(3, s[3])
             t == x \o y \o z
  <1>1. /\ x \in {PutName(1, s[1]), SaveName(1, s[1])} /\ y \in {PutName(2, s[2]), SaveName(2, s[2])}
        /\ z \in {PutName(3, s[3]), SaveName(3, s[3])}
    OBVIOUS
  <1>2. <<>> \o x = x
    <2>1. 1 \in 1..3 /\ s[1] \in Name
      BY TripleNames
    <2>2. x \in Seq(Write)
      BY <1>1, <2>1, NameWrites
    <2>3. QED  BY <2>2, ConcatEmptySeq
  <1> HIDE DEF x, y, z
  <1>3. LET u == <<>> \o x \o y \o z IN
        /\ Valid(u) /\ u # <<>> /\ NamesWill(e, u, s)
        /\ \A a, v : Leaves(e, <<>>, a, v) /\ a \in Nat /\ a >= LengthAt => Leaves(e, u, a, v)
    BY <1>1, NoWrites, NamesWritten, ZenonT(60)
  <1>4. <<>> \o x \o y \o z = t
    BY <1>2
  <1> HIDE DEF t
  <1>5. /\ Valid(t) /\ t # <<>> /\ NamesWill(e, t, s)
        /\ \A a, v : Leaves(e, <<>>, a, v) /\ a \in Nat /\ a >= LengthAt => Leaves(e, t, a, v)
    BY <1>3, <1>4
  <1>6. \A n \in Nat : \A g : LogWill(e, <<>>, n, g) => LogWill(e, t, n, g)
    BY <1>5, LogStays
  <1>7. QED  BY <1>5, <1>6 DEF t, x, y, z

\* A server in two cells, below all that has a length.
LEMMA ServerWrites ==
  ASSUME NEW e, NEW s \in Cells \X Cells
  PROVE  /\ Valid(Put(0, s)) /\ Put(0, s) # <<>>
         /\ \A a, v : Leaves(e, <<>>, a, v) /\ a \notin 0..1 => Leaves(e, Put(0, s), a, v)
  <1>1. s \in Seq(Cells) /\ Len(s) = 2
    <2>1. PICK p \in Cells, q \in Cells : s = <<p, q>>
      OBVIOUS
    <2>2. <<p, q>> \in Seq(Cells) /\ Len(<<p, q>>) = 2
      OBVIOUS
    <2>3. QED  BY <2>1, <2>2
  <1>2. 0 + Len(s) <= Size /\ 0 \in Nat
    BY <1>1, Layout
  <1>3. Put(0, s) \in Seq(Write) /\ Len(Put(0, s)) = Len(s)
    BY <1>1, <1>2, PutWrites
  <1>4. <<>> \o Put(0, s) = Put(0, s)
    BY <1>3, ConcatEmptySeq
  <1>5. \A i \in 1..Len(s) : 0 + i - 1 \in Lengths => s[i] \in 0..(Base - 1)
    <2>1. \A i \in 1..Len(s) : 0 + i - 1 < 2
      BY <1>1
    <2>2. \A a \in Lengths : a >= 2
      BY Layout DEF Lengths
    <2>3. 2 \in Nat /\ \A a \in Lengths : a \in Nat
      BY Layout DEF Lengths
    <2>4. QED  BY <1>1, <2>1, <2>2, <2>3
  <1>6. Valid(<<>> \o Put(0, s))
    BY <1>1, <1>2, <1>5, NoWrites, PutValid
  <1>7. \A a, v : Leaves(e, <<>>, a, v) /\ a \notin 0..(0 + Len(s) - 1)
                    => Leaves(e, <<>> \o Put(0, s), a, v)
    <2>1. <<>> \in Seq(Write)
      OBVIOUS
    <2>2. QED  BY <1>1, <1>2, <2>1, PutLeaves
  <1>8. 0 + Len(s) - 1 = 1
    BY <1>1
  <1>9. Put(0, s) # <<>>
    <2> DEFINE p == Put(0, s)
    <2>1. Len(p) = 2
      BY <1>1, <1>3
    <2> HIDE DEF p
    <2>2. p # <<>>
      BY <2>1
    <2>3. QED  BY <2>2 DEF p
  <1>10. QED  BY <1>4, <1>6, <1>7, <1>8, <1>9

\* "set server".
LEMMA SetServerWrites ==
  ASSUME NEW e, NEW s \in Cells \X Cells
  PROVE  LET t == Put(0, s) IN
         /\ Valid(t) /\ t # <<>>
         /\ \A ns \in NameTriple : NamesWill(e, <<>>, ns) => NamesWill(e, t, ns)
         /\ \A n \in Nat : \A g : LogWill(e, <<>>, n, g) => LogWill(e, t, n, g)
  <1> DEFINE t == Put(0, s)
  <1>1. /\ Valid(t) /\ t # <<>>
        /\ \A a, v : Leaves(e, <<>>, a, v) /\ a \notin 0..1 => Leaves(e, t, a, v)
    BY ServerWrites
  <1> HIDE DEF t
  <1>2. ASSUME NEW ns \in NameTriple, NamesWill(e, <<>>, ns) PROVE NamesWill(e, t, ns)
    <2>1. ASSUME NEW k \in 1..3 PROVE Named(e, t, k, ns[k])
      <3>1. ns[k] \in Name /\ Named(e, <<>>, k, ns[k])
        BY <1>2, TripleNames DEF NamesWill
      <3>2. \A a \in Area(k) : a \notin 0..1
        <4>1. NameAt(k) \in Nat /\ NameAt(k) >= 2 /\ NameMax \in Nat
          BY Places, Layout
        <4>2. QED  BY <4>1 DEF Area
      <3>3. QED  BY <1>1, <3>1, <3>2, NamedStays
    <2>2. QED  BY <2>1 DEF NamesWill
  <1>3. \A n \in Nat : \A g : LogWill(e, <<>>, n, g) => LogWill(e, t, n, g)
    <2>1. 1 \in 1..3 /\ \A a \in Nat : a >= LengthAt => a \notin 0..1
      BY BelowLog
    <2>2. QED  BY <1>1, <2>1, LogStays
  <1>4. QED  BY <1>1, <1>2, <1>3 DEF t

\* "save" and "init".
LEMMA SaveWrites ==
  ASSUME NEW e, NEW sv \in Cells \X Cells, NEW s \in NameTriple
  PROVE  LET t == SaveConfig(sv, s) IN
         /\ Valid(t) /\ t # <<>> /\ NamesWill(e, t, s)
         /\ \A n \in Nat : \A g : LogWill(e, <<>>, n, g) => LogWill(e, t, n, g)
  <1> DEFINE w == Put(0, sv)
             x == SaveName(1, s[1])
             y == SaveName(2, s[2])
             z == SaveName(3, s[3])
             t == w \o x \o y \o z
  <1>1. /\ Valid(w)
        /\ \A a, v : Leaves(e, <<>>, a, v) /\ a \notin 0..1 => Leaves(e, w, a, v)
    BY ServerWrites
  <1>2. /\ x \in {PutName(1, s[1]), SaveName(1, s[1])} /\ y \in {PutName(2, s[2]), SaveName(2, s[2])}
        /\ z \in {PutName(3, s[3]), SaveName(3, s[3])}
    OBVIOUS
  <1>3. SaveConfig(sv, s) = t
    BY DEF SaveConfig
  <1> HIDE DEF w, x, y, z
  <1>4. /\ Valid(t) /\ t # <<>> /\ NamesWill(e, t, s)
        /\ \A a, v : Leaves(e, w, a, v) /\ a \in Nat /\ a >= LengthAt => Leaves(e, t, a, v)
    BY <1>1, <1>2, NamesWritten, ZenonT(60)
  <1> HIDE DEF t
  <1>5. 1 \in 1..3 /\ \A a \in Nat : a >= LengthAt => a \notin 0..1
    BY BelowLog
  <1>6. \A n \in Nat : \A g : LogWill(e, <<>>, n, g) => LogWill(e, t, n, g)
    BY <1>1, <1>4, <1>5, LogStays
  <1>7. QED  BY <1>3, <1>4, <1>6

\* A length in two bytes.
LEMMA LengthWrites ==
  ASSUME NEW e, NEW w, Valid(w), NEW n \in 0..LogMax
  PROVE  LET t == w \o Put(LengthAt, Bytes(n)) IN
         /\ Valid(t)
         /\ \E x, y \in 0..(Base - 1) : /\ Leaves(e, t, LengthAt, x) /\ Leaves(e, t, LengthAt + 1, y)
                                        /\ n = x + Base * y
         /\ \A a, v : Leaves(e, w, a, v) /\ a \notin LengthAt..(LengthAt + 1) => Leaves(e, t, a, v)
  <1> DEFINE s == Bytes(n)
             t == w \o Put(LengthAt, s)
  <1>1. /\ s \in Seq(Cells) /\ Len(s) = 2 /\ \A i \in 1..2 : s[i] \in 0..(Base - 1)
        /\ n = s[1] + Base * s[2]
    BY FitsTwoBytes, TwoBytes
  <1> HIDE DEF s
  <1>2. LengthAt \in Nat /\ LengthAt + 2 <= Size
    BY Layout
  <1>3. LengthAt + Len(s) <= Size
    BY <1>1, <1>2
  <1>4. Valid(t)
    BY <1>1, <1>2, <1>3, PutValid
  <1>5. w \in Seq(Write)
    BY DEF Valid
  <1>6. /\ \A i \in 1..Len(s) : Leaves(e, t, LengthAt + i - 1, s[i])
        /\ \A a, v : Leaves(e, w, a, v) /\ a \notin LengthAt..(LengthAt + Len(s) - 1) => Leaves(e, t, a, v)
    BY <1>1, <1>2, <1>3, <1>5, PutLeaves
  <1> HIDE DEF t
  <1>7. Leaves(e, t, LengthAt, s[1]) /\ Leaves(e, t, LengthAt + 1, s[2])
    <2>1. LengthAt + 1 - 1 = LengthAt /\ LengthAt + 2 - 1 = LengthAt + 1
      BY <1>2
    <2>2. 1 \in 1..Len(s) /\ 2 \in 1..Len(s)
      BY <1>1
    <2>3. Leaves(e, t, LengthAt + 1 - 1, s[1]) /\ Leaves(e, t, LengthAt + 2 - 1, s[2])
      BY <1>6, <2>2
    <2>4. QED  BY <2>1, <2>3
  <1>8. LengthAt + Len(s) - 1 = LengthAt + 1
    BY <1>1, <1>2
  <1>9. s[1] \in 0..(Base - 1) /\ s[2] \in 0..(Base - 1) /\ n = s[1] + Base * s[2]
    BY <1>1
  <1>10. QED  BY <1>4, <1>6, <1>7, <1>8, <1>9 DEF t, s

\* Names stay when the log and its length are written.
LEMMA NamesStay ==
  ASSUME NEW e, NEW w, NEW t, NEW s \in NameTriple, NamesWill(e, w, s),
         \A a, v : Leaves(e, w, a, v) /\ a \in Nat /\ a < LengthAt => Leaves(e, t, a, v)
  PROVE  NamesWill(e, t, s)
  <1>1. ASSUME NEW k \in 1..3 PROVE Named(e, t, k, s[k])
    <2>1. s[k] \in Name /\ Named(e, w, k, s[k])
      BY TripleNames DEF NamesWill
    <2>2. \A a \in Area(k) : a \in Nat /\ a < LengthAt
      <3>1. /\ NameAt(k) \in Nat /\ NameAt(k) + NameMax < LengthAt /\ NameMax \in Nat /\ LengthAt \in Nat
        BY Places, Layout
      <3>2. QED  BY <3>1 DEF Area
    <2>3. QED  BY <2>1, <2>2, NamedStays
  <1>2. QED  BY <1>1 DEF NamesWill

\* The defaults, and an empty log.
LEMMA FormatWrites ==
  ASSUME NEW e, NEW s \in NameTriple
  PROVE  LET t == PutName(1, s[1]) \o PutName(2, s[2]) \o PutName(3, s[3]) \o Put(LengthAt, Bytes(0)) IN
         /\ Valid(t) /\ t # <<>> /\ NamesWill(e, t, s) /\ LogWill(e, t, 0, <<>>)
  <1> DEFINE w == PutName(1, s[1]) \o PutName(2, s[2]) \o PutName(3, s[3])
             p == Put(LengthAt, Bytes(0))
             t == w \o p
  <1>1. Valid(w) /\ w # <<>> /\ NamesWill(e, w, s)
    BY SetMqttWrites
  <1> HIDE DEF w
  <1>2. 0 \in 0..LogMax
    BY Layout
  <1>3. /\ Valid(t)
        /\ \E x, y \in 0..(Base - 1) : /\ Leaves(e, t, LengthAt, x) /\ Leaves(e, t, LengthAt + 1, y)
                                       /\ 0 = x + Base * y
        /\ \A a, v : Leaves(e, w, a, v) /\ a \notin LengthAt..(LengthAt + 1) => Leaves(e, t, a, v)
    BY <1>1, <1>2, LengthWrites
  <1>4. t # <<>>
    <2>1. w \in Seq(Write) /\ Len(w) > 0
      BY <1>1 DEF Valid
    <2>2. p \in Seq(Write)
      <3>1. Bytes(0) \in Seq(Cells) /\ Len(Bytes(0)) = 2 /\ LengthAt \in Nat /\ LengthAt + 2 <= Size
        BY <1>2, FitsTwoBytes, TwoBytes, Layout
      <3>2. QED  BY <3>1, PutWrites
    <2> HIDE DEF p
    <2>3. QED  BY <2>1, <2>2, NotEmpty
  <1> HIDE DEF t
  <1>5. NamesWill(e, t, s)
    <2>1. \A a \in Nat : a < LengthAt => a \notin LengthAt..(LengthAt + 1)
      BY Layout
    <2>2. QED  BY <1>1, <1>3, <2>1, NamesStay
  <1>6. LogWill(e, t, 0, <<>>)
    BY <1>2, <1>3 DEF LogWill
  <1>7. QED  BY <1>1, <1>3, <1>4, <1>5, <1>6 DEF t, p, w

\* A length that fits does not wrap around.
LEMMA LongerFits ==
  ASSUME NEW m, cmd_length + m \in 0..LogMax
  PROVE  Longer(m) = cmd_length + m
  <1> DEFINE n == cmd_length + m
             y == Base * Base
  <1>1. n \in 0..(y - 1)
    BY FitsTwoBytes
  <1>2. y \in Nat \ {0}
    <2>1. \A b \in Nat \ {0} : b * b \in Nat \ {0}
      OBVIOUS
    <2>2. QED  BY <2>1, Layout
  <1> HIDE DEF n, y
  <1>3. n % y = n
    BY <1>1, <1>2
  <1>4. QED  BY <1>3 DEF Longer, n, y

\* save_cmd.
LEMMA SaveCmdWrites ==
  ASSUME NEW e, cmd_length \in Nat, NEW line \in Seq(Cells), line # <<>>,
         cmd_length + Len(line) <= LogMax
  PROVE  LET t == SaveCmd(line) IN
         /\ Valid(t) /\ t # <<>>
         /\ \A s \in NameTriple : NamesWill(e, <<>>, s) => NamesWill(e, t, s)
         /\ \A g \in Seq(Cells) : LogWill(e, <<>>, cmd_length, g)
                                    => LogWill(e, t, cmd_length + Len(line), g \o line)
  <1> DEFINE n == cmd_length
             m == Len(line)
             w == Put(LengthAt, Bytes(n + m))
             p == Put(LogAt + n, line)
             t == w \o p
  <1>1. SaveCmd(line) = t
    <2>1. n + m \in 0..LogMax /\ n + m \in Nat
      <3>1. n \in Nat /\ m \in Nat /\ n + m <= LogMax /\ LogMax \in Nat
        BY Layout
      <3> HIDE DEF n, m
      <3>2. QED  BY <3>1
    <2>2. Longer(m) = n + m
      BY <2>1, LongerFits
    <2>3. QED  BY <2>2 DEF SaveCmd
  <1>2. /\ n \in Nat /\ m \in Nat /\ m > 0 /\ n + m \in 0..LogMax /\ LengthAt \in Nat /\ LogAt \in Nat
        /\ LogAt = LengthAt + 2 /\ LogAt + n \in Nat /\ LogAt + n + m <= Size /\ LengthAt + 2 <= Size
    <2>1. n \in Nat /\ m \in Nat /\ m > 0 /\ n + m <= LogMax
      OBVIOUS
    <2> HIDE DEF n, m
    <2>2. QED  BY <2>1, Layout
  <1>3. w \in Seq(Write)
    <2>1. Bytes(n + m) \in Seq(Cells) /\ Len(Bytes(n + m)) = 2
      BY <1>2, FitsTwoBytes, TwoBytes
    <2>2. QED  BY <1>2, <2>1, PutWrites
  <1>4. <<>> \o w = w
    BY <1>3, ConcatEmptySeq
  <1>5. /\ Valid(w)
        /\ \E x, y \in 0..(Base - 1) : /\ Leaves(e, w, LengthAt, x) /\ Leaves(e, w, LengthAt + 1, y)
                                       /\ n + m = x + Base * y
        /\ \A a, v : Leaves(e, <<>>, a, v) /\ a \notin LengthAt..(LengthAt + 1) => Leaves(e, w, a, v)
    <2> HIDE DEF n, m
    <2>1. LET u == <<>> \o Put(LengthAt, Bytes(n + m)) IN
          /\ Valid(u)
          /\ \E x, y \in 0..(Base - 1) : /\ Leaves(e, u, LengthAt, x) /\ Leaves(e, u, LengthAt + 1, y)
                                         /\ n + m = x + Base * y
          /\ \A a, v : Leaves(e, <<>>, a, v) /\ a \notin LengthAt..(LengthAt + 1) => Leaves(e, u, a, v)
      BY <1>2, NoWrites, LengthWrites
    <2> HIDE DEF w
    <2>2. QED  BY <1>4, <2>1 DEF w
  <1> HIDE DEF w
  <1>6. Valid(t)
    <2>1. \A i \in 1..Len(line) : LogAt + n + i - 1 \notin Lengths
      <3>1. \A a \in Lengths : a \in Nat /\ a < LogAt
        BY Layout DEF Lengths
      <3>2. \A i \in 1..m : LogAt + n + i - 1 \in Nat /\ ~(LogAt + n + i - 1 < LogAt)
        <4> HIDE DEF n, m
        <4>1. QED  BY <1>2
      <3>3. QED  BY <3>1, <3>2
    <2>2. QED  BY <1>2, <1>5, <2>1, PutValid
  <1>7. /\ \A i \in 1..m : Leaves(e, t, LogAt + n + i - 1, line[i])
        /\ \A a, v : Leaves(e, w, a, v) /\ a \notin (LogAt + n)..(LogAt + n + m - 1) => Leaves(e, t, a, v)
    BY <1>2, <1>3, PutLeaves
  <1>8. t # <<>>
    <2>1. p \in Seq(Write) /\ Len(p) = m
      BY <1>2, PutWrites
    <2> HIDE DEF p
    <2>2. Len(p) > 0
      BY <1>2, <2>1
    <2>3. QED  BY <1>3, <2>1, <2>2, NotEmpty
  <1> HIDE DEF t, n, m
  <1>9. ASSUME NEW s \in NameTriple, NamesWill(e, <<>>, s) PROVE NamesWill(e, t, s)
    <2>1. \A a \in Nat : a < LengthAt => a \notin LengthAt..(LengthAt + 1) /\ a \notin (LogAt + n)..(LogAt + n + m - 1)
      BY <1>2
    <2>2. QED  BY <1>5, <1>7, <1>9, <2>1, NamesStay
  <1>10. ASSUME NEW g \in Seq(Cells), LogWill(e, <<>>, n, g)
         PROVE  LogWill(e, t, n + m, g \o line)
    <2> DEFINE h == g \o line
    <2>1. Len(g) = n /\ \A i \in 1..n : Leaves(e, <<>>, LogAt + i - 1, g[i])
      BY <1>10 DEF LogWill
    <2>2. /\ Len(h) = n + m
          /\ \A i \in 1..(n + m) : h[i] = IF i <= n THEN g[i] ELSE line[i - n]
      BY <2>1, ConcatProperties DEF m
    <2> HIDE DEF h
    <2>3. \E x, y \in 0..(Base - 1) : /\ Leaves(e, t, LengthAt, x) /\ Leaves(e, t, LengthAt + 1, y)
                                      /\ n + m = x + Base * y
      <3>1. LengthAt \notin (LogAt + n)..(LogAt + n + m - 1) /\ LengthAt + 1 \notin (LogAt + n)..(LogAt + n + m - 1)
        BY <1>2
      <3>2. QED  BY <1>5, <1>7, <3>1
    <2>4. ASSUME NEW i \in 1..(n + m) PROVE Leaves(e, t, LogAt + i - 1, h[i])
      <3>1. CASE i <= n
        <4>1. /\ i \in 1..n /\ LogAt + i - 1 \notin LengthAt..(LengthAt + 1)
              /\ LogAt + i - 1 \notin (LogAt + n)..(LogAt + n + m - 1)
          BY <1>2, <3>1
        <4>2. h[i] = g[i]
          BY <2>2, <3>1
        <4>3. QED  BY <1>5, <1>7, <2>1, <4>1, <4>2
      <3>2. CASE ~(i <= n)
        <4>1. i - n \in 1..m /\ LogAt + n + (i - n) - 1 = LogAt + i - 1
          BY <1>2, <3>2
        <4>2. h[i] = line[i - n]
          BY <2>2, <3>2
        <4>3. Leaves(e, t, LogAt + n + (i - n) - 1, line[i - n])
          BY <1>7, <4>1
        <4>4. QED  BY <4>1, <4>2, <4>3
      <3>3. QED  BY <3>1, <3>2
    <2>5. n + m <= LogMax
      BY <1>2
    <2>6. QED  BY <2>2, <2>3, <2>4, <2>5 DEF LogWill, h
  <1>11. QED  BY <1>1, <1>6, <1>8, <1>9, <1>10 DEF n, m

-----------------------------------------------------------------------------
(* Writing and reading back.                                               *)

\* A byte is written: the rest of the list leaves the same.
LEMMA ByteWritten ==
  ASSUME NEW e \in Memory, NEW w, Valid(w), w # <<>>
  PROVE  LET f == [e EXCEPT ![w[1].at] = w[1].val]
             t == Tail(w) IN
         /\ f \in Memory /\ Valid(t)
         /\ \A s : NamesWill(e, w, s) => NamesWill(f, t, s)
         /\ \A n, g : LogWill(e, w, n, g) => LogWill(f, t, n, g)
  <1> DEFINE f == [e EXCEPT ![w[1].at] = w[1].val]
             t == Tail(w)
  <1>1. w \in Seq(Write) /\ Len(w) \in Nat \ {0} /\ \A i \in 1..Len(w) : w[i].at \in Lengths => w[i].val \in 0..(Base - 1)
    BY DEF Valid
  <1>2. f \in Memory
    <2>1. w[1] \in Write /\ 1 \in 1..Len(w)
      BY <1>1
    <2>2. w[1].at \in 0..(Size - 1) /\ w[1].val \in Cells
      BY <2>1 DEF Write
    <2>3. e \in [0..(Size - 1) -> Cells] /\ \A a \in Lengths : e[a] \in 0..(Base - 1)
      BY DEF Memory
    <2>4. w[1].at \in Lengths => w[1].val \in 0..(Base - 1)
      BY <1>1, <2>1
    <2> DEFINE x == w[1].at
               y == w[1].val
    <2> HIDE DEF x, y
    <2>5. x \in 0..(Size - 1) /\ y \in Cells /\ (x \in Lengths => y \in 0..(Base - 1))
      BY <2>2, <2>4 DEF x, y
    <2>6. [e EXCEPT ![x] = y] \in [0..(Size - 1) -> Cells]
      BY <2>3, <2>5
    <2>7. Lengths \subseteq 0..(Size - 1)
      BY Layout DEF Lengths
    <2>8. \A a \in Lengths : [e EXCEPT ![x] = y][a] \in 0..(Base - 1)
      BY <2>3, <2>5, <2>7
    <2>9. QED  BY <2>6, <2>8 DEF Memory, x, y
  <1>3. Valid(t)
    <2>1. t \in Seq(Write) /\ Len(t) = Len(w) - 1 /\ \A i \in 1..Len(t) : t[i] = w[i + 1] /\ i + 1 \in 1..Len(w)
      BY <1>1
    <2> HIDE DEF t
    <2>2. QED  BY <1>1, <2>1 DEF Valid
  <1>4. \A a, v : Leaves(e, w, a, v) => Leaves(f, t, a, v)
    BY <1>1, FirstWritten
  <1> HIDE DEF f, t
  <1>5. \A s : NamesWill(e, w, s) => NamesWill(f, t, s)
    BY <1>4 DEF NamesWill, Named
  <1>6. ASSUME NEW n, NEW g, LogWill(e, w, n, g) PROVE LogWill(f, t, n, g)
    BY <1>4, <1>6 DEF LogWill
  <1>7. QED  BY <1>2, <1>3, <1>5, <1>6 DEF f, t

LEMMA NamesThere ==
  ASSUME NEW e \in Memory, NEW s \in NameTriple, NamesWill(e, <<>>, s), NEW k \in 1..3
  PROVE  e[NameAt(k)] = Len(s[k]) /\ \A i \in 1..Len(s[k]) : e[NameAt(k) + i] = s[k][i]
  <1>1. Named(e, <<>>, k, s[k]) /\ s[k] \in Name
    BY TripleNames DEF NamesWill
  <1>2. Len(s[k]) \in 0..NameMax /\ DOMAIN e = 0..(Size - 1)
    BY <1>1 DEF Memory, Name
  <1> DEFINE N == Len(s[k])
  <1> HIDE DEF N
  <1>3. N \in 0..NameMax
    BY <1>2 DEF N
  <1>4. NameAt(k) \in Nat /\ NameAt(k) + NameMax < LengthAt
    BY Places
  <1>5. LengthAt \in Nat /\ LengthAt < Size /\ Size \in Nat /\ NameMax \in Nat
    BY Layout
  <1>6. NameAt(k) \in 0..(Size - 1) /\ \A i \in 1..N : NameAt(k) + i \in 0..(Size - 1)
    BY <1>3, <1>4, <1>5
  <1>7. CellOf(e, NameAt(k)) = Len(s[k]) /\ \A i \in 1..N : CellOf(e, NameAt(k) + i) = s[k][i]
    BY <1>1, NothingWritten DEF Named, N
  <1>8. QED  BY <1>2, <1>6, <1>7 DEF CellOf, N

\* A cell that holds a byte reads as that byte.
LEMMA ByteCode ==
  ASSUME NEW n \in 0..(Base - 1)
  PROVE  Code[n] = n
  BY StoreAssumption

\* What a boot reads of names it believes.
LEMMA NamesReadBack ==
  ASSUME NEW s \in NameTriple, NamesWill(ee, <<>>, s), ee \in Memory, NEW k \in 1..3, Len(s[k]) < NameMax
  PROVE  ReadName(k) = s[k]
  <1>1. ee[NameAt(k)] = Len(s[k]) /\ \A i \in 1..Len(s[k]) : ee[NameAt(k) + i] = s[k][i]
    BY NamesThere
  <1>2. s[k] \in Seq(Cells)
    BY TripleNames DEF Name
  <1> DEFINE n == s[k]
  <1> HIDE DEF n
  <1>3. n \in Seq(Cells) /\ ee[NameAt(k)] = Len(n) /\ Len(n) < NameMax /\ \A i \in 1..Len(n) : ee[NameAt(k) + i] = n[i]
    BY <1>1, <1>2 DEF n
  <1>4. ReadName(k) = [i \in 1..Len(n) |-> ee[NameAt(k) + i]]
    <2>1. Code[ee[NameAt(k)]] = Len(n)
      BY <1>3, ByteCode, Places DEF Memory
    <2>2. QED  BY <1>3, <2>1 DEF ReadName
  <1>5. n = [i \in 1..Len(n) |-> n[i]]
    BY <1>3
  <1>6. QED  BY <1>3, <1>4, <1>5 DEF n

\* A name that a boot reads is there.
LEMMA ReadNamed ==
  ASSUME ee \in Memory, NEW k \in 1..3, ReadName(k) # <<>>
  PROVE  ReadName(k) \in Name /\ Named(ee, <<>>, k, ReadName(k))
  <1> DEFINE N == ee[NameAt(k)]
             n == [i \in 1..N |-> ee[NameAt(k) + i]]
  <1>1. N \in 0..(Base - 1) /\ Base \in Nat
    BY Places, Layout DEF Memory
  <1>2. N < NameMax /\ ReadName(k) = n
    <2>1. Code[N] = N
      BY <1>1, ByteCode
    <2> HIDE DEF N
    <2>2. N = ee[NameAt(k)]
      BY DEF N
    <2>3. QED  BY <2>1, <2>2 DEF ReadName
  <1>3. NameAt(k) \in Nat /\ NameAt(k) + NameMax < LengthAt
    BY Places
  <1>4. LengthAt \in Nat /\ LengthAt < Size /\ Size \in Nat /\ NameMax \in Nat
    BY Layout
  <1>5. ee \in [0..(Size - 1) -> Cells]
    BY DEF Memory
  <1> HIDE DEF N
  <1>6. NameAt(k) \in 0..(Size - 1) /\ \A i \in 1..N : NameAt(k) + i \in 0..(Size - 1)
    BY <1>1, <1>2, <1>3, <1>4
  <1>7. n \in Seq(Cells) /\ Len(n) = N /\ \A i \in 1..N : n[i] = ee[NameAt(k) + i]
    BY <1>1, <1>5, <1>6
  <1> HIDE DEF n
  <1>8. N <= NameMax
    BY <1>1, <1>2, <1>4
  <1>9. CellOf(ee, NameAt(k)) = Len(n) /\ \A i \in 1..Len(n) : CellOf(ee, NameAt(k) + i) = n[i]
    BY <1>5, <1>6, <1>7 DEF CellOf, N
  <1>10. Named(ee, <<>>, k, n)
    BY <1>9, NothingWritten DEF Named
  <1>11. QED  BY <1>2, <1>7, <1>8, <1>10 DEF Name

LEMMA LengthThere ==
  ASSUME ee \in Memory
  PROVE  /\ CellOf(ee, LengthAt) = ee[LengthAt] /\ CellOf(ee, LengthAt + 1) = ee[LengthAt + 1]
         /\ ee[LengthAt] \in 0..(Base - 1) /\ ee[LengthAt + 1] \in 0..(Base - 1)
         /\ StoredLength = ee[LengthAt] + Base * ee[LengthAt + 1]
  <1>1. LengthAt \in 0..(Size - 1) /\ LengthAt + 1 \in 0..(Size - 1)
    BY Layout
  <1>2. ee[LengthAt] \in 0..(Base - 1) /\ ee[LengthAt + 1] \in 0..(Base - 1)
    BY DEF Memory, Lengths
  <1>3. DOMAIN ee = 0..(Size - 1)
    BY DEF Memory
  <1>4. StoredLength = ee[LengthAt] + Base * ee[LengthAt + 1]
    BY <1>2, ByteCode DEF StoredLength
  <1>5. QED  BY <1>1, <1>2, <1>3, <1>4 DEF CellOf

\* The log's own cells are read where they lie.
LEMMA CellInside ==
  ASSUME ee \in Memory, NEW i \in 1..LogMax
  PROVE  /\ Cell(LogAt + i - 1) = ee[LogAt + i - 1] /\ CellOf(ee, LogAt + i - 1) = ee[LogAt + i - 1]
         /\ LogAt + i - 1 \in 0..(Size - 1)
  <1> DEFINE a == LogAt + i - 1
  <1>1. a \in 0..(Size - 1) /\ Size \in Nat \ {0}
    BY Layout
  <1> HIDE DEF a
  <1>2. a % Size = a
    BY <1>1
  <1>3. DOMAIN ee = 0..(Size - 1)
    BY DEF Memory
  <1>4. QED  BY <1>1, <1>2, <1>3 DEF a, Cell, CellOf

\* What a boot reads of the log.
LEMMA LogReadBack ==
  ASSUME NEW n \in Nat, NEW g \in Seq(Cells), LogWill(ee, <<>>, n, g), ee \in Memory
  PROVE  n = StoredLength /\ LogCells(n) = g /\ n <= LogMax
  <1>1. n = StoredLength
    <2>1. PICK x \in 0..(Base - 1), y \in 0..(Base - 1) :
            CellOf(ee, LengthAt) = x /\ CellOf(ee, LengthAt + 1) = y /\ n = x + Base * y
      BY NothingWritten DEF LogWill
    <2>2. QED  BY <2>1, LengthThere
  <1>2. Len(g) = n /\ n <= LogMax /\ \A i \in 1..n : CellOf(ee, LogAt + i - 1) = g[i]
    BY NothingWritten DEF LogWill
  <1>3. \A i \in 1..n : i \in 1..LogMax
    BY <1>2, Layout
  <1>4. \A i \in 1..n : Cell(LogAt + i - 1) = g[i]
    BY <1>2, <1>3, CellInside
  <1>5. g = [i \in 1..n |-> g[i]]
    BY <1>2
  <1>6. LogCells(n) = g
    BY <1>4, <1>5 DEF LogCells
  <1>7. QED  BY <1>1, <1>2, <1>6

\* A cell is read, wherever its address lies.
LEMMA CellType ==
  ASSUME ee \in [0..(Size - 1) -> Cells], NEW a \in Nat
  PROVE  Cell(a) \in Cells
  <1>1. Size \in Nat \ {0}
    BY Layout
  <1>2. a % Size \in 0..(Size - 1)
    BY <1>1, DivMod
  <1>3. QED  BY <1>2 DEF Cell

LEMMA LengthType ==
  ASSUME ee \in [0..(Size - 1) -> Cells]
  PROVE  StoredLength \in 0..(Base * Base - 1) /\ StoredLength \in Nat
  <1>1. LengthAt \in 0..(Size - 1) /\ LengthAt + 1 \in 0..(Size - 1)
    BY Layout
  <1>2. ee[LengthAt] \in Cells /\ ee[LengthAt + 1] \in Cells
    BY <1>1
  <1>3. Code[ee[LengthAt]] \in 0..(Base - 1) /\ Code[ee[LengthAt + 1]] \in 0..(Base - 1)
    BY <1>2, StoreAssumption
  <1>4. \A b \in Nat \ {0} : \A x, y \in 0..(b - 1) : x + b * y \in 0..(b * b - 1) /\ x + b * y \in Nat
    <2> SUFFICES ASSUME NEW b \in Nat \ {0}, NEW x \in 0..(b - 1), NEW y \in 0..(b - 1)
                 PROVE  x + b * y \in 0..(b * b - 1) /\ x + b * y \in Nat
      OBVIOUS
    <2>1. b * y <= b * (b - 1) /\ b * y \in Nat
      OBVIOUS
    <2>2. b * (b - 1) = b * b - b /\ b * b \in Nat
      OBVIOUS
    <2>3. QED  BY <2>1, <2>2
  <1>5. QED  BY <1>3, <1>4, Layout DEF StoredLength

LEMMA LogType ==
  ASSUME ee \in [0..(Size - 1) -> Cells], NEW n \in Nat
  PROVE  LogCells(n) \in Seq(Cells) /\ Len(LogCells(n)) = n
  <1>1. \A i \in 1..n : LogAt + i - 1 \in Nat
    BY Layout
  <1>2. \A i \in 1..n : Cell(LogAt + i - 1) \in Cells
    BY <1>1, CellType
  <1>3. QED  BY <1>2 DEF LogCells

LEMMA LogRead ==
  ASSUME ee \in Memory, StoredLength <= LogMax
  PROVE  /\ LogCells(StoredLength) \in Seq(Cells)
         /\ LogWill(ee, <<>>, StoredLength, LogCells(StoredLength))
  <1> DEFINE n == StoredLength
             g == LogCells(n)
  <1>1. n \in Nat /\ n = ee[LengthAt] + Base * ee[LengthAt + 1] /\ n <= LogMax
    BY LengthThere, LengthType DEF Memory
  <1> HIDE DEF n
  <1>2. g = [i \in 1..n |-> Cell(LogAt + i - 1)]
    BY DEF LogCells
  <1>3. g \in Seq(Cells) /\ Len(g) = n
    BY <1>1, LogType DEF Memory
  <1>4. \A i \in 1..n : i \in 1..LogMax
    BY <1>1, Layout
  <1>5. \A i \in 1..n : CellOf(ee, LogAt + i - 1) = g[i]
    BY <1>2, <1>4, CellInside
  <1> HIDE DEF g
  <1>6. LogWill(ee, <<>>, n, g)
    BY <1>1, <1>3, <1>5, LengthThere, NothingWritten DEF LogWill
  <1>7. QED  BY <1>3, <1>6 DEF g, n

-----------------------------------------------------------------------------
(* The invariant.                                                          *)

\* What the log is to hold when the writes in progress are done.
Target == IF job = "format" THEN <<>> ELSE text \o saving

Types == /\ TypeOK /\ ee \in Memory /\ Valid(todo)
         /\ text \in Seq(Cells) /\ saving \in Seq(Cells)

Busy == /\ pc = "write" <=> todo # <<>>
        /\ pc # "write" => job = "none"
        /\ job # "log" => saving = <<>>
        /\ job = "reset" => names = NoNames

\* Without power: the log is what it should be, or it is longer than its cells,
\* or a boot will empty it.
Booting == pc = "boot" => \/ StoredLength > LogMax
                          \/ text = LogCells(StoredLength)
                          \/ \E k \in 1..3 : ReadName(k) = <<>>

\* With power: the writes in progress end with what RAM says, except for names
\* that a replayed "set" has put there.
Promised == pc # "boot" => /\ set \notin obeyed \/ job = "reset" => NamesWill(ee, todo, names)
                           /\ LogWill(ee, todo, cmd_length, Target)

SInv == Types /\ Busy /\ Booting /\ Promised

LEMMA NamesType ==
  ASSUME NEW s
  PROVE  s \in NameTriple <=> s \in Seq(Seq(Cells)) /\ Len(s) = 3 /\ \A k \in 1..3 : Len(s[k]) <= NameMax
  BY DEF NameTriple

LEMMA NoNamesType == NoNames \in NameTriple
  <1>1. <<>> \in Seq(Cells)
    OBVIOUS
  <1> DEFINE S == Seq(Cells)
             x == <<>>
  <1>2. x \in S /\ Len(x) = 0
    BY <1>1
  <1> HIDE DEF S, x
  <1>3. <<x, x, x>> \in Seq(S) /\ Len(<<x, x, x>>) = 3 /\ \A k \in 1..3 : <<x, x, x>>[k] = x
    BY <1>2
  <1>4. \A k \in 1..3 : Len(<<x, x, x>>[k]) <= NameMax
    BY <1>2, <1>3, Layout
  <1>5. QED  BY <1>3, <1>4, NamesType DEF NoNames, S, x

LEMMA DefaultsType ==
  ASSUME NEW s \in NameSets \cup {DefaultNames}
  PROVE  s \in NameTriple
  <1>1. s \in Seq(Seq(Cells)) /\ Len(s) = 3 /\ \A k \in 1..3 : Len(s[k]) \in 1..NameMax
    BY StoreAssumption
  <1>2. \A k \in 1..3 : Len(s[k]) <= NameMax
    BY <1>1, Layout
  <1>3. QED  BY <1>1, <1>2, NamesType

LEMMA CommandCells ==
  ASSUME NEW c \in Typed
  PROVE  c \o <<Cr, Lf>> \in Seq(Cells) /\ c \o <<Cr, Lf>> # <<>>
  <1>1. Cr \in Cells /\ Lf \in Cells /\ Typed \subseteq Seq(Cells \ {Cr, Lf})
    BY StoreAssumption
  <1>2. c \in Seq(Cells)
    <2> DEFINE S == Cells \ {Cr, Lf}
    <2>1. c \in Seq(S) /\ S \subseteq Cells
      BY <1>1
    <2> HIDE DEF S
    <2>2. QED  BY <2>1
  <1>3. <<Cr, Lf>> \in Seq(Cells) /\ Len(<<Cr, Lf>>) = 2
    BY <1>1
  <1> DEFINE p == <<Cr, Lf>>
  <1> HIDE DEF p
  <1>4. p \in Seq(Cells) /\ Len(p) > 0
    BY <1>3 DEF p
  <1>5. c \o p \in Seq(Cells) /\ c \o p # <<>>
    BY <1>2, <1>4, ConcatProperties, NotEmpty
  <1>6. QED  BY <1>5 DEF p

\* How far a round of run_cmd moves on.
LEMMA LineLength ==
  ASSUME ee \in [0..(Size - 1) -> Cells], cmd_len \in Nat
  PROVE  Len(NextLine) \in Nat
  <1> DEFINE read == [i \in 1..LineMax |-> Cell(LogAt + cmd_len + i - 1)]
             ends == {i \in 2..LineMax : read[i - 1] = Cr /\ read[i] = Lf}
  <1>1. NextLine = IF ends = {} THEN <<>> ELSE SubSeq(read, 1, First(ends))
    BY DEF NextLine
  <1>2. LineMax \in Nat
    BY StoreAssumption
  <1>3. ends \in SUBSET (Nat \ {0}) /\ \A i \in ends : i \in 1..LineMax
    BY <1>2
  <1>4. \A i \in 1..LineMax : Cell(LogAt + cmd_len + i - 1) \in Cells
    <2>1. \A i \in 1..LineMax : LogAt + cmd_len + i - 1 \in Nat
      BY <1>2, Layout
    <2>2. QED  BY <2>1, CellType
  <1>5. read \in Seq(Cells) /\ \A i \in 1..LineMax : read[i] \in Cells
    BY <1>2, <1>4
  <1> HIDE DEF read, ends
  <1>6. ASSUME ends # {} PROVE Len(SubSeq(read, 1, First(ends))) \in Nat
    <2>1. First(ends) \in 1..LineMax /\ First(ends) \in Int /\ 1 \in Int
      <3>1. ends \in SUBSET (Nat \ {0})
        BY <1>3
      <3>2. IF ends = {} THEN First(ends) = 0 ELSE First(ends) \in ends
        BY <3>1, FirstFound
      <3>3. First(ends) \in ends
        BY <1>6, <3>2
      <3>4. First(ends) \in 1..LineMax
        BY <1>3, <3>3
      <3>5. QED  BY <1>2, <3>4
    <2>2. \A i \in 1..First(ends) : read[i] \in Cells
      BY <1>2, <1>5, <2>1
    <2>3. SubSeq(read, 1, First(ends)) \in Seq(Cells)
      BY <2>1, <2>2, SubSeqProperties
    <2>4. QED  BY <2>3
  <1>7. QED  BY <1>1, <1>6

-----------------------------------------------------------------------------
(* What every action has to show, beside the types.                        *)

LEMMA NoLength == 0 \in 0..(Base * Base - 1)
  <1>1. \A b \in Nat \ {0} : b * b > 0 /\ b * b \in Nat
    OBVIOUS
  <1>2. QED  BY <1>1, Layout

\* A command, or a boot, has begun to write.
LEMMA Started ==
  ASSUME SInv, TypeOK', ee' = ee, Valid(todo'), todo' # <<>>, pc' = "write",
         text' = text, saving' \in Seq(Cells),
         job' # "log" => saving' = <<>>, job' = "reset" => names' = NoNames,
         set \notin obeyed' \/ job' = "reset" => NamesWill(ee, todo', names'),
         LogWill(ee, todo', cmd_length', IF job' = "format" THEN <<>> ELSE text \o saving')
  PROVE  SInv'
  <1>1. ee' \in Memory /\ text' \in Seq(Cells)
    BY DEF SInv, Types
  <1>2. Types'
    BY <1>1 DEF Types
  <1>3. Busy' /\ Booting'
    BY DEF Busy, Booting
  <1>4. Promised'
    BY DEF Promised, Target
  <1>5. QED  BY <1>2, <1>3, <1>4 DEF SInv

\* Nothing is left to write, and the gateway is on.
LEMMA Done ==
  ASSUME TypeOK', ee' \in Memory, todo' = <<>>, job' = "none", pc' \in {"run", "idle"},
         text' \in Seq(Cells), saving' = <<>>,
         set \notin obeyed' => NamesWill(ee', <<>>, names'), LogWill(ee', <<>>, cmd_length', text')
  PROVE  SInv'
  <1>1. Types' /\ Busy' /\ Booting'
    BY NoWrites DEF Types, Busy, Booting
  <1>2. text' \o saving' = text'
    BY ConcatEmptySeq
  <1>3. Promised'
    BY <1>2 DEF Promised, Target
  <1>4. QED  BY <1>1, <1>3 DEF SInv

\* It has restarted.
LEMMA Off ==
  ASSUME TypeOK', ee' \in Memory, Restarted, text' \in Seq(Cells), saving' = <<>>,
         \/ (StoredLength > LogMax)'
         \/ text' = LogCells(StoredLength)'
         \/ \E k \in 1..3 : ReadName(k)' = <<>>
  PROVE  SInv'
  <1>1. pc' = "boot" /\ todo' = <<>> /\ job' = "none"
    BY DEF Restarted
  <1>2. Types' /\ Busy' /\ Promised'
    BY <1>1, NoWrites DEF Types, Busy, Promised
  <1>3. Booting'
    BY DEF Booting
  <1>4. QED  BY <1>2, <1>3 DEF SInv

\* What holds between commands and while the log is replayed.
LEMMA Ready ==
  ASSUME SInv, pc \in {"idle", "run"}
  PROVE  /\ ee \in Memory /\ todo = <<>> /\ job = "none" /\ saving = <<>>
         /\ server \in Cells \X Cells /\ names \in NameTriple /\ cmd_len \in Nat
         /\ cmd_length \in 0..(Base * Base - 1) /\ cmd_length \in Nat
         /\ built \in Tree /\ torn \in BOOLEAN /\ text \in Seq(Cells)
         /\ set \notin obeyed => NamesWill(ee, <<>>, names)
         /\ LogWill(ee, <<>>, cmd_length, text)
  <1>1. /\ ee \in Memory /\ server \in Cells \X Cells /\ names \in NameTriple
        /\ cmd_len \in 0..(Base * Base - 1) /\ cmd_length \in 0..(Base * Base - 1)
        /\ built \in Tree /\ torn \in BOOLEAN /\ text \in Seq(Cells)
    BY NamesType DEF SInv, Types, TypeOK
  <1>2. todo = <<>> /\ job = "none" /\ saving = <<>>
    BY DEF SInv, Busy
  <1>3. (set \notin obeyed => NamesWill(ee, <<>>, names)) /\ LogWill(ee, <<>>, cmd_length, Target)
    BY <1>2 DEF SInv, Promised
  <1>4. Target = text
    BY <1>1, <1>2, ConcatEmptySeq DEF Target
  <1>5. cmd_length \in Nat /\ cmd_len \in Nat
    BY <1>1
  <1>6. QED  BY <1>1, <1>2, <1>3, <1>4, <1>5

LEMMA SInvInit == Init /\ TypeOK => SInv
  <1> SUFFICES ASSUME Init, TypeOK PROVE SInv
    OBVIOUS
  <1>1. /\ ee = [a \in 0..(Size - 1) |-> Erased] /\ todo = <<>> /\ job = "none" /\ pc = "boot"
        /\ names = NoNames /\ text = <<>> /\ saving = <<>>
    BY DEF Init
  <1>2. Erased \in Cells /\ Erased \in 0..(Base - 1) /\ ~(Erased < NameMax)
    BY StoreAssumption DEF Erased
  <1>3. Lengths \subseteq 0..(Size - 1)
    BY Layout DEF Lengths
  <1>4. ee \in Memory
    BY <1>1, <1>2, <1>3 DEF Memory
  <1>5. Types
    <2>1. Valid(todo) /\ text \in Seq(Cells) /\ saving \in Seq(Cells)
      BY <1>1, NoWrites
    <2>2. QED  BY <1>4, <2>1 DEF Types
  <1>6. ReadName(1) = <<>>
    <2>1. NameAt(1) \in 0..(Size - 1)
      BY Layout
    <2>2. Code[ee[NameAt(1)]] = Erased
      BY <1>1, <1>2, <2>1, ByteCode
    <2>3. QED  BY <1>2, <2>2 DEF ReadName
  <1>7. Busy /\ Booting /\ Promised
    BY <1>1, <1>6 DEF Busy, Booting, Promised
  <1>8. QED  BY <1>5, <1>7 DEF SInv


-----------------------------------------------------------------------------
(* Types, wherever the log ends.                                           *)

LEMMA PutType ==
  ASSUME NEW b \in Nat, NEW s \in Seq(Cells)
  PROVE  Put(b, s) \in Seq(Write)
  <1>1. Len(s) \in Nat /\ \A i \in 1..Len(s) : s[i] \in Cells
    OBVIOUS
  <1>2. Size \in Nat \ {0}
    BY Layout
  <1>3. \A i \in 1..Len(s) : b + i - 1 \in Nat
    BY <1>1
  <1>4. \A i \in 1..Len(s) : (b + i - 1) % Size \in 0..(Size - 1)
    BY <1>2, <1>3, DivMod
  <1>5. \A i \in 1..Len(s) : [at |-> (b + i - 1) % Size, val |-> s[i]] \in Write
    BY <1>1, <1>4 DEF Write
  <1>6. QED  BY <1>1, <1>5 DEF Put

\* Both counters wrap around.
LEMMA Wrapped ==
  ASSUME NEW n \in Nat
  PROVE  n % (Base * Base) \in 0..(Base * Base - 1)
  <1> DEFINE y == Base * Base
  <1>1. y \in Nat \ {0}
    <2>1. \A b \in Nat \ {0} : b * b \in Nat \ {0}
      OBVIOUS
    <2>2. QED  BY <2>1, Layout
  <1> HIDE DEF y
  <1>2. n % y \in 0..(y - 1)
    BY <1>1, DivMod
  <1>3. QED  BY <1>2 DEF y

LEMMA CounterTypes ==
  ASSUME TypeOK
  PROVE  /\ cmd_length \in Nat /\ cmd_len \in Nat
         /\ \A m \in Nat : Longer(m) \in 0..(Base * Base - 1)
         /\ \A done \in BOOLEAN : Stands(NextLine, done) \in 0..(Base * Base - 1)
  <1>1. cmd_length \in Nat /\ cmd_len \in Nat
    BY DEF TypeOK
  <1>2. ASSUME NEW m \in Nat PROVE Longer(m) \in 0..(Base * Base - 1)
    <2>1. cmd_length + m \in Nat
      BY <1>1
    <2>2. QED  BY <2>1, Wrapped DEF Longer
  <1>3. ASSUME NEW done \in BOOLEAN PROVE Stands(NextLine, done) \in 0..(Base * Base - 1)
    <2> DEFINE n == cmd_len + (IF done THEN 2 ELSE 1) * Len(NextLine)
    <2>1. Len(NextLine) \in Nat
      BY <1>1, LineLength DEF TypeOK
    <2>2. n \in Nat
      BY <1>1, <2>1
    <2>3. Stands(NextLine, done) = n % (Base * Base)
      BY DEF Stands
    <2> HIDE DEF n
    <2>4. QED  BY <2>2, <2>3, Wrapped
  <1>4. QED  BY <1>1, <1>2, <1>3

LEMMA SaveCmdType ==
  ASSUME TypeOK, NEW line \in Seq(Cells)
  PROVE  SaveCmd(line) \in Seq(Write) /\ Longer(Len(line)) \in 0..(Base * Base - 1)
  <1>1. Longer(Len(line)) \in 0..(Base * Base - 1)
    BY CounterTypes
  <1>2. Bytes(Longer(Len(line))) \in Seq(Cells)
    BY <1>1, TwoBytes
  <1>3. LengthAt \in Nat /\ LogAt + cmd_length \in Nat
    <2>1. cmd_length \in Nat
      BY CounterTypes
    <2>2. LengthAt \in Nat /\ LogAt \in Nat
      BY Layout
    <2>3. QED  BY <2>1, <2>2
  <1>4. Put(LengthAt, Bytes(Longer(Len(line)))) \in Seq(Write) /\ Put(LogAt + cmd_length, line) \in Seq(Write)
    BY <1>2, <1>3, PutType
  <1>5. QED  BY <1>1, <1>4, ConcatProperties DEF SaveCmd

LEMMA ReadNameType ==
  ASSUME ee \in [0..(Size - 1) -> Cells], NEW k \in 1..3
  PROVE  ReadName(k) \in Seq(Cells) /\ Len(ReadName(k)) <= NameMax
  <1> DEFINE N == Code[ee[NameAt(k)]]
             n == [i \in 1..N |-> ee[NameAt(k) + i]]
  <1>1. NameAt(k) \in Nat /\ NameAt(k) + NameMax < LengthAt
    BY Places
  <1>2. LengthAt \in Nat /\ LengthAt < Size /\ Size \in Nat /\ NameMax \in Nat
    BY Layout
  <1>3. N \in 0..(Base - 1)
    <2>1. NameAt(k) \in 0..(Size - 1)
      BY <1>1, <1>2
    <2>2. QED  BY <2>1, StoreAssumption
  <1>4. ReadName(k) = IF N < NameMax THEN n ELSE <<>>
    BY DEF ReadName
  <1> HIDE DEF N
  <1>5. ASSUME N < NameMax PROVE n \in Seq(Cells) /\ Len(n) <= NameMax
    <2>1. N \in Nat /\ \A i \in 1..N : NameAt(k) + i \in 0..(Size - 1)
      BY <1>1, <1>2, <1>3, <1>5
    <2>2. n \in Seq(Cells) /\ Len(n) = N
      BY <2>1
    <2>3. QED  BY <1>2, <1>5, <2>1, <2>2
  <1>6. <<>> \in Seq(Cells) /\ Len(<<>>) <= NameMax
    BY <1>2
  <1>7. QED  BY <1>4, <1>5, <1>6

\* The three names of a boot.
LEMMA ReadNamesType ==
  ASSUME ee \in [0..(Size - 1) -> Cells]
  PROVE  <<ReadName(1), ReadName(2), ReadName(3)>> \in NameTriple
  <1> DEFINE S == Seq(Cells)
             x == ReadName(1)
             y == ReadName(2)
             z == ReadName(3)
  <1>1. x \in S /\ y \in S /\ z \in S /\ Len(x) <= NameMax /\ Len(y) <= NameMax /\ Len(z) <= NameMax
    BY ReadNameType
  <1> HIDE DEF S, x, y, z
  <1>2. /\ <<x, y, z>> \in Seq(S) /\ Len(<<x, y, z>>) = 3
        /\ <<x, y, z>>[1] = x /\ <<x, y, z>>[2] = y /\ <<x, y, z>>[3] = z
    BY <1>1
  <1> DEFINE t == <<x, y, z>>
  <1>3. \A k \in 1..3 : k = 1 \/ k = 2 \/ k = 3
    OBVIOUS
  <1> HIDE DEF t
  <1>4. t \in Seq(S) /\ Len(t) = 3 /\ t[1] = x /\ t[2] = y /\ t[3] = z
    BY <1>2 DEF t
  <1>5. \A k \in 1..3 : Len(t[k]) <= NameMax
    BY <1>1, <1>3, <1>4
  <1>6. QED  BY <1>4, <1>5, NamesType DEF S, t, x, y, z

LEMMA RestartedType ==
  ASSUME Restarted
  PROVE  /\ pc' = "boot" /\ todo' = <<>> /\ todo' \in Seq(Write) /\ job' = "none"
         /\ server' \in Cells \X Cells /\ names' \in NameTriple
         /\ cmd_length' \in 0..(Base * Base - 1) /\ cmd_len' \in 0..(Base * Base - 1)
  <1>1. 0 \in Cells
    BY StoreAssumption
  <1>2. QED  BY <1>1, NoLength, NoNamesType DEF Restarted

\* What the settings' commands write.
LEMMA SettingsType ==
  ASSUME NEW s \in Cells \X Cells, NEW ns \in NameTriple
  PROVE  /\ Put(0, s) \in Seq(Write)
         /\ PutName(1, ns[1]) \o PutName(2, ns[2]) \o PutName(3, ns[3]) \in Seq(Write)
         /\ SaveConfig(s, ns) \in Seq(Write)
         /\ PutName(1, ns[1]) \o PutName(2, ns[2]) \o PutName(3, ns[3]) \o Put(LengthAt, Bytes(0))
              \in Seq(Write)
  <1>1. Valid(Put(0, s)) /\ Valid(SaveConfig(s, ns))
    BY SetServerWrites, SaveWrites
  <1>2. /\ Valid(PutName(1, ns[1]) \o PutName(2, ns[2]) \o PutName(3, ns[3]))
        /\ Valid(PutName(1, ns[1]) \o PutName(2, ns[2]) \o PutName(3, ns[3]) \o Put(LengthAt, Bytes(0)))
    BY SetMqttWrites, FormatWrites
  <1>3. QED  BY <1>1, <1>2 DEF Valid

\* Every variable's type, one by one: what an action has to show for TypeOK.
LEMMA TypesGive ==
  ASSUME TypeOK, TreeOK', built' \in {built, tree, tree'},
         ee' \in [0..(Size - 1) -> Cells], todo' \in Seq(Write),
         job' \in {"none", "log", "names", "reset", "format", "replay"},
         pc' \in {"boot", "run", "idle", "write"},
         server' \in Cells \X Cells, names' \in NameTriple,
         cmd_length' \in 0..(Base * Base - 1), cmd_len' \in 0..(Base * Base - 1),
         torn' \in BOOLEAN, beyond' \in BOOLEAN, obeyed' \subseteq Reserved
  PROVE  TypeOK'
  <1>1. tree' \in Tree /\ built' \in Tree
    BY DEF TypeOK, TreeOK
  <1>2. names' \in Seq(Seq(Cells)) /\ Len(names') = 3 /\ \A k \in 1..3 : Len(names'[k]) <= NameMax
    BY NamesType
  <1>3. QED  BY <1>1, <1>2 DEF TypeOK

\* What is as it was keeps its type.
LEMMA TypesNow ==
  ASSUME TypeOK
  PROVE  /\ ee \in [0..(Size - 1) -> Cells] /\ todo \in Seq(Write)
         /\ job \in {"none", "log", "names", "reset", "format", "replay"}
         /\ pc \in {"boot", "run", "idle", "write"}
         /\ server \in Cells \X Cells /\ names \in NameTriple
         /\ cmd_length \in 0..(Base * Base - 1) /\ cmd_len \in 0..(Base * Base - 1)
         /\ torn \in BOOLEAN /\ beyond \in BOOLEAN /\ obeyed \subseteq Reserved
  BY NamesType DEF TypeOK

LEMMA BadServer ==
  ASSUME NEW s \in Cells \X Cells
  PROVE  <<BadIp, s[2]>> \in Cells \X Cells
  <1>1. s[2] \in Cells /\ BadIp \in Cells
    BY StoreAssumption
  <1>2. QED  BY <1>1

LEMMA TypeInit == Init => TypeOK
  <1> SUFFICES ASSUME Init PROVE TypeOK
    OBVIOUS
  <1>1. /\ ee = [a \in 0..(Size - 1) |-> Erased] /\ todo = <<>> /\ job = "none" /\ pc = "boot"
        /\ server = <<0, 0>> /\ names = NoNames /\ cmd_length = 0 /\ cmd_len = 0
        /\ tree = EmptyTree /\ built = EmptyTree /\ torn = FALSE /\ beyond = FALSE /\ obeyed = {}
    BY DEF Init
  <1>2. Erased \in Cells /\ 0 \in Cells
    BY StoreAssumption DEF Erased
  <1>3. names \in Seq(Seq(Cells)) /\ Len(names) = 3 /\ \A k \in 1..3 : Len(names[k]) <= NameMax
    BY <1>1, NoNamesType, NamesType
  <1>4. ee \in [0..(Size - 1) -> Cells] /\ server \in Cells \X Cells /\ todo \in Seq(Write)
    BY <1>1, <1>2
  <1>5. QED  BY <1>1, <1>3, <1>4, NoLength, EmptyTreeOK DEF TypeOK

\* Boot.
LEMMA BootType ==
  ASSUME TypeOK, TreeOK', Check \/ Boot
  PROVE  TypeOK'
  <1>1. /\ ee \in [0..(Size - 1) -> Cells] /\ todo \in Seq(Write)
        /\ job \in {"none", "log", "names", "reset", "format", "replay"}
        /\ server \in Cells \X Cells /\ names \in NameTriple
        /\ cmd_length \in 0..(Base * Base - 1) /\ cmd_len \in 0..(Base * Base - 1)
        /\ torn \in BOOLEAN /\ beyond \in BOOLEAN /\ obeyed \subseteq Reserved
    BY TypesNow
  <1>2. CASE Check
    <2>1. /\ ee' = [ee EXCEPT ![CheckAt] = Mark] /\ pc' = "boot" /\ UNCHANGED <<todo, job, ram, hist>>
      BY <1>2 DEF Check
    <2>2. ee' \in [0..(Size - 1) -> Cells]
      BY <1>1, <2>1, StoreAssumption
    <2>3. QED  BY <1>1, <2>1, <2>2, TypesGive DEF ram, hist
  <1>3. CASE Boot
    <2> DEFINE read == <<ReadName(1), ReadName(2), ReadName(3)>>
    <2>1. /\ ee' = ee /\ server' = <<ee[0], ee[1]>> /\ cmd_len' = 0
          /\ built' = built /\ torn' = torn /\ obeyed' = obeyed
      BY <1>3 DEF Boot
    <2>2. server' \in Cells \X Cells
      <3>1. 0 \in 0..(Size - 1) /\ 1 \in 0..(Size - 1)
        BY Layout
      <3>2. QED  BY <1>1, <2>1, <3>1
    <2>3. \/ /\ names' = DefaultNames /\ cmd_length' = 0 /\ job' = "format" /\ pc' = "write" /\ beyond' = beyond
             /\ todo' = PutName(1, DefaultNames[1]) \o PutName(2, DefaultNames[2])
                          \o PutName(3, DefaultNames[3]) \o Put(LengthAt, Bytes(0))
          \/ /\ names' = read /\ cmd_length' = StoredLength /\ pc' = "run" /\ todo' = todo /\ job' = job
             /\ beyond' = (beyond \/ StoredLength > LogMax)
      BY <1>3 DEF Boot, Start
    <2>4. read \in NameTriple /\ DefaultNames \in NameTriple
      BY <1>1, ReadNamesType, DefaultsType
    <2> HIDE DEF read
    <2>5. /\ names' \in NameTriple /\ cmd_length' \in 0..(Base * Base - 1) /\ todo' \in Seq(Write)
          /\ job' \in {"none", "log", "names", "reset", "format", "replay"} /\ pc' \in {"run", "write"}
          /\ beyond' \in BOOLEAN
      BY <1>1, <2>2, <2>3, <2>4, NoLength, LengthType, SettingsType
    <2>6. QED  BY <1>1, <2>1, <2>2, <2>5, NoLength, TypesGive
  <1>4. QED  BY <1>2, <1>3

\* run_cmd.
LEMMA ReplayType ==
  ASSUME TypeOK, TreeOK', RunDevice \/ RunSet \/ RunSave \/ RunReboot \/ RunInit \/ RunEnds
  PROVE  TypeOK'
  <1>1. /\ ee \in [0..(Size - 1) -> Cells] /\ todo \in Seq(Write)
        /\ job \in {"none", "log", "names", "reset", "format", "replay"}
        /\ pc \in {"boot", "run", "idle", "write"}
        /\ server \in Cells \X Cells /\ names \in NameTriple
        /\ cmd_length \in 0..(Base * Base - 1) /\ cmd_len \in 0..(Base * Base - 1)
        /\ torn \in BOOLEAN /\ beyond \in BOOLEAN /\ obeyed \subseteq Reserved
    BY TypesNow
  <1>2. /\ Stands(NextLine, TRUE) \in 0..(Base * Base - 1) /\ Stands(NextLine, FALSE) \in 0..(Base * Base - 1)
        /\ \A done \in BOOLEAN : Stands(NextLine, done) \in 0..(Base * Base - 1)
    BY CounterTypes
  <1>3. set \in Reserved /\ save \in Reserved /\ reboot \in Reserved /\ init \in Reserved
    BY DEF Reserved
  <1>4. CASE RunDevice
    <2>1. /\ UNCHANGED <<ee, todo, job, pc, server, names, cmd_length, hist>>
          /\ cmd_len' = Stands(NextLine, Accepted(tree, Words(NextLine)))
      BY <1>4 DEF RunDevice
    <2>2. Accepted(tree, Words(NextLine)) \in BOOLEAN
      BY DEF Accepted
    <2>3. cmd_len' \in 0..(Base * Base - 1)
      BY <1>2, <2>1, <2>2
    <2>4. QED  BY <1>1, <2>1, <2>3, TypesGive DEF hist
  <1>5. CASE RunSet
    <2>1. /\ UNCHANGED <<ee, todo, job, pc, cmd_length, built, torn, beyond>> /\ obeyed' = obeyed \cup {set}
          /\ cmd_len' \in {Stands(NextLine, TRUE), Stands(NextLine, FALSE)}
          /\ names' \in NameSets \cup {names}
          /\ server' \in Servers \cup {server, <<BadIp, server[2]>>}
      BY <1>5 DEF RunSet
    <2>2. Servers \subseteq Cells \X Cells
      BY StoreAssumption
    <2>3. server' \in Cells \X Cells /\ names' \in NameTriple
      BY <1>1, <2>1, <2>2, BadServer, DefaultsType
    <2>4. QED  BY <1>1, <1>2, <1>3, <2>1, <2>3, TypesGive
  <1>6. CASE RunSave
    <2>1. /\ UNCHANGED <<ee, server, names, cmd_length, built, torn, beyond>> /\ obeyed' = obeyed \cup {save}
          /\ cmd_len' = Stands(NextLine, FALSE) /\ job' = "replay" /\ pc' = "write"
          /\ todo' = SaveConfig(server, names)
      BY <1>6 DEF RunSave, Start
    <2>2. todo' \in Seq(Write)
      BY <1>1, <2>1, SettingsType
    <2>3. QED  BY <1>1, <1>2, <1>3, <2>1, <2>2, TypesGive
  <1>7. CASE RunReboot
    <2>1. /\ UNCHANGED <<ee, built, torn, beyond>> /\ obeyed' = obeyed \cup {reboot} /\ Restarted
      BY <1>7 DEF RunReboot
    <2>2. QED  BY <1>1, <1>3, <2>1, RestartedType, TypesGive
  <1>8. CASE RunInit
    <2>1. /\ UNCHANGED <<ee, cmd_length, built, torn, beyond>> /\ obeyed' = obeyed \cup {init}
          /\ cmd_len' = Stands(NextLine, FALSE) /\ job' = "reset" /\ pc' = "write"
          /\ server' = DefaultServer /\ names' = NoNames /\ todo' = SaveConfig(DefaultServer, NoNames)
      BY <1>8 DEF RunInit, Reset, Start
    <2>2. DefaultServer \in Cells \X Cells /\ NoNames \in NameTriple
      BY StoreAssumption, NoNamesType
    <2>3. todo' \in Seq(Write)
      BY <2>1, <2>2, SettingsType
    <2>4. QED  BY <1>1, <1>2, <1>3, <2>1, <2>2, <2>3, TypesGive
  <1>9. CASE RunEnds
    <2>1. UNCHANGED <<ee, todo, job, ram, hist>> /\ pc' = "idle"
      BY <1>9 DEF RunEnds
    <2>2. QED  BY <1>1, <2>1, TypesGive DEF ram, hist
  <1>10. QED  BY <1>4, <1>5, <1>6, <1>7, <1>8, <1>9

\* The console's commands.
LEMMA CommandType ==
  ASSUME TypeOK, TreeOK', DeviceCommand \/ Rejected \/ SetServer \/ SetServerBad \/ SetMqtt \/ Save \/ InitCommand
  PROVE  TypeOK'
  <1>1. /\ ee \in [0..(Size - 1) -> Cells] /\ todo \in Seq(Write)
        /\ job \in {"none", "log", "names", "reset", "format", "replay"}
        /\ pc \in {"boot", "run", "idle", "write"}
        /\ server \in Cells \X Cells /\ names \in NameTriple
        /\ cmd_length \in 0..(Base * Base - 1) /\ cmd_len \in 0..(Base * Base - 1)
        /\ torn \in BOOLEAN /\ beyond \in BOOLEAN /\ obeyed \subseteq Reserved
    BY TypesNow
  <1>2. CASE DeviceCommand
    <2>1. PICK c \in Typed :
            /\ cmd_length' = Longer(Len(c \o <<Cr, Lf>>)) /\ todo' = SaveCmd(c \o <<Cr, Lf>>)
            /\ job' = "log" /\ pc' = "write"
            /\ beyond' = (beyond \/ cmd_length + Len(c \o <<Cr, Lf>>) > LogMax)
      BY <1>2 DEF DeviceCommand, Start
    <2>2. UNCHANGED <<ee, server, names, cmd_len, built, torn, obeyed>>
      BY <1>2 DEF DeviceCommand
    <2>3. c \o <<Cr, Lf>> \in Seq(Cells)
      BY CommandCells
    <2>4. todo' \in Seq(Write) /\ cmd_length' \in 0..(Base * Base - 1)
      BY <2>1, <2>3, SaveCmdType
    <2>5. beyond' \in BOOLEAN
      BY <2>1
    <2>6. QED  BY <1>1, <2>1, <2>2, <2>4, <2>5, TypesGive
  <1>3. CASE Rejected
    <2>1. UNCHANGED <<ee, todo, job, pc, server, names, cmd_length, cmd_len, hist>>
      BY <1>3 DEF Rejected
    <2>2. QED  BY <1>1, <2>1, TypesGive DEF hist
  <1>4. CASE SetServer
    <2>1. /\ server' \in Servers /\ todo' = Put(0, server') /\ job' = "names" /\ pc' = "write"
          /\ UNCHANGED <<ee, names, cmd_length, cmd_len, hist>>
      BY <1>4 DEF SetServer, Start
    <2>2. server' \in Cells \X Cells
      BY <2>1, StoreAssumption
    <2>3. todo' \in Seq(Write)
      BY <1>1, <2>1, <2>2, SettingsType
    <2>4. QED  BY <1>1, <2>1, <2>2, <2>3, TypesGive DEF hist
  <1>5. CASE SetServerBad
    <2>1. /\ server' = <<BadIp, server[2]>>
          /\ UNCHANGED <<ee, todo, job, pc, names, cmd_length, cmd_len, hist>>
      BY <1>5 DEF SetServerBad
    <2>2. server' \in Cells \X Cells
      BY <1>1, <2>1, BadServer
    <2>3. QED  BY <1>1, <2>1, <2>2, TypesGive DEF hist
  <1>6. CASE SetMqtt
    <2>1. /\ names' \in NameSets /\ job' = "names" /\ pc' = "write"
          /\ todo' = PutName(1, names'[1]) \o PutName(2, names'[2]) \o PutName(3, names'[3])
          /\ UNCHANGED <<ee, server, cmd_length, cmd_len, hist>>
      BY <1>6 DEF SetMqtt, Start
    <2>2. names' \in NameTriple
      BY <2>1, DefaultsType
    <2>3. todo' \in Seq(Write)
      BY <1>1, <2>1, <2>2, SettingsType
    <2>4. QED  BY <1>1, <2>1, <2>2, <2>3, TypesGive DEF hist
  <1>7. CASE Save
    <2>1. /\ todo' = SaveConfig(server, names) /\ job' = "names" /\ pc' = "write" /\ UNCHANGED <<ee, ram, hist>>
      BY <1>7 DEF Save, Start
    <2>2. todo' \in Seq(Write)
      BY <1>1, <2>1, SettingsType
    <2>3. QED  BY <1>1, <2>1, <2>2, TypesGive DEF ram, hist
  <1>8. CASE InitCommand
    <2>1. /\ server' = DefaultServer /\ names' = NoNames /\ todo' = SaveConfig(DefaultServer, NoNames)
          /\ job' = "reset" /\ pc' = "write" /\ UNCHANGED <<ee, cmd_length, cmd_len, hist>>
      BY <1>8 DEF InitCommand, Reset, Start
    <2>2. DefaultServer \in Cells \X Cells /\ NoNames \in NameTriple
      BY StoreAssumption, NoNamesType
    <2>3. todo' \in Seq(Write)
      BY <2>1, <2>2, SettingsType
    <2>4. QED  BY <1>1, <2>1, <2>2, <2>3, TypesGive DEF hist
  <1>9. QED  BY <1>2, <1>3, <1>4, <1>5, <1>6, <1>7, <1>8

\* A byte, a restart, a power failure.
LEMMA ByteType ==
  ASSUME TypeOK, TreeOK', WriteByte \/ Reboot \/ PowerFails
  PROVE  TypeOK'
  <1>1. /\ ee \in [0..(Size - 1) -> Cells] /\ todo \in Seq(Write)
        /\ job \in {"none", "log", "names", "reset", "format", "replay"}
        /\ pc \in {"boot", "run", "idle", "write"}
        /\ server \in Cells \X Cells /\ names \in NameTriple
        /\ cmd_length \in 0..(Base * Base - 1) /\ cmd_len \in 0..(Base * Base - 1)
        /\ torn \in BOOLEAN /\ beyond \in BOOLEAN /\ obeyed \subseteq Reserved
    BY TypesNow
  <1>2. CASE Reboot
    <2>1. Restarted /\ ee' = ee /\ UNCHANGED hist
      BY <1>2 DEF Reboot
    <2>2. QED  BY <1>1, <2>1, RestartedType, TypesGive DEF hist
  <1>3. CASE PowerFails
    <2>1. Restarted /\ torn' = (torn \/ text' # text) /\ UNCHANGED <<ee, built, beyond, obeyed>>
      BY <1>3 DEF PowerFails
    <2>2. torn' \in BOOLEAN
      BY <1>1, <2>1
    <2>3. QED  BY <1>1, <2>1, <2>2, RestartedType, TypesGive
  <1>4. CASE WriteByte
    <2>1. ee' = [ee EXCEPT ![todo[1].at] = todo[1].val] /\ (Len(todo) > 1 \/ Len(todo) = 1)
      BY <1>4 DEF WriteByte
    <2>2. 1 \in 1..Len(todo) /\ Tail(todo) \in Seq(Write)
      BY <1>1, <2>1
    <2>3. todo[1] \in Write
      BY <1>1, <2>2, ElementOfSeq
    <2>4. ee' \in [0..(Size - 1) -> Cells]
      BY <1>1, <2>1, <2>3 DEF Write
    <2>5. \/ todo' = Tail(todo) /\ UNCHANGED <<pc, job, ram, hist>>
          \/ Restarted /\ UNCHANGED hist
          \/ /\ pc' = IF job \in {"format", "replay"} THEN "run" ELSE "idle"
             /\ todo' = <<>> /\ job' = "none"
             /\ built' = IF job \in {"names", "replay"} THEN built ELSE tree
             /\ torn' = (torn /\ (job # "format" \/ typed # {}))
             /\ UNCHANGED <<ram, beyond, obeyed>>
      BY <1>4 DEF WriteByte
    <2>6. CASE todo' = Tail(todo) /\ UNCHANGED <<pc, job, ram, hist>>
      BY <1>1, <2>2, <2>4, <2>6, TypesGive DEF ram, hist
    <2>7. CASE Restarted /\ UNCHANGED hist
      BY <1>1, <2>4, <2>7, RestartedType, TypesGive DEF hist
    <2>8. CASE /\ pc' = IF job \in {"format", "replay"} THEN "run" ELSE "idle"
               /\ todo' = <<>> /\ job' = "none"
               /\ built' = IF job \in {"names", "replay"} THEN built ELSE tree
               /\ torn' = (torn /\ (job # "format" \/ typed # {}))
               /\ UNCHANGED <<ram, beyond, obeyed>>
      <3>1. /\ pc' \in {"run", "idle"} /\ todo' \in Seq(Write) /\ torn' \in BOOLEAN
            /\ built' \in {built, tree}
        BY <1>1, <2>8
      <3>2. QED  BY <1>1, <2>4, <2>8, <3>1, TypesGive DEF ram
    <2>9. QED  BY <2>5, <2>6, <2>7, <2>8
  <1>5. QED  BY <1>2, <1>3, <1>4

LEMMA TypeNext ==
  ASSUME TypeOK, TreeOK', [Next]_vars
  PROVE  TypeOK'
  <1>1. CASE UNCHANGED vars
    BY <1>1, TypesNow, TypesGive DEF vars, ram, hist
  <1>2. CASE Check \/ Boot
    BY <1>2, BootType
  <1>3. CASE RunDevice \/ RunSet \/ RunSave \/ RunReboot \/ RunInit \/ RunEnds
    BY <1>3, ReplayType
  <1>4. CASE DeviceCommand \/ Rejected \/ SetServer \/ SetServerBad \/ SetMqtt \/ Save \/ InitCommand
    BY <1>4, CommandType
  <1>5. CASE WriteByte \/ Reboot \/ PowerFails
    BY <1>5, ByteType
  <1>6. QED  BY <1>1, <1>2, <1>3, <1>4, <1>5 DEF Next, Step

\* Both counters of the log are 16-bit numbers and every write has an address of
\* the chip, the log within its cells or beyond them, whatever is typed, torn by
\* power failures or replayed.
THEOREM StoreTypes == Spec => []TypeOK
  <1>1. Init => TypeOK /\ TreeOK
    BY TypeInit, TreeOKInit
  <1>2. TypeOK /\ TreeOK /\ [Next]_vars => (TypeOK /\ TreeOK)'
    BY TypeNext, TreeOKNext
  <1>3. QED  BY <1>1, <1>2, PTL DEF Spec

-----------------------------------------------------------------------------
(* The actions.                                                            *)

\* The mark is written beside the names, the lengths and the log.
LEMMA CheckKeeps ==
  ASSUME SInv, TypeOK', Check
  PROVE  SInv'
  <1>1. /\ pc = "boot" /\ ee' = [ee EXCEPT ![CheckAt] = Mark] /\ UNCHANGED <<todo, job, pc, ram, hist>>
    BY DEF Check
  <1>2. ee \in Memory /\ Mark \in Cells
    BY StoreAssumption DEF SInv, Types
  <1>3. CheckAt \notin Lengths /\ Lengths \subseteq 0..(Size - 1)
    BY Layout DEF Lengths, CheckAt
  <1>4. \A a \in 0..(Size - 1) : a # CheckAt => ee'[a] = ee[a]
    BY <1>1, <1>2 DEF Memory
  <1>5. ee' \in Memory
    <2>1. ee' \in [0..(Size - 1) -> Cells]
      BY <1>1, <1>2 DEF Memory
    <2>2. \A a \in Lengths : ee'[a] = ee[a]
      BY <1>3, <1>4
    <2>3. QED  BY <1>2, <2>1, <2>2 DEF Memory
  <1>6. StoredLength' = StoredLength
    <2>1. ee'[LengthAt] = ee[LengthAt] /\ ee'[LengthAt + 1] = ee[LengthAt + 1]
      BY <1>3, <1>4 DEF Lengths
    <2>2. QED  BY <2>1 DEF StoredLength
  <1>7. ASSUME StoredLength <= LogMax PROVE LogCells(StoredLength)' = LogCells(StoredLength)
    <2>1. StoredLength \in Nat /\ LogMax \in Nat
      BY <1>2, LengthType, Layout DEF Memory
    <2>2. \A i \in 1..StoredLength : i \in 1..LogMax
      BY <1>7, <2>1
    <2>3. \A i \in 1..LogMax : LogAt + i - 1 \in 0..(Size - 1) /\ LogAt + i - 1 # CheckAt
      BY Layout DEF CheckAt
    <2>4. \A i \in 1..LogMax : Cell(LogAt + i - 1) = ee[LogAt + i - 1]
      BY <1>2, CellInside
    <2>5. \A i \in 1..LogMax : Cell(LogAt + i - 1)' = ee'[LogAt + i - 1]
      <3>1. Size \in Nat \ {0} /\ \A k \in 0..(Size - 1) : k % Size = k
        BY Layout
      <3>2. \A i \in 1..LogMax : (LogAt + i - 1) % Size = LogAt + i - 1
        BY <2>3, <3>1
      <3>3. QED  BY <3>2 DEF Cell
    <2>6. \A i \in 1..StoredLength : Cell(LogAt + i - 1)' = Cell(LogAt + i - 1)
      BY <1>4, <2>2, <2>3, <2>4, <2>5
    <2>7. QED  BY <1>6, <2>6 DEF LogCells
  <1>8. ASSUME NEW k \in 1..3, ReadName(k) = <<>> PROVE ReadName(k)' = <<>>
    <2>1. ReadName(k)' = ReadName(k)
      <3>1. NameAt(k) \in Nat /\ NameAt(k) + NameMax < LengthAt /\ NameMax \in Nat /\ LengthAt \in Nat
            /\ LengthAt < CheckAt /\ Size \in Nat /\ CheckAt = Size - 1
        BY Places, Layout DEF CheckAt
      <3>2. \A i \in 0..NameMax : NameAt(k) + i \in 0..(Size - 1) /\ NameAt(k) + i # CheckAt
        BY <3>1
      <3>3. \A i \in 0..NameMax : ee'[NameAt(k) + i] = ee[NameAt(k) + i]
        BY <1>4, <3>2
      <3>4. ee'[NameAt(k)] = ee[NameAt(k)]
        <4>1. 0 \in 0..NameMax /\ NameAt(k) + 0 = NameAt(k)
          BY <3>1
        <4>2. QED  BY <3>3, <4>1
      <3> DEFINE N == Code[ee[NameAt(k)]]
      <3>5. N \in 0..(Base - 1)
        BY <1>2, <1>3, Places, ByteCode DEF Memory
      <3>6. ReadName(k) = IF N < NameMax THEN [i \in 1..N |-> ee[NameAt(k) + i]] ELSE <<>>
        BY DEF ReadName
      <3>7. ReadName(k)' = IF N < NameMax THEN [i \in 1..N |-> ee'[NameAt(k) + i]] ELSE <<>>
        BY <3>4 DEF ReadName
      <3> HIDE DEF N
      <3>8. N < NameMax => \A i \in 1..N : i \in 0..NameMax
        BY <3>1, <3>5
      <3>9. QED  BY <3>3, <3>6, <3>7, <3>8
    <2>2. QED  BY <1>8, <2>1
  <1>9. Booting'
    <2>1. StoredLength \in Nat /\ LogMax \in Nat
      BY <1>2, LengthType, Layout DEF Memory
    <2>2. StoredLength > LogMax \/ StoredLength <= LogMax
      BY <2>1
    <2>3. text' = text
      BY <1>1 DEF hist
    <2>4. QED  BY <1>1, <1>6, <1>7, <1>8, <2>2, <2>3 DEF SInv, Booting
  <1>10. Types' /\ Busy' /\ Promised'
    <2>1. todo' = todo /\ pc' = pc /\ job' = job /\ names' = names /\ text' = text /\ saving' = saving
      BY <1>1 DEF ram, hist
    <2>2. Types' /\ Busy'
      BY <1>5, <2>1 DEF SInv, Types, Busy
    <2>3. Promised'
      BY <1>1, <2>1 DEF Promised
    <2>4. QED  BY <2>2, <2>3
  <1>11. QED  BY <1>9, <1>10 DEF SInv

LEMMA BootKeeps ==
  ASSUME SInv, TypeOK', Boot, ~beyond'
  PROVE  SInv'
  <1> DEFINE read == <<ReadName(1), ReadName(2), ReadName(3)>>
  <1>1. pc = "boot" /\ ee' = ee /\ text' = text /\ saving' = saving
    BY DEF Boot
  <1>2. ee \in Memory /\ text \in Seq(Cells) /\ todo = <<>> /\ job = "none" /\ saving = <<>>
    BY <1>1 DEF SInv, Types, Busy
  <1>3. /\ read[1] = ReadName(1) /\ read[2] = ReadName(2) /\ read[3] = ReadName(3)
        /\ \A k \in 1..3 : k = 1 \/ k = 2 \/ k = 3
    OBVIOUS
  <1>4. \A k \in 1..3 : read[k] = ReadName(k)
    BY <1>3
  <1>5. CASE \E k \in 1..3 : read[k] = <<>>
    <2>1. /\ names' = DefaultNames /\ cmd_length' = 0
          /\ todo' = PutName(1, DefaultNames[1]) \o PutName(2, DefaultNames[2])
                       \o PutName(3, DefaultNames[3]) \o Put(LengthAt, Bytes(0))
          /\ job' = "format" /\ pc' = "write"
      BY <1>5 DEF Boot, Start
    <2>2. names' \in NameTriple
      BY <2>1, DefaultsType
    <2>3. Valid(todo') /\ todo' # <<>> /\ NamesWill(ee, todo', names') /\ LogWill(ee, todo', cmd_length', <<>>)
      BY <2>1, <2>2, FormatWrites
    <2>4. saving' \in Seq(Cells) /\ saving' = <<>>
      BY <1>1, <1>2
    <2>5. QED  BY <1>1, <2>1, <2>3, <2>4, Started
  <1>6. CASE ~ \E k \in 1..3 : read[k] = <<>>
    <2>1. /\ names' = read /\ cmd_length' = StoredLength /\ pc' = "run" /\ todo' = todo /\ job' = job
          /\ beyond' = (beyond \/ StoredLength > LogMax)
      BY <1>6 DEF Boot
    <2>2. \A k \in 1..3 : ReadName(k) \in Name /\ Named(ee, <<>>, k, ReadName(k))
      BY <1>2, <1>4, <1>6, ReadNamed
    <2> HIDE DEF read
    <2>3. NamesWill(ee, <<>>, names')
      BY <1>4, <2>1, <2>2 DEF NamesWill
    <2>4. StoredLength <= LogMax
      <3>1. StoredLength \in Nat /\ LogMax \in Nat
        BY <1>2, LengthType, Layout DEF Memory
      <3>2. ~(StoredLength > LogMax)
        BY <2>1
      <3> HIDE DEF StoredLength, LogMax
      <3>3. QED  BY <3>1, <3>2
    <2>5. text = LogCells(StoredLength)
      <3>1. ~(StoredLength > LogMax)
        BY <2>1
      <3>2. QED  BY <1>1, <1>4, <1>6, <3>1 DEF SInv, Booting
    <2>6. LogWill(ee, <<>>, cmd_length', text)
      BY <1>2, <2>1, <2>4, <2>5, LogRead
    <2>7. todo' = <<>> /\ job' = "none" /\ saving' = <<>>
      BY <1>1, <1>2, <2>1
    <2>8. QED  BY <1>1, <1>2, <2>1, <2>3, <2>6, <2>7, Done
  <1>7. QED  BY <1>5, <1>6

\* A line of the log that writes nothing; a command that is refused.
LEMMA ReplayKeeps ==
  ASSUME SInv, TypeOK', RunDevice \/ RunSet \/ RunEnds \/ Rejected
  PROVE  SInv'
  <1>1. /\ ee' = ee /\ todo' = todo /\ job' = job /\ cmd_length' = cmd_length
        /\ text' = text /\ saving' = saving
        /\ \/ names' = names /\ obeyed' = obeyed
           \/ set \in obeyed'
    BY DEF RunDevice, RunSet, RunEnds, Rejected, ram, hist
  <1>2. pc \in {"run", "idle"} /\ pc' \in {"run", "idle"}
    BY DEF RunDevice, RunSet, RunEnds, Rejected, Replaying
  <1>3. /\ ee \in Memory /\ todo = <<>> /\ job = "none" /\ saving = <<>> /\ text \in Seq(Cells)
        /\ set \notin obeyed => NamesWill(ee, <<>>, names)
        /\ LogWill(ee, <<>>, cmd_length, text)
    BY <1>2, Ready
  <1>4. set \notin obeyed' => NamesWill(ee', <<>>, names')
    BY <1>1, <1>3
  <1>5. /\ ee' \in Memory /\ todo' = <<>> /\ job' = "none" /\ text' \in Seq(Cells) /\ saving' = <<>>
        /\ LogWill(ee', <<>>, cmd_length', text')
    BY <1>1, <1>3
  <1>6. QED  BY <1>2, <1>4, <1>5, Done

\* A line that does not take the log beyond its cells.
LEMMA LineFits ==
  ASSUME cmd_length \in Nat, NEW line \in Seq(Cells), line # <<>>, ~(cmd_length + Len(line) > LogMax)
  PROVE  cmd_length + Len(line) <= LogMax /\ Longer(Len(line)) = cmd_length + Len(line)
  <1> DEFINE m == Len(line)
  <1>1. m \in Nat /\ LogMax \in Nat
    BY Layout
  <1> HIDE DEF m
  <1>2. cmd_length + m \in 0..LogMax /\ cmd_length + m <= LogMax
    BY <1>1 DEF m
  <1>3. Longer(m) = cmd_length + m
    BY <1>2, LongerFits
  <1>4. QED  BY <1>2, <1>3 DEF m

LEMMA DeviceCommandKeeps ==
  ASSUME SInv, TypeOK', DeviceCommand, ~beyond'
  PROVE  SInv'
  <1>1. PICK c \in Typed :
          /\ cmd_length' = Longer(Len(c \o <<Cr, Lf>>))
          /\ todo' = SaveCmd(c \o <<Cr, Lf>>) /\ job' = "log" /\ pc' = "write"
          /\ saving' = c \o <<Cr, Lf>>
          /\ beyond' = (beyond \/ cmd_length + Len(c \o <<Cr, Lf>>) > LogMax)
    BY DEF DeviceCommand, Start
  <1>2. pc = "idle" /\ ee' = ee /\ names' = names /\ text' = text /\ obeyed' = obeyed
    BY DEF DeviceCommand
  <1>3. /\ names \in NameTriple /\ cmd_length \in Nat /\ text \in Seq(Cells)
        /\ set \notin obeyed => NamesWill(ee, <<>>, names)
        /\ LogWill(ee, <<>>, cmd_length, text)
    BY <1>2, Ready
  <1> DEFINE line == c \o <<Cr, Lf>>
  <1>4. line \in Seq(Cells) /\ line # <<>>
    BY CommandCells
  <1> HIDE DEF line
  <1>5. /\ cmd_length' = Longer(Len(line)) /\ ~(cmd_length + Len(line) > LogMax)
        /\ todo' = SaveCmd(line) /\ saving' = line
    BY <1>1 DEF line
  <1>6. cmd_length + Len(line) <= LogMax /\ cmd_length' = cmd_length + Len(line)
    BY <1>3, <1>4, <1>5, LineFits
  <1>7. /\ Valid(todo') /\ todo' # <<>>
        /\ set \notin obeyed' => NamesWill(ee, todo', names')
        /\ LogWill(ee, todo', cmd_length', text \o saving')
    BY <1>2, <1>3, <1>4, <1>5, <1>6, SaveCmdWrites
  <1>8. job' = "log" /\ pc' = "write" /\ saving' \in Seq(Cells)
    BY <1>1, <1>4, <1>5
  <1>9. job' # "reset" /\ job' # "format"
    BY <1>8
  <1>10. QED  BY <1>2, <1>7, <1>8, <1>9, Started

\* Settings are stored, typed or from a line of the log.
LEMMA SettingsKeep ==
  ASSUME SInv, TypeOK', SetServer \/ SetMqtt \/ Save \/ InitCommand \/ RunSave \/ RunInit
  PROVE  SInv'
  <1>1. /\ pc \in {"idle", "run"} /\ pc' = "write" /\ job' \in {"names", "reset", "replay"} /\ ee' = ee
        /\ cmd_length' = cmd_length /\ text' = text /\ saving' = saving
    BY DEF SetServer, SetMqtt, Save, InitCommand, RunSave, RunInit, Reset, Start, Replaying, ram, hist
  <1>2. /\ server \in Cells \X Cells /\ names \in NameTriple /\ cmd_length \in Nat
        /\ saving = <<>> /\ text \in Seq(Cells)
        /\ set \notin obeyed => NamesWill(ee, <<>>, names)
        /\ LogWill(ee, <<>>, cmd_length, text)
    BY <1>1, Ready
  <1>3. /\ job' = "reset" => names' = NoNames
        /\ Valid(todo') /\ todo' # <<>>
        /\ set \notin obeyed' \/ job' = "reset" => NamesWill(ee, todo', names')
        /\ LogWill(ee, todo', cmd_length, text)
    <2>1. CASE SetServer
      <3>1. server' \in Servers /\ names' = names /\ todo' = Put(0, server') /\ job' = "names" /\ obeyed' = obeyed
        BY <2>1 DEF SetServer, Start, hist
      <3>2. server' \in Cells \X Cells
        BY <3>1, StoreAssumption
      <3>3. QED  BY <1>2, <3>1, <3>2, SetServerWrites
    <2>2. CASE SetMqtt
      <3>1. /\ names' \in NameSets /\ job' = "names"
            /\ todo' = PutName(1, names'[1]) \o PutName(2, names'[2]) \o PutName(3, names'[3])
        BY <2>2 DEF SetMqtt, Start
      <3>2. names' \in NameTriple
        BY <3>1, DefaultsType
      <3>3. QED  BY <1>2, <3>1, <3>2, SetMqttWrites
    <2>3. CASE Save \/ RunSave
      <3>1. /\ names' = names /\ job' \in {"names", "replay"} /\ todo' = SaveConfig(server, names)
            /\ set \notin obeyed' => set \notin obeyed
        BY <2>3 DEF Save, RunSave, Start, ram, hist
      <3>2. QED  BY <1>2, <3>1, SaveWrites
    <2>4. CASE InitCommand \/ RunInit
      <3>1. names' = NoNames /\ todo' = SaveConfig(DefaultServer, NoNames)
        BY <2>4 DEF InitCommand, RunInit, Reset, Start
      <3>2. NoNames \in NameTriple /\ DefaultServer \in Cells \X Cells
        BY NoNamesType, StoreAssumption
      <3>3. QED  BY <1>2, <3>1, <3>2, SaveWrites
    <2>5. QED  BY <2>1, <2>2, <2>3, <2>4
  <1>4. text \o saving' = text /\ saving' = <<>> /\ saving' \in Seq(Cells)
    BY <1>1, <1>2, ConcatEmptySeq
  <1>5. LogWill(ee, todo', cmd_length', IF job' = "format" THEN <<>> ELSE text \o saving')
    BY <1>1, <1>3, <1>4
  <1>6. QED  BY <1>1, <1>3, <1>4, <1>5, Started

LEMMA SetServerBadKeeps ==
  ASSUME SInv, TypeOK', SetServerBad
  PROVE  SInv'
  <1>1. /\ pc = "idle" /\ pc' = pc /\ ee' = ee /\ todo' = todo /\ job' = job /\ names' = names
        /\ cmd_length' = cmd_length /\ text' = text /\ saving' = saving /\ obeyed' = obeyed
    BY DEF SetServerBad, hist
  <1>2. /\ ee \in Memory /\ todo = <<>> /\ job = "none" /\ saving = <<>> /\ text \in Seq(Cells)
        /\ set \notin obeyed => NamesWill(ee, <<>>, names)
        /\ LogWill(ee, <<>>, cmd_length, text)
    BY <1>1, Ready
  <1>3. QED  BY <1>1, <1>2, Done

\* Whether a byte is the last of its list.
LEMMA OneLess ==
  ASSUME NEW w \in Seq(Write), w # <<>>
  PROVE  /\ Len(w) > 1 \/ Len(w) = 1
         /\ Len(w) > 1 => Len(w) # 1 /\ Tail(w) # <<>>
         /\ Len(w) = 1 => Tail(w) = <<>>
  <1> DEFINE N == Len(w)
             t == Tail(w)
             M == Len(t)
  <1>1. N \in Nat \ {0} /\ M = N - 1 /\ t \in Seq(Write)
    OBVIOUS
  <1>2. t = <<>> <=> M = 0
    <2>1. t \in Seq(Write)
      BY <1>1
    <2> HIDE DEF t
    <2>2. QED  BY <2>1
  <1> HIDE DEF N, M, t
  <1>3. N > 1 \/ N = 1
    BY <1>1
  <1>4. N > 1 => N # 1 /\ M # 0
    BY <1>1
  <1>5. N = 1 => M = 0
    BY <1>1
  <1>6. QED  BY <1>2, <1>3, <1>4, <1>5 DEF N, t

LEMMA WriteByteKeeps ==
  ASSUME SInv, TypeOK', WriteByte
  PROVE  SInv'
  <1>1. /\ pc = "write" /\ ee' = [ee EXCEPT ![todo[1].at] = todo[1].val]
    BY DEF WriteByte
  <1>2. /\ ee \in Memory /\ Valid(todo) /\ todo # <<>>
        /\ cmd_length \in Nat /\ text \in Seq(Cells) /\ saving \in Seq(Cells)
    BY <1>1 DEF SInv, Types, TypeOK, Busy
  <1>3. (set \notin obeyed \/ job = "reset" => NamesWill(ee, todo, names)) /\ LogWill(ee, todo, cmd_length, Target)
    BY <1>1 DEF SInv, Promised
  <1>4. /\ ee' \in Memory /\ Valid(Tail(todo))
        /\ set \notin obeyed \/ job = "reset" => NamesWill(ee', Tail(todo), names)
        /\ LogWill(ee', Tail(todo), cmd_length, Target)
    BY <1>1, <1>2, <1>3, ByteWritten
  <1>5. /\ Target \in Seq(Cells)
        /\ Target = IF job = "format" THEN <<>> ELSE text \o saving
    <2>1. text \o saving \in Seq(Cells) /\ <<>> \in Seq(Cells)
      BY <1>2, ConcatProperties
    <2>2. QED  BY <2>1 DEF Target
  <1> DEFINE more == Len(todo) > 1
             last == Len(todo) = 1
  <1>6. /\ more \/ last
        /\ more => ~last /\ Tail(todo) # <<>>
        /\ last => Tail(todo) = <<>>
    <2>1. todo \in Seq(Write)
      BY <1>2 DEF Valid
    <2>2. QED  BY <1>2, <2>1, OneLess
  <1>7. \/ /\ more
           /\ todo' = Tail(todo)
           /\ UNCHANGED <<pc, job, ram, hist>>
        \/ /\ last /\ job = "reset"
           /\ Restarted
           /\ UNCHANGED hist
        \/ /\ last /\ job # "reset"
           /\ pc' = IF job \in {"format", "replay"} THEN "run" ELSE "idle"
           /\ todo' = <<>> /\ job' = "none"
           /\ text' = IF job = "format" THEN <<>> ELSE text \o saving
           /\ saving' = <<>>
           /\ UNCHANGED <<ram, obeyed>>
    BY DEF WriteByte
  <1> HIDE DEF more, last
  <1>8. CASE more
    <2>1. /\ todo' = Tail(todo) /\ pc' = pc /\ job' = job /\ names' = names /\ cmd_length' = cmd_length
          /\ text' = text /\ saving' = saving /\ obeyed' = obeyed
      BY <1>6, <1>7, <1>8 DEF ram, hist
    <2>2. todo' # <<>>
      BY <1>6, <1>8, <2>1
    <2>3. Types'
      BY <1>2, <1>4, <2>1 DEF Types
    <2>4. Busy' /\ Booting'
      BY <1>1, <2>1, <2>2 DEF SInv, Busy, Booting
    <2>5. Promised'
      BY <1>4, <2>1 DEF Promised, Target
    <2>6. QED  BY <2>3, <2>4, <2>5 DEF SInv
  <1>9. CASE last /\ job = "reset"
    <2>1. Restarted /\ text' = text /\ saving' = saving
      BY <1>6, <1>7, <1>9 DEF hist
    <2>2. names = NoNames /\ saving = <<>>
      BY <1>9 DEF SInv, Busy
    <2>3. NamesWill(ee', <<>>, NoNames)
      BY <1>4, <1>6, <1>9, <2>2
    <2>4. ee'[NameAt(1)] = 0
      <3>1. NoNames \in NameTriple /\ 1 \in 1..3 /\ Len(NoNames[1]) = 0
        BY NoNamesType DEF NoNames
      <3>2. ee'[NameAt(1)] = Len(NoNames[1])
        BY <1>4, <2>3, <3>1, NamesThere
      <3>3. QED  BY <3>1, <3>2
    <2>5. ReadName(1)' = <<>>
      <3>1. 0 < NameMax /\ 0 \in 0..(Base - 1) /\ NameMax \in Nat
        BY Layout
      <3>2. Code[0] = 0
        BY <3>1, ByteCode
      <3>3. QED  BY <2>4, <3>1, <3>2 DEF ReadName
    <2>6. \E k \in 1..3 : ReadName(k)' = <<>>
      BY <2>5
    <2>7. QED  BY <1>2, <1>4, <2>1, <2>2, <2>6, Off
  <1>10. CASE last /\ job # "reset"
    <2>1. /\ pc' = IF job \in {"format", "replay"} THEN "run" ELSE "idle"
          /\ todo' = <<>> /\ job' = "none" /\ saving' = <<>>
          /\ text' = IF job = "format" THEN <<>> ELSE text \o saving
          /\ names' = names /\ cmd_length' = cmd_length /\ obeyed' = obeyed
      BY <1>6, <1>7, <1>10 DEF ram
    <2>2. text' = Target
      BY <1>5, <2>1
    <2>3. (set \notin obeyed' => NamesWill(ee', <<>>, names')) /\ LogWill(ee', <<>>, cmd_length', text')
      BY <1>4, <1>6, <1>10, <2>1, <2>2
    <2>4. pc' \in {"run", "idle"} /\ text' \in Seq(Cells)
      BY <1>5, <2>1, <2>2
    <2>5. QED  BY <1>4, <2>1, <2>3, <2>4, Done
  <1>11. QED  BY <1>6, <1>8, <1>9, <1>10

LEMMA RestartKeeps ==
  ASSUME SInv, TypeOK', RunReboot \/ Reboot \/ PowerFails
  PROVE  SInv'
  <1>1. Restarted /\ ee' = ee
    BY DEF RunReboot, Reboot, PowerFails
  <1>2. ee \in Memory
    BY DEF SInv, Types
  <1>3. LogCells(StoredLength)' = LogCells(StoredLength)
    BY <1>1 DEF LogCells, StoredLength, Cell
  <1>4. CASE RunReboot \/ Reboot
    <2>1. pc \in {"idle", "run"} /\ text' = text /\ saving' = saving
      BY <1>4 DEF RunReboot, Reboot, Replaying, hist
    <2>2. /\ saving = <<>> /\ text \in Seq(Cells) /\ cmd_length \in Nat
          /\ LogWill(ee, <<>>, cmd_length, text)
      BY <2>1, Ready
    <2>3. text = LogCells(StoredLength)
      BY <1>2, <2>2, LogReadBack
    <2>4. QED  BY <1>1, <1>2, <1>3, <2>1, <2>2, <2>3, Off
  <1>5. CASE PowerFails
    <2>1. text' = LogCells(StoredLength) /\ saving' = <<>>
      BY <1>5 DEF PowerFails
    <2>2. text' \in Seq(Cells)
      BY <1>2, <2>1, LengthType, LogType DEF Memory
    <2>3. QED  BY <1>1, <1>2, <1>3, <2>1, <2>2, Off
  <1>6. QED  BY <1>4, <1>5

\* The invariant holds after every action that keeps the log within its cells.
LEMMA SInvNext ==
  ASSUME SInv, [Next]_vars, TypeOK', ~beyond'
  PROVE  SInv'
  <1>1. CASE Check
    BY <1>1, CheckKeeps
  <1>2. CASE Boot
    BY <1>2, BootKeeps
  <1>3. CASE RunDevice \/ RunSet \/ RunEnds \/ Rejected
    BY <1>3, ReplayKeeps
  <1>4. CASE WriteByte
    BY <1>4, WriteByteKeeps
  <1>5. CASE DeviceCommand
    BY <1>5, DeviceCommandKeeps
  <1>6. CASE SetServer \/ SetMqtt \/ Save \/ InitCommand \/ RunSave \/ RunInit
    BY <1>6, SettingsKeep
  <1>7. CASE SetServerBad
    BY <1>7, SetServerBadKeeps
  <1>8. CASE RunReboot \/ Reboot \/ PowerFails
    BY <1>8, RestartKeeps
  <1>9. CASE UNCHANGED vars
    <2>1. /\ ee' = ee /\ todo' = todo /\ job' = job /\ pc' = pc /\ names' = names
          /\ cmd_length' = cmd_length /\ text' = text /\ saving' = saving /\ obeyed' = obeyed
      BY <1>9 DEF vars, ram, hist
    <2>2. Types'
      BY <2>1 DEF SInv, Types
    <2>3. Busy'
      BY <2>1 DEF SInv, Busy
    <2>4. Booting'
      BY <2>1 DEF SInv, Booting, LogCells, StoredLength, Cell, ReadName
    <2>5. Promised'
      BY <2>1 DEF SInv, Promised, Target
    <2>6. QED  BY <2>2, <2>3, <2>4, <2>5 DEF SInv
  <1>10. QED  BY <1>1, <1>2, <1>3, <1>4, <1>5, <1>6, <1>7, <1>8, <1>9 DEF Next, Step

\* A log that is longer than its cells has been so ever since.
LEMMA BeyondStays ==
  ASSUME [Next]_vars, ~beyond', beyond \in BOOLEAN
  PROVE  ~beyond
  <1>1. CASE Check \/ Boot \/ WriteByte
    BY <1>1 DEF Check, Boot, WriteByte, hist
  <1>2. CASE RunDevice \/ RunSet \/ RunSave \/ RunReboot \/ RunInit \/ RunEnds
    BY <1>2 DEF RunDevice, RunSet, RunSave, RunReboot, RunInit, RunEnds, hist
  <1>3. CASE DeviceCommand \/ Rejected \/ SetServer \/ SetServerBad \/ SetMqtt \/ Save \/ InitCommand
    BY <1>3 DEF DeviceCommand, Rejected, SetServer, SetServerBad, SetMqtt, Save, InitCommand, hist
  <1>4. CASE Reboot \/ PowerFails \/ UNCHANGED vars
    BY <1>4 DEF Reboot, PowerFails, vars, hist
  <1>5. QED  BY <1>1, <1>2, <1>3, <1>4 DEF Next, Step

AllInv == TypeOK /\ TreeOK /\ (~beyond => SInv)

\* The inductive invariant: at every byte of every command, the writes that are
\* still to come end with the names, the log and its length that RAM holds, as
\* long as the log fits its cells.
THEOREM StoreInvariant == Spec => []AllInv
  <1>1. Init => AllInv
    BY TypeInit, SInvInit, TreeOKInit DEF AllInv
  <1>2. AllInv /\ [Next]_vars => AllInv'
    <2> SUFFICES ASSUME AllInv, [Next]_vars PROVE AllInv'
      OBVIOUS
    <2>1. TreeOK'
      BY TreeOKNext DEF AllInv
    <2>2. TypeOK'
      BY <2>1, TypeNext DEF AllInv
    <2>3. ASSUME ~beyond' PROVE SInv'
      <3>1. ~beyond
        BY <2>3, BeyondStays DEF AllInv, TypeOK
      <3>2. QED  BY <2>2, <2>3, <3>1, SInvNext DEF AllInv
    <2>4. QED  BY <2>1, <2>2, <2>3 DEF AllInv
  <1>3. QED  BY <1>1, <1>2, PTL DEF Spec

\* Between commands the log is the saved lines in order, whichever settings were
\* stored in between, whatever a replay executed and wherever the power failed,
\* as long as its length has fitted its cells.
THEOREM LogAlwaysKept == Spec => []LogKept
  <1>1. ASSUME SInv, pc = "idle" PROVE cmd_length = StoredLength /\ LogCells(cmd_length) = text
    <2>1. ee \in Memory /\ text \in Seq(Cells) /\ cmd_length \in Nat /\ LogWill(ee, <<>>, cmd_length, text)
      BY <1>1, Ready
    <2>2. QED  BY <2>1, LogReadBack
  <1>2. AllInv => LogKept
    BY <1>1 DEF AllInv, LogKept
  <1>3. QED  BY <1>2, StoreInvariant, PTL

\* A boot reads back the names the gateway works with, if all are of a length
\* that it believes, in whichever of the two formats they were stored, as long as
\* the log's length has fitted its cells and no replay has come upon a "set".
THEOREM NamesAlwaysStored == Spec => []NamesStored
  <1>1. ASSUME SInv, pc = "idle", set \notin obeyed,
               \A k \in 1..3 : Len(names[k]) \in 1..(NameMax - 1), NEW k \in 1..3
        PROVE  ReadName(k) = names[k]
    <2>1. ee \in Memory /\ names \in NameTriple /\ NamesWill(ee, <<>>, names)
      BY <1>1, Ready
    <2>2. Len(names[k]) < NameMax
      BY <1>1, Layout
    <2>3. QED  BY <2>1, <2>2, NamesReadBack
  <1>2. AllInv => NamesStored
    BY <1>1 DEF AllInv, NamesStored
  <1>3. QED  BY <1>2, StoreInvariant, PTL

-----------------------------------------------------------------------------
(* A power failure while a line is saved.                                  *)

\* How a command that saves a line leaves the log behind, at every byte: the
\* lines saved before are there and stay; the length's bytes are those of the
\* length before or of the one after.
Saving ==
  job = "log" =>
    /\ Len(text) <= cmd_length
    /\ \A i \in 1..Len(text) : CellOf(ee, LogAt + i - 1) = text[i]
    /\ ee[LengthAt] \in {Len(text) % Base, cmd_length % Base}
    /\ ee[LengthAt + 1] \in {Len(text) \div Base, cmd_length \div Base}
    /\ \A i \in 1..Len(todo) :
         /\ todo[i].at = LengthAt => todo[i].val = cmd_length % Base
         /\ todo[i].at = LengthAt + 1 => todo[i].val = cmd_length \div Base
         /\ todo[i].at \notin LogAt..(LogAt + Len(text) - 1)

\* Two bytes are a number's in one way only.
LEMMA BytesUnique ==
  ASSUME NEW b \in Nat \ {0}, NEW x \in 0..(b - 1), NEW y \in Nat, NEW n \in Nat, n = x + b * y
  PROVE  x = n % b /\ y = n \div b
  <1> DEFINE q == n \div b
             r == n % b
  <1>1. q \in Nat /\ r \in 0..(b - 1) /\ n = r + b * q
    BY DivMod
  <1> HIDE DEF q, r
  <1>2. ASSUME q < y PROVE FALSE
    <2>1. b * (q + 1) <= b * y
      BY <1>1, <1>2
    <2>2. b * (q + 1) = b * q + b
      BY <1>1
    <2>3. b * q \in Nat /\ b * y \in Nat
      BY <1>1
    <2>4. QED  BY <1>1, <2>1, <2>2, <2>3
  <1>3. ASSUME y < q PROVE FALSE
    <2>1. b * (y + 1) <= b * q
      BY <1>1, <1>3
    <2>2. b * (y + 1) = b * y + b
      OBVIOUS
    <2>3. b * q \in Nat /\ b * y \in Nat
      BY <1>1
    <2>4. QED  BY <1>1, <2>1, <2>2, <2>3
  <1>4. q = y
    BY <1>1, <1>2, <1>3
  <1>5. r = x
    BY <1>1, <1>4
  <1>6. QED  BY <1>4, <1>5 DEF q, r

\* The writes of save_cmd, one by one.
LEMMA SaveCmdCells ==
  ASSUME cmd_length \in Nat, NEW line \in Seq(Cells), line # <<>>, cmd_length + Len(line) <= LogMax,
         NEW i \in 1..Len(SaveCmd(line))
  PROVE  LET n == cmd_length + Len(line)
             w == SaveCmd(line)[i] IN
         /\ w.at = LengthAt => w.val = n % Base
         /\ w.at = LengthAt + 1 => w.val = n \div Base
         /\ w.at \notin LogAt..(LogAt + cmd_length - 1)
  <1> DEFINE o == cmd_length
             m == Len(line)
             n == o + m
             s == Bytes(n)
             p == Put(LengthAt, s)
             q == Put(LogAt + o, line)
  <1>1. o \in Nat /\ m \in Nat /\ n <= LogMax
    OBVIOUS
  <1>2. /\ n \in 0..LogMax /\ LengthAt \in Nat /\ LogAt = LengthAt + 2
        /\ LogAt + o \in Nat /\ LogAt + o + m <= Size /\ LengthAt + 2 <= Size
    <2> HIDE DEF o, m
    <2>1. QED  BY <1>1, Layout
  <1>3. s \in Seq(Cells) /\ Len(s) = 2
    BY <1>2, FitsTwoBytes, TwoBytes
  <1>4. s[1] = n % Base /\ s[2] = n \div Base
    BY DEF Bytes
  <1> HIDE DEF s, o, m, n
  <1>5. /\ p \in Seq(Write) /\ Len(p) = 2
        /\ \A k \in 1..2 : p[k].at = LengthAt + k - 1 /\ p[k].val = s[k]
    <2>1. LengthAt + Len(s) <= Size
      BY <1>2, <1>3
    <2>2. /\ p \in Seq(Write) /\ Len(p) = Len(s)
          /\ \A k \in 1..Len(s) : p[k].at = LengthAt + k - 1 /\ p[k].val = s[k]
      BY <1>2, <1>3, <2>1, PutWrites
    <2>3. QED  BY <1>3, <2>2
  <1>6. /\ q \in Seq(Write) /\ Len(q) = m
        /\ \A k \in 1..m : q[k].at = LogAt + o + k - 1
    BY <1>2, PutWrites DEF m
  <1>7. SaveCmd(line) = p \o q
    <2>1. Longer(m) = n
      BY <1>2, LongerFits DEF n, o
    <2>2. QED  BY <2>1 DEF SaveCmd, n, s, o, m
  <1> HIDE DEF p, q
  <1>8. /\ Len(p \o q) = 2 + m
        /\ \A k \in 1..(2 + m) : (p \o q)[k] = IF k <= 2 THEN p[k] ELSE q[k - 2]
    <2>1. /\ Len(p \o q) = Len(p) + Len(q)
          /\ \A k \in 1..(Len(p) + Len(q)) : (p \o q)[k] = IF k <= Len(p) THEN p[k] ELSE q[k - Len(p)]
      BY <1>5, <1>6, ConcatProperties
    <2>2. QED  BY <1>5, <1>6, <2>1
  <1>9. i \in 1..(2 + m) /\ m \in Nat
    BY <1>1, <1>7, <1>8
  <1> DEFINE w == (p \o q)[i]
  <1>10. /\ w.at = LengthAt => w.val = n % Base
         /\ w.at = LengthAt + 1 => w.val = n \div Base
         /\ w.at \notin LogAt..(LogAt + o - 1)
    <2>1. CASE i = 1
      <3>1. w = p[1] /\ p[1].at = LengthAt /\ p[1].val = n % Base
        <4>1. LengthAt + 1 - 1 = LengthAt /\ 1 \in 1..2 /\ i <= 2
          BY <1>2, <2>1
        <4>2. QED  BY <1>4, <1>5, <1>8, <1>9, <2>1, <4>1
      <3>2. LengthAt # LengthAt + 1 /\ LengthAt \notin LogAt..(LogAt + o - 1)
        BY <1>1, <1>2
      <3>3. QED  BY <3>1, <3>2
    <2>2. CASE i = 2
      <3>1. w = p[2] /\ p[2].at = LengthAt + 1 /\ p[2].val = n \div Base
        <4>1. LengthAt + 2 - 1 = LengthAt + 1 /\ 2 \in 1..2 /\ i <= 2
          BY <1>2, <2>2
        <4>2. QED  BY <1>4, <1>5, <1>8, <1>9, <2>2, <4>1
      <3>2. LengthAt # LengthAt + 1 /\ LengthAt + 1 \notin LogAt..(LogAt + o - 1)
        BY <1>1, <1>2
      <3>3. QED  BY <3>1, <3>2
    <2>3. CASE i > 2
      <3>1. i - 2 \in 1..m /\ ~(i <= 2)
        BY <1>9, <2>3
      <3>2. w = q[i - 2] /\ q[i - 2].at = LogAt + o + (i - 2) - 1
        BY <1>6, <1>8, <1>9, <3>1
      <3> DEFINE a == LogAt + o + (i - 2) - 1
      <3>3. a # LengthAt /\ a # LengthAt + 1 /\ a \notin LogAt..(LogAt + o - 1)
        BY <1>1, <1>2, <3>1
      <3>4. QED  BY <3>2, <3>3
    <2>4. i = 1 \/ i = 2 \/ i > 2
      BY <1>9
    <2>5. QED  BY <2>1, <2>2, <2>3, <2>4
  <1>11. QED  BY <1>7, <1>10 DEF n, o, m

\* A line begins to be saved.
LEMMA SavingBegins ==
  ASSUME SInv, DeviceCommand, ~beyond'
  PROVE  Saving'
  <1>1. PICK c \in Typed :
          /\ cmd_length' = Longer(Len(c \o <<Cr, Lf>>))
          /\ todo' = SaveCmd(c \o <<Cr, Lf>>)
          /\ beyond' = (beyond \/ cmd_length + Len(c \o <<Cr, Lf>>) > LogMax)
    BY DEF DeviceCommand, Start
  <1>2. pc = "idle" /\ ee' = ee /\ text' = text
    BY DEF DeviceCommand
  <1>3. ee \in Memory /\ text \in Seq(Cells) /\ cmd_length \in Nat /\ LogWill(ee, <<>>, cmd_length, text)
    BY <1>2, Ready
  <1> DEFINE line == c \o <<Cr, Lf>>
  <1>4. line \in Seq(Cells) /\ line # <<>>
    BY CommandCells
  <1> HIDE DEF line
  <1>5. cmd_length + Len(line) <= LogMax /\ cmd_length' = cmd_length + Len(line) /\ todo' = SaveCmd(line)
    <2>1. cmd_length' = Longer(Len(line)) /\ ~(cmd_length + Len(line) > LogMax) /\ todo' = SaveCmd(line)
      BY <1>1 DEF line
    <2>2. QED  BY <1>3, <1>4, <2>1, LineFits
  <1>6. /\ Len(text) = cmd_length
        /\ \A i \in 1..Len(text) : CellOf(ee, LogAt + i - 1) = text[i]
    BY <1>3, NothingWritten DEF LogWill
  <1>7. ee[LengthAt] = cmd_length % Base /\ ee[LengthAt + 1] = cmd_length \div Base
    <2>1. PICK x \in 0..(Base - 1), y \in 0..(Base - 1) :
            CellOf(ee, LengthAt) = x /\ CellOf(ee, LengthAt + 1) = y /\ cmd_length = x + Base * y
      BY <1>3, NothingWritten DEF LogWill
    <2>2. ee[LengthAt] = x /\ ee[LengthAt + 1] = y
      BY <1>3, <2>1, LengthThere
    <2>3. Base \in Nat \ {0} /\ x \in 0..(Base - 1) /\ y \in Nat /\ cmd_length \in Nat
      BY <1>3, Layout
    <2>4. cmd_length = x + Base * y
      BY <2>1
    <2>5. x = cmd_length % Base /\ y = cmd_length \div Base
      BY <2>3, <2>4, BytesUnique, ZenonT(60)
    <2>6. QED  BY <2>2, <2>5
  <1>8. \A i \in 1..Len(todo') :
          /\ todo'[i].at = LengthAt => todo'[i].val = cmd_length' % Base
          /\ todo'[i].at = LengthAt + 1 => todo'[i].val = cmd_length' \div Base
          /\ todo'[i].at \notin LogAt..(LogAt + Len(text) - 1)
    BY <1>3, <1>4, <1>5, <1>6, SaveCmdCells
  <1>9. Len(text) <= cmd_length'
    BY <1>3, <1>4, <1>5, <1>6
  <1>10. QED  BY <1>2, <1>6, <1>7, <1>8, <1>9 DEF Saving

\* It goes on.
LEMMA SavingGoesOn ==
  ASSUME SInv, Saving, WriteByte, job' = "log"
  PROVE  Saving'
  <1>1. /\ ee' = [ee EXCEPT ![todo[1].at] = todo[1].val] /\ todo' = Tail(todo)
        /\ job = "log" /\ text' = text /\ cmd_length' = cmd_length
    BY DEF WriteByte, Restarted, ram, hist
  <1>2. ee \in Memory /\ todo \in Seq(Write) /\ todo # <<>> /\ text \in Seq(Cells)
    BY DEF SInv, Types, TypeOK, Busy, WriteByte
  <1>3. /\ Len(text) <= cmd_length
        /\ \A i \in 1..Len(text) : CellOf(ee, LogAt + i - 1) = text[i]
        /\ ee[LengthAt] \in {Len(text) % Base, cmd_length % Base}
        /\ ee[LengthAt + 1] \in {Len(text) \div Base, cmd_length \div Base}
        /\ \A i \in 1..Len(todo) :
             /\ todo[i].at = LengthAt => todo[i].val = cmd_length % Base
             /\ todo[i].at = LengthAt + 1 => todo[i].val = cmd_length \div Base
             /\ todo[i].at \notin LogAt..(LogAt + Len(text) - 1)
    BY <1>1 DEF Saving
  <1>4. 1 \in 1..Len(todo) /\ \A i \in 1..Len(Tail(todo)) : i + 1 \in 1..Len(todo) /\ Tail(todo)[i] = todo[i + 1]
    BY <1>2
  <1> DEFINE at == todo[1].at
             val == todo[1].val
             t == Tail(todo)
             N == Len(text)
  <1>5. /\ ee' = [ee EXCEPT ![at] = val]
        /\ at = LengthAt => val = cmd_length % Base
        /\ at = LengthAt + 1 => val = cmd_length \div Base
        /\ at \notin LogAt..(LogAt + N - 1)
    BY <1>1, <1>3, <1>4
  <1>6. ee \in [0..(Size - 1) -> Cells] /\ LengthAt \in 0..(Size - 1) /\ LengthAt + 1 \in 0..(Size - 1)
    BY <1>2, Layout DEF Memory
  <1>7. N \in Nat
    BY <1>2
  <1>8. \A i \in 1..Len(t) :
          /\ t[i].at = LengthAt => t[i].val = cmd_length % Base
          /\ t[i].at = LengthAt + 1 => t[i].val = cmd_length \div Base
          /\ t[i].at \notin LogAt..(LogAt + N - 1)
    BY <1>3, <1>4
  <1> HIDE DEF at, val, t, N
  <1>9. /\ ee'[LengthAt] = IF at = LengthAt THEN val ELSE ee[LengthAt]
        /\ ee'[LengthAt + 1] = IF at = LengthAt + 1 THEN val ELSE ee[LengthAt + 1]
        /\ \A a : a # at => CellOf(ee', a) = CellOf(ee, a)
    BY <1>5, <1>6 DEF CellOf
  <1>10. \A i \in 1..N : CellOf(ee', LogAt + i - 1) = text[i]
    <2>1. \A i \in 1..N : LogAt + i - 1 \in LogAt..(LogAt + N - 1)
      BY <1>7, Layout
    <2>2. \A i \in 1..N : LogAt + i - 1 # at
      BY <1>5, <2>1
    <2>3. QED  BY <1>3, <1>9, <2>2 DEF N
  <1>11. /\ ee'[LengthAt] \in {Len(text) % Base, cmd_length % Base}
         /\ ee'[LengthAt + 1] \in {Len(text) \div Base, cmd_length \div Base}
    BY <1>3, <1>5, <1>9
  <1>12. QED  BY <1>1, <1>3, <1>8, <1>10, <1>11 DEF Saving, t, N

LEMMA SavingNext ==
  ASSUME SInv, Saving, [Next]_vars, ~beyond'
  PROVE  Saving'
  <1>1. CASE DeviceCommand
    BY <1>1, SavingBegins
  <1>2. CASE WriteByte
    <2>1. CASE job' = "log"
      BY <1>2, <2>1, SavingGoesOn
    <2>2. CASE job' # "log"
      BY <2>2 DEF Saving
    <2>3. QED  BY <2>1, <2>2
  <1>3. CASE UNCHANGED vars
    BY <1>3 DEF Saving, vars, ram, hist
  <1>4. CASE Check \/ Boot \/ RunDevice \/ RunSet \/ RunEnds \/ Rejected \/ SetServerBad
    <2>1. pc # "write" => job = "none"
      BY DEF SInv, Busy
    <2>2. job' # "log"
      BY <1>4, <2>1 DEF Check, Boot, Start, RunDevice, RunSet, RunEnds, Replaying, Rejected, SetServerBad
    <2>3. QED  BY <2>2 DEF Saving
  <1>5. CASE SetServer \/ SetMqtt \/ Save \/ InitCommand \/ RunSave \/ RunInit
    <2>1. job' # "log"
      BY <1>5 DEF SetServer, SetMqtt, Save, InitCommand, RunSave, RunInit, Reset, Start
    <2>2. QED  BY <2>1 DEF Saving
  <1>6. CASE RunReboot \/ Reboot \/ PowerFails
    <2>1. job' # "log"
      BY <1>6 DEF RunReboot, Reboot, PowerFails, Restarted
    <2>2. QED  BY <2>1 DEF Saving
  <1>7. QED  BY <1>1, <1>2, <1>3, <1>4, <1>5, <1>6 DEF Next, Step

\* The length a power failure leaves, when both lengths have the same high byte.
LEMMA TornLength ==
  ASSUME SInv, Saving, job = "log", Len(text) \div Base = cmd_length \div Base
  PROVE  StoredLength \in Nat /\ Len(text) <= StoredLength /\ Len(text) <= LogMax
  <1> DEFINE o == Len(text)
             n == cmd_length
  <1>1. /\ o \in Nat /\ n \in Nat /\ ee \in Memory
    BY DEF SInv, Types, TypeOK
  <1>0. n <= LogMax
    <2>1. pc # "boot"
      BY DEF SInv, Busy
    <2>2. QED  BY <2>1 DEF SInv, Promised, LogWill
  <1>2. /\ o <= n /\ o \div Base = n \div Base
        /\ ee[LengthAt] \in {o % Base, n % Base} /\ ee[LengthAt + 1] \in {o \div Base, n \div Base}
    BY DEF Saving
  <1> HIDE DEF o, n
  <1>3. o = (o % Base) + Base * (o \div Base) /\ n = (n % Base) + Base * (n \div Base)
    BY <1>1, DivMod, Layout
  <1>4. StoredLength = o \/ StoredLength = n
    <2>1. StoredLength = ee[LengthAt] + Base * ee[LengthAt + 1]
      BY <1>1, LengthThere
    <2>2. CASE ee[LengthAt] = o % Base
      BY <1>2, <1>3, <2>1, <2>2
    <2>3. CASE ee[LengthAt] = n % Base
      BY <1>2, <1>3, <2>1, <2>3
    <2>4. QED  BY <1>2, <2>2, <2>3
  <1>5. o <= LogMax
    BY <1>0, <1>1, <1>2, Layout
  <1>6. QED  BY <1>1, <1>2, <1>4, <1>5 DEF o

\* A power failure while a line is saved costs none of the lines saved before,
\* unless the length's high byte was changing.
THEOREM TornSavesKeepEarlier == Spec => TornSaveKeepsEarlier
  <1> DEFINE Inv == ~beyond => Saving
  <1>1. Init => Inv
    BY DEF Init, Saving
  <1>2. AllInv /\ Inv /\ [Next]_vars => Inv'
    <2> SUFFICES ASSUME AllInv, Inv, [Next]_vars, ~beyond' PROVE Saving'
      OBVIOUS
    <2>1. ~beyond
      BY BeyondStays DEF AllInv, TypeOK
    <2>2. QED  BY <2>1, SavingNext DEF AllInv
  <1>3. ASSUME SInv, Saving, PowerFails, job = "log", Len(text) \div Base = cmd_length \div Base
        PROVE  IsPrefix(text, text')
    <2>1. text \in Seq(Cells) /\ ee \in Memory
      BY <1>3 DEF SInv, Types, TypeOK
    <2>2. text' = LogCells(StoredLength)
      BY <1>3 DEF PowerFails
    <2>3. StoredLength \in Nat /\ Len(text) <= StoredLength /\ Len(text) <= LogMax
      BY <1>3, TornLength
    <2>4. text' \in Seq(Cells)
      BY <2>1, <2>2, <2>3, LogType DEF Memory
    <2> DEFINE o == Len(text)
               n == StoredLength
               s == text'
    <2>5. Len(s) = n /\ \A i \in 1..o : s[i] = text[i]
      <3>1. \A i \in 1..o : CellOf(ee, LogAt + i - 1) = text[i]
        BY <1>3 DEF Saving
      <3>2. \A i \in 1..o : Cell(LogAt + i - 1) = text[i]
        <4>1. \A i \in 1..o : i \in 1..LogMax
          BY <2>1, <2>3, Layout
        <4>2. QED  BY <2>1, <3>1, <4>1, CellInside
      <3>3. \A i \in 1..o : i \in 1..n
        BY <2>1, <2>3
      <3> HIDE DEF n, o
      <3>4. s = [i \in 1..n |-> Cell(LogAt + i - 1)]
        BY <2>2 DEF LogCells, n
      <3>5. n \in Nat
        BY <2>3 DEF n
      <3>6. QED  BY <3>2, <3>3, <3>4, <3>5
    <2>6. SubSeq(text, 1, o) = SubSeq(s, 1, o)
      <3>1. o \in Nat /\ o <= Len(s) /\ s \in Seq(Cells) /\ text \in Seq(Cells)
        BY <2>1, <2>3, <2>4, <2>5
      <3> HIDE DEF s
      <3>2. \A i \in 1..o : text[i] \in Cells /\ s[i] \in Cells /\ s[i] = text[i]
        BY <2>5, <3>1
      <3> DEFINE p == SubSeq(text, 1, o)
                 q == SubSeq(s, 1, o)
      <3> HIDE DEF o
      <3>3. p \in Seq(Cells) /\ Len(p) = o /\ \A i \in 1..o : p[i] = text[i]
        BY <3>1, <3>2, SubSeqProperties
      <3>4. q \in Seq(Cells) /\ Len(q) = o /\ \A i \in 1..o : q[i] = s[i]
        BY <3>1, <3>2, SubSeqProperties
      <3> HIDE DEF p, q
      <3>5. p = q
        BY <3>2, <3>3, <3>4, SeqEqual
      <3>6. QED  BY <3>5 DEF p, q
    <2>7. QED  BY <2>3, <2>5, <2>6 DEF IsPrefix
  <1>4. AllInv /\ Inv /\ [Next]_vars
          => [PowerFails /\ job = "log" /\ ~beyond /\ Len(text) \div Base = cmd_length \div Base
                => IsPrefix(text, text')]_vars
    BY <1>3 DEF AllInv
  <1>5. QED  BY <1>1, <1>2, <1>4, StoreInvariant, PTL DEF Spec, TornSaveKeepsEarlier

-----------------------------------------------------------------------------
(* What operator>> sees of the rest of a line.                             *)

Kept(s)    == {i \in 1..Len(s) : s[i] \notin {Cr, Lf, Blank}}
Rank(T, i) == Cardinality({j \in T : j <= i})

LEMMA RankType ==
  ASSUME NEW n \in Nat, NEW T \in SUBSET (1..n), NEW i \in T
  PROVE  /\ IsFiniteSet(T) /\ Cardinality(T) \in Nat
         /\ IsFiniteSet({j \in T : j <= i}) /\ Rank(T, i) \in 1..Cardinality(T)
  <1> DEFINE U == {j \in T : j <= i}
  <1>1. IsFiniteSet(T) /\ Cardinality(T) \in Nat
    <2>1. IsFiniteSet(1..n)
      BY FS_Interval
    <2>2. IsFiniteSet(T)
      BY <2>1, FS_Subset
    <2>3. QED  BY <2>2, FS_CardinalityType
  <1>2. IsFiniteSet(U) /\ Cardinality(U) <= Cardinality(T)
    <2>1. U \in SUBSET T
      OBVIOUS
    <2> HIDE DEF U
    <2>2. QED  BY <1>1, <2>1, FS_Subset
  <1>3. i \in U
    OBVIOUS
  <1> HIDE DEF U
  <1>4. Cardinality(U) \in Nat /\ Cardinality(U) # 0
    BY <1>2, <1>3, FS_CardinalityType, FS_EmptySet
  <1>5. Cardinality(U) \in 1..Cardinality(T)
    BY <1>1, <1>2, <1>4
  <1>6. QED  BY <1>1, <1>2, <1>5 DEF Rank, U

\* No two elements have the same rank ...
LEMMA RankOnce ==
  ASSUME NEW n \in Nat, NEW T \in SUBSET (1..n), NEW i \in T, NEW j \in T, Rank(T, i) = Rank(T, j)
  PROVE  i = j
  <1>1. ASSUME NEW x \in T, NEW y \in T, x < y, Rank(T, x) = Rank(T, y) PROVE FALSE
    <2> DEFINE U == {k \in T : k <= x}
               V == {k \in T : k <= y}
    <2>1. x \in Nat /\ y \in Nat /\ T \subseteq Nat
      OBVIOUS
    <2>2. U \in SUBSET V /\ y \in V /\ y \notin U
      <3>1. \A k \in T : k <= x => k <= y
        BY <1>1, <2>1
      <3>2. y <= y /\ ~(y <= x)
        BY <1>1, <2>1
      <3>3. QED  BY <3>1, <3>2
    <2>3. IsFiniteSet(V)
      BY RankType
    <2>4. Cardinality(U) = Cardinality(V)
      BY <1>1 DEF Rank
    <2> HIDE DEF U, V
    <2>5. U = V
      BY <2>2, <2>3, <2>4, FS_Subset
    <2>6. QED  BY <2>2, <2>5
  <1>2. i \in Nat /\ j \in Nat
    OBVIOUS
  <1>3. QED  BY <1>1, <1>2

\* ... and some element has each.
LEMMA RankMet ==
  ASSUME NEW n \in Nat, NEW T \in SUBSET (1..n), NEW k \in 1..Cardinality(T)
  PROVE  \E i \in T : Rank(T, i) = k
  <1> DEFINE N == Cardinality(T)
             f == [i \in T |-> Rank(T, i)]
  <1>1. IsFiniteSet(T) /\ N \in Nat
    <2>1. IsFiniteSet(1..n)
      BY FS_Interval
    <2>2. IsFiniteSet(T)
      BY <2>1, FS_Subset
    <2>3. QED  BY <2>2, FS_CardinalityType
  <1>2. \A i \in T : Rank(T, i) \in 1..N
    BY RankType
  <1>3. \A i, j \in T : Rank(T, i) = Rank(T, j) => i = j
    BY RankOnce
  <1>4. IsFiniteSet(1..N) /\ Cardinality(1..N) = N
    <2>1. IsFiniteSet(1..N) /\ Cardinality(1..N) = IF 1 > N THEN 0 ELSE N - 1 + 1
      <3> HIDE DEF N
      <3>1. QED  BY <1>1, FS_Interval
    <2>2. (IF 1 > N THEN 0 ELSE N - 1 + 1) = N
      <3> HIDE DEF N
      <3>1. QED  BY <1>1
    <2>3. QED  BY <2>1, <2>2
  <1> DEFINE S == 1..N
  <1>5. f \in Injection(T, S)
    BY <1>2, <1>3 DEF Injection, IsInjective
  <1>6. Cardinality(T) = Cardinality(S) /\ IsFiniteSet(S) /\ k \in S
    BY <1>4
  <1> HIDE DEF N, S, f
  <1>7. f \in Surjection(T, S)
    BY <1>5, <1>6, FS_Injection
  <1>8. \E i \in T : f[i] = k
    BY <1>6, <1>7 DEF Surjection
  <1>9. QED  BY <1>8 DEF f

\* A word of a line is the cell of its rank.
LEMMA WordAt ==
  ASSUME NEW s \in Seq(Cells)
  PROVE  /\ Words(s) \in Seq(Cells) /\ Len(Words(s)) = Cardinality(Kept(s)) /\ Cardinality(Kept(s)) \in Nat
         /\ \A i \in Kept(s) : Words(s)[Rank(Kept(s), i)] = s[i]
  <1> DEFINE n == Len(s)
             T == Kept(s)
             at(k) == CHOOSE i \in T : Rank(T, i) = k
  <1>1. n \in Nat /\ T \in SUBSET (1..n) /\ \A i \in 1..n : s[i] \in Cells
    BY DEF Kept
  <1>2. Words(s) = [k \in 1..Cardinality(T) |-> s[at(k)]]
    BY DEF Words, Kept, Rank
  <1> HIDE DEF n, T
  <1>3. Cardinality(T) \in Nat
    <2>1. IsFiniteSet(1..n)
      BY <1>1, FS_Interval
    <2>2. IsFiniteSet(T)
      BY <1>1, <2>1, FS_Subset
    <2>3. QED  BY <2>2, FS_CardinalityType
  <1>4. \A k \in 1..Cardinality(T) : at(k) \in T /\ Rank(T, at(k)) = k
    <2> SUFFICES ASSUME NEW k \in 1..Cardinality(T) PROVE at(k) \in T /\ Rank(T, at(k)) = k
      OBVIOUS
    <2>1. \E i \in T : Rank(T, i) = k
      BY <1>1, RankMet
    <2>2. QED  BY <2>1
  <1>5. \A i \in T : Rank(T, i) \in 1..Cardinality(T)
    BY <1>1, RankType
  <1> HIDE DEF at
  <1>6. \A i \in T : at(Rank(T, i)) = i
    <2> SUFFICES ASSUME NEW i \in T PROVE at(Rank(T, i)) = i
      OBVIOUS
    <2> DEFINE j == at(Rank(T, i))
    <2>1. j \in T /\ Rank(T, j) = Rank(T, i)
      BY <1>4, <1>5
    <2> HIDE DEF j
    <2>2. j = i
      BY <1>1, <2>1, RankOnce
    <2>3. QED  BY <2>2 DEF j
  <1>7. \A k \in 1..Cardinality(T) : s[at(k)] \in Cells
    BY <1>1, <1>4
  <1> DEFINE t(k) == s[at(k)]
             N == Cardinality(T)
  <1>8. Words(s) = [k \in 1..N |-> t(k)] /\ N \in Nat /\ \A k \in 1..N : t(k) \in Cells
    BY <1>2, <1>3, <1>7
  <1> HIDE DEF t, N
  <1>9. Words(s) \in Seq(Cells) /\ Len(Words(s)) = N /\ \A k \in 1..N : Words(s)[k] = t(k)
    BY <1>8
  <1>10. \A i \in T : Words(s)[Rank(T, i)] = s[i]
    BY <1>5, <1>6, <1>9 DEF t, N
  <1>11. QED  BY <1>3, <1>9, <1>10 DEF N, T

\* Numbers moved by d.
LEMMA MovedSize ==
  ASSUME NEW A, A \subseteq Int, IsFiniteSet(A), NEW d \in Int
  PROVE  IsFiniteSet({j + d : j \in A}) /\ Cardinality({j + d : j \in A}) = Cardinality(A)
  <1> DEFINE B == {j + d : j \in A}
             f == [j \in A |-> j + d]
  <1>1. f \in Injection(A, B)
    <2>1. f \in [A -> B]
      OBVIOUS
    <2>2. \A i, j \in A : f[i] = f[j] => i = j
      <3>1. \A i, j \in A : i + d = j + d => i = j
        OBVIOUS
      <3>2. QED  BY <3>1
    <2> HIDE DEF f, B
    <2>3. QED  BY <2>1, <2>2 DEF Injection, IsInjective
  <1>2. f \in Surjection(A, B)
    BY DEF Surjection
  <1>3. f \in Bijection(A, B)
    BY <1>1, <1>2 DEF Bijection
  <1> HIDE DEF B, f
  <1>4. ExistsBijection(A, B)
    BY <1>3 DEF ExistsBijection
  <1>5. IsFiniteSet(B) /\ Cardinality(B) = Cardinality(A)
    BY <1>4, FS_Bijection
  <1>6. QED  BY <1>5 DEF B

\* A suffix, cell by cell.
LEMMA SuffixOf ==
  ASSUME NEW S, NEW s \in Seq(S), NEW t \in Seq(S), Len(s) <= Len(t),
         \A k \in 1..Len(s) : s[k] = t[(Len(t) - Len(s)) + k]
  PROVE  IsSuffix(s, t)
  <1> DEFINE m == Len(s)
             n == Len(t)
             x == Reverse(s)
             y == Reverse(t)
             p == SubSeq(x, 1, m)
             q == SubSeq(y, 1, m)
  <1>1. m \in Nat /\ n \in Nat /\ m <= n
    OBVIOUS
  <1>2. (\A k \in 1..m : s[k] \in S) /\ (\A k \in 1..n : t[k] \in S)
    OBVIOUS
  <1>3. \A k \in 1..m : s[k] = t[(n - m) + k]
    OBVIOUS
  <1>4. x = [i \in 1..m |-> s[(m - i) + 1]] /\ y = [i \in 1..n |-> t[(n - i) + 1]]
    BY DEF Reverse
  <1> HIDE DEF m, n
  <1>5. /\ \A i \in 1..m : (m - i) + 1 \in 1..m /\ (n - m) + ((m - i) + 1) = (n - i) + 1 /\ i \in 1..n
        /\ \A i \in 1..n : (n - i) + 1 \in 1..n
    BY <1>1
  <1>6. x \in Seq(S) /\ Len(x) = m /\ \A i \in 1..m : x[i] = s[(m - i) + 1]
    BY <1>1, <1>2, <1>4, <1>5
  <1>7. y \in Seq(S) /\ Len(y) = n /\ \A i \in 1..n : y[i] = t[(n - i) + 1]
    BY <1>1, <1>2, <1>4, <1>5
  <1> HIDE DEF x, y
  <1>8. \A i \in 1..m : x[i] = y[i] /\ x[i] \in S /\ y[i] \in S
    <2>1. ASSUME NEW i \in 1..m PROVE x[i] = y[i] /\ x[i] \in S
      <3>1. s[(m - i) + 1] = t[(n - i) + 1] /\ s[(m - i) + 1] \in S
        BY <1>2, <1>3, <1>5
      <3>2. QED  BY <1>5, <1>6, <1>7, <3>1
    <2>2. QED  BY <2>1
  <1>9. p \in Seq(S) /\ Len(p) = m /\ \A i \in 1..m : p[i] = x[i]
    BY <1>1, <1>6, <1>8, SubSeqProperties
  <1>10. q \in Seq(S) /\ Len(q) = m /\ \A i \in 1..m : q[i] = y[i]
    BY <1>1, <1>7, <1>8, SubSeqProperties
  <1> HIDE DEF p, q
  <1>11. p = q
    BY <1>8, <1>9, <1>10, SeqEqual
  <1>12. QED  BY <1>1, <1>6, <1>7, <1>11 DEF IsSuffix, IsPrefix, p, q, x, y

\* Cells of which the first a are white space and the others are the last ones
\* of a line have the last words of the line.
LEMMA WordsSuffix ==
  ASSUME NEW s \in Seq(Cells), NEW line \in Seq(Cells), NEW a \in 0..Len(s), Len(s) - a <= Len(line),
         \A i \in 1..a : s[i] \in {Cr, Lf, Blank},
         \A i \in (a + 1)..Len(s) : s[i] = line[(Len(line) - Len(s)) + i]
  PROVE  IsSuffix(Words(s), Words(line))
  <1> DEFINE f == Len(s)
             m == Len(line)
             d == m - f
             K == Kept(s)
             L == Kept(line)
             L1 == {j \in L : j <= d + a}
             B == {j + d : j \in K}
  <1>1. /\ f \in Nat /\ m \in Nat /\ a \in Nat /\ a <= f /\ f - a <= m
    OBVIOUS
  <1>2. /\ \A i \in 1..a : s[i] \in {Cr, Lf, Blank}
        /\ \A i \in (a + 1)..f : s[i] = line[d + i]
    OBVIOUS
  <1>3. K = {i \in 1..f : s[i] \notin {Cr, Lf, Blank}} /\ L = {i \in 1..m : line[i] \notin {Cr, Lf, Blank}}
    BY DEF Kept
  <1> HIDE DEF f, m, K, L
  <1>4. d \in Int /\ d + a >= 0
    BY <1>1
  <1>5. ASSUME NEW i \in K PROVE i \in (a + 1)..f /\ i + d \in L /\ i + d > d + a /\ s[i] = line[i + d]
    <2>1. i \in 1..f /\ i \notin 1..a
      BY <1>2, <1>3
    <2>2. i \in (a + 1)..f /\ d + i \in 1..m /\ i + d > d + a /\ d + i = i + d
      BY <1>1, <2>1
    <2>3. s[i] = line[d + i]
      BY <1>2, <2>2
    <2>4. QED  BY <1>3, <2>2, <2>3
  <1>6. ASSUME NEW j \in L, j > d + a PROVE j - d \in K /\ (j - d) + d = j
    <2>1. j \in 1..m
      BY <1>3
    <2>2. j - d \in (a + 1)..f /\ j - d \in 1..f /\ d + (j - d) = j /\ (j - d) + d = j
      BY <1>1, <1>6, <2>1
    <2>3. s[j - d] = line[j]
      <3>1. s[j - d] = line[d + (j - d)]
        BY <1>2, <2>2
      <3>2. QED  BY <2>2, <3>1
    <2>4. QED  BY <1>3, <2>2, <2>3
  <1>7. K \in SUBSET (1..f) /\ L \in SUBSET (1..m) /\ K \subseteq Int /\ L \subseteq Int
    BY <1>1, <1>3
  <1>8. IsFiniteSet(K) /\ IsFiniteSet(L) /\ IsFiniteSet(L1)
    <2>1. IsFiniteSet(1..f) /\ IsFiniteSet(1..m)
      <3>1. 1 \in Int /\ f \in Int /\ m \in Int
        BY <1>1
      <3>2. QED  BY <3>1, FS_Interval
    <2>2. IsFiniteSet(K) /\ IsFiniteSet(L)
      BY <1>7, <2>1, FS_Subset
    <2>3. L1 \in SUBSET L
      OBVIOUS
    <2> HIDE DEF L1
    <2>4. QED  BY <2>2, <2>3, FS_Subset
  <1>9. Cardinality(L1) \in Nat /\ Cardinality(K) \in Nat
    BY <1>8, FS_CardinalityType
  \* What comes first in the line, and a part of what the cells have.
  <1>10. ASSUME NEW A \in SUBSET K
         PROVE  Cardinality(L1 \cup {j + d : j \in A}) = Cardinality(L1) + Cardinality(A)
    <2> DEFINE C == {j + d : j \in A}
    <2>1. IsFiniteSet(A)
      BY <1>8, FS_Subset
    <2>2. Cardinality(A) \in Nat
      BY <2>1, FS_CardinalityType
    <2>3. IsFiniteSet(C) /\ Cardinality(C) = Cardinality(A)
      BY <1>4, <1>7, <2>1, MovedSize
    <2>4. L1 \cap C = {}
      <3> SUFFICES ASSUME NEW x \in L1, x \in C PROVE FALSE
        OBVIOUS
      <3>1. PICK j \in K : x = j + d
        OBVIOUS
      <3>2. x <= d + a /\ x > d + a /\ x \in Int
        BY <1>5, <1>7, <3>1
      <3> HIDE DEF d
      <3>3. QED  BY <1>1, <1>4, <3>2
    <2> HIDE DEF C, L1
    <2>5. Cardinality(L1 \cup C) = Cardinality(L1) + Cardinality(C) - Cardinality(L1 \cap C)
      BY <1>8, <2>3, FS_Union
    <2>6. Cardinality(L1 \cap C) = 0
      BY <2>4, FS_EmptySet
    <2>7. QED  BY <1>9, <2>2, <2>3, <2>5, <2>6 DEF C
  <1>11. Cardinality(L) = Cardinality(L1) + Cardinality(K)
    <2>1. L = L1 \cup B
      <3>1. ASSUME NEW j \in L, j \notin L1 PROVE j \in B
        <4>1. j > d + a
          BY <1>4, <1>7, <3>1
        <4>2. QED  BY <1>6, <4>1
      <3>2. B \subseteq L
        BY <1>5
      <3>3. QED  BY <3>1, <3>2
    <2>2. K \in SUBSET K
      OBVIOUS
    <2> HIDE DEF L1
    <2>3. QED  BY <1>10, <2>1, <2>2
  <1>12. ASSUME NEW i \in K PROVE Rank(L, i + d) = Cardinality(L1) + Rank(K, i)
    <2> DEFINE A == {j \in K : j <= i}
               C == {j + d : j \in A}
    <2>1. {j \in L : j <= i + d} = L1 \cup C
      <3>1. ASSUME NEW j \in L, j <= i + d, j \notin L1 PROVE j \in C
        <4>1. j > d + a /\ j \in Int
          BY <1>4, <1>7, <3>1
        <4>2. j - d \in K /\ (j - d) + d = j
          BY <1>6, <4>1
        <4>3. j - d <= i
          BY <1>4, <1>7, <3>1, <4>1
        <4>4. QED  BY <4>2, <4>3
      <3>2. ASSUME NEW j \in A PROVE j + d \in L /\ j + d <= i + d
        BY <1>4, <1>5, <1>7
      <3>3. ASSUME NEW j \in L1 PROVE j \in L /\ j <= i + d
        <4>1. j \in L /\ j <= d + a /\ d + a < i + d /\ j \in Int /\ i + d \in Int
          BY <1>4, <1>5, <1>7
        <4> HIDE DEF d
        <4>2. QED  BY <1>1, <1>4, <4>1
      <3>4. QED  BY <3>1, <3>2, <3>3
    <2>2. A \in SUBSET K
      OBVIOUS
    <2> HIDE DEF A, L1
    <2>3. Cardinality(L1 \cup C) = Cardinality(L1) + Cardinality(A)
      BY <1>10, <2>2
    <2>4. QED  BY <2>1, <2>3 DEF Rank, A
  <1> DEFINE x == Words(s)
             y == Words(line)
  <1>13. x \in Seq(Cells) /\ Len(x) = Cardinality(K) /\ \A i \in K : x[Rank(K, i)] = s[i]
    BY WordAt DEF K
  <1>14. y \in Seq(Cells) /\ Len(y) = Cardinality(L) /\ \A i \in L : y[Rank(L, i)] = line[i]
    BY WordAt DEF L
  <1> HIDE DEF x, y, d, L1, B
  <1>15. ASSUME NEW k \in 1..Len(x) PROVE x[k] = y[(Len(y) - Len(x)) + k]
    <2>1. PICK i \in K : Rank(K, i) = k
      BY <1>1, <1>7, <1>13, <1>15, RankMet
    <2>2. x[k] = s[i] /\ s[i] = line[i + d] /\ i + d \in L
      BY <1>5, <1>13, <2>1
    <2>3. y[Rank(L, i + d)] = line[i + d]
      BY <1>14, <2>2
    <2>4. Rank(L, i + d) = Cardinality(L1) + k
      BY <1>12, <2>1
    <2>5. (Len(y) - Len(x)) + k = Cardinality(L1) + k
      BY <1>9, <1>11, <1>13, <1>14
    <2>6. QED  BY <2>2, <2>3, <2>4, <2>5
  <1>16. Len(x) <= Len(y)
    BY <1>9, <1>11, <1>13, <1>14
  <1>17. IsSuffix(x, y)
    BY <1>13, <1>14, <1>15, <1>16, SuffixOf
  <1>18. QED  BY <1>17 DEF x, y

-----------------------------------------------------------------------------
(* What a replay reads.                                                    *)

\* The log's cells, and where lines end.
Log == [k \in Nat |-> IF k < LogMax THEN ee[LogAt + k] ELSE Erased]
LineEnds(f) == {p \in Nat : p > 0 /\ f[p - 1] = Cr /\ f[p] = Lf}

\* A line as save_cmd gets it.
IsLine(line) ==
  /\ line \in Seq(Cells) /\ Len(line) > 1
  /\ line[Len(line) - 1] = Cr /\ line[Len(line)] = Lf
  /\ \A i \in 1..(Len(line) - 2) : line[i] \notin {Cr, Lf}

\* Cells c to p hold the rest of the line, and between the end of the line
\* before and c there is nothing but Lf.
Rest(f, line, c, p) ==
  /\ c < p /\ p - c < Len(line)
  /\ \A k \in c..p : f[k] = line[Len(line) - (p - k)]
  /\ \A k \in Nat : k < c => f[k] = Lf \/ \E r \in LineEnds(f) : k < r /\ r < c

\* Every end of a line, in the log or in what older logs left behind it, ends
\* one of the lines or the rest of one.
Tidy(f, lines) == \A p \in LineEnds(f) : \E line \in lines, c \in Nat : Rest(f, line, c, p)

\* A line ends before cell n, or n is the log's first cell.
EndsAt(f, n) == n = 0 \/ n - 1 \in LineEnds(f)

Written(f, s, line) ==
  [k \in Nat |-> IF k \in s..(s + Len(line) - 1) THEN line[k - s + 1] ELSE f[k]]

LEMMA LineDiffers == Cr # Lf /\ Erased # Cr /\ Erased # Lf
  BY StoreAssumption DEF Erased

\* A line behind the end of another, over whatever was there, leaves the log
\* tidy: what is left of a longer log is the rest of its lines.
LEMMA LineWritten ==
  ASSUME NEW f, NEW lines, NEW s \in Nat, NEW line, IsLine(line), Tidy(f, lines), EndsAt(f, s)
  PROVE  LET g == Written(f, s, line) IN Tidy(g, lines \cup {line}) /\ EndsAt(g, s + Len(line))
  <1> DEFINE g == Written(f, s, line)
             m == Len(line)
             e == s + m - 1
  <1>1. /\ m \in Nat /\ m > 1 /\ line[m - 1] = Cr /\ line[m] = Lf
        /\ \A i \in 1..(m - 2) : line[i] \notin {Cr, Lf}
    BY DEF IsLine
  <1> HIDE DEF m
  <1>2. /\ e \in Nat /\ s <= e /\ e = s + m - 1
        /\ \A k \in Nat : g[k] = IF k \in s..e THEN line[k - s + 1] ELSE f[k]
    BY <1>1 DEF Written, m
  <1> HIDE DEF g, e
  <1>3. \A k \in Nat : (k < s \/ k > e) => g[k] = f[k]
    BY <1>2
  <1>4. /\ g[e] = Lf /\ g[e - 1] = Cr /\ e > 0 /\ e - 1 \in Nat
        /\ \A k \in s..(e - 2) : g[k] \notin {Cr, Lf}
    <2> DEFINE a == e - 1
    <2>1. m \in Nat /\ m > 1 /\ e \in Nat /\ e = s + m - 1
      BY <1>1, <1>2
    <2>2. e \in s..e /\ e - s + 1 = m
      BY <2>1
    <2>3. a \in s..e /\ a - s + 1 = m - 1 /\ e > 0 /\ a \in Nat
      BY <2>1
    <2>4. \A k \in s..(e - 2) : k \in Nat /\ k \in s..e /\ k - s + 1 \in 1..(m - 2)
      BY <1>1, <1>2
    <2>5. QED  BY <1>1, <1>2, <2>2, <2>3, <2>4
  <1>5. e \in LineEnds(g)
    BY <1>2, <1>4 DEF LineEnds
  <1>6. \A r \in Nat : r < s => (r \in LineEnds(g) <=> r \in LineEnds(f))
    <2>1. \A r \in Nat : r < s /\ r > 0 => r - 1 \in Nat /\ r - 1 < s
      OBVIOUS
    <2>2. QED  BY <1>3, <2>1 DEF LineEnds
  <1>7. \A r \in Nat : r > e + 1 => (r \in LineEnds(g) <=> r \in LineEnds(f))
    <2>1. \A r \in Nat : r > e + 1 => r - 1 \in Nat /\ r - 1 > e /\ r > e
      BY <1>2
    <2>2. QED  BY <1>3, <2>1 DEF LineEnds
  <1>8. \A r \in LineEnds(g) : r < s \/ r = e \/ r > e + 1
    <2> SUFFICES ASSUME NEW r \in Nat, r > 0, g[r - 1] = Cr, g[r] = Lf PROVE r < s \/ r = e \/ r > e + 1
      BY DEF LineEnds
    <2>1. r \notin s..(e - 2) /\ r # e - 1 /\ r # e + 1
      <3>1. r # e + 1
        <4>1. r = e + 1 => r - 1 = e
          BY <1>2
        <4>2. QED  BY <1>4, <4>1, LineDiffers
      <3>2. QED  BY <1>4, <3>1, LineDiffers
    <2>2. QED  BY <1>2, <2>1
  <1>9. Tidy(g, lines \cup {line})
    <2> SUFFICES ASSUME NEW p \in LineEnds(g)
                 PROVE  \E l \in lines \cup {line}, c \in Nat : Rest(g, l, c, p)
      BY DEF Tidy
    <2>1. p \in Nat
      BY DEF LineEnds
    <2>2. CASE p < s
      <3>1. PICK l \in lines, c \in Nat : Rest(f, l, c, p)
        BY <1>6, <2>1, <2>2 DEF Tidy
      <3>2. /\ c < p /\ p - c < Len(l)
            /\ \A k \in c..p : f[k] = l[Len(l) - (p - k)]
            /\ \A k \in Nat : k < c => f[k] = Lf \/ \E r \in LineEnds(f) : k < r /\ r < c
        BY <3>1 DEF Rest
      <3>3. \A k \in c..p : g[k] = l[Len(l) - (p - k)]
        <4>1. \A k \in c..p : k \in Nat /\ k < s
          BY <2>1, <2>2
        <4>2. QED  BY <1>3, <3>2, <4>1
      <3>4. ASSUME NEW k \in Nat, k < c PROVE g[k] = Lf \/ \E r \in LineEnds(g) : k < r /\ r < c
        <4>1. k < s /\ g[k] = f[k]
          BY <1>3, <2>1, <2>2, <3>2, <3>4
        <4>2. CASE f[k] = Lf
          BY <4>1, <4>2
        <4>3. CASE \E r \in LineEnds(f) : k < r /\ r < c
          <5>1. PICK r \in LineEnds(f) : k < r /\ r < c
            BY <4>3
          <5>2. r \in Nat
            BY DEF LineEnds
          <5>3. r < s
            BY <2>1, <2>2, <3>2, <5>1, <5>2
          <5>4. QED  BY <1>6, <5>1, <5>2, <5>3
        <4>4. QED  BY <3>2, <3>4, <4>2, <4>3
      <3>5. Rest(g, l, c, p)
        BY <3>2, <3>3, <3>4 DEF Rest
      <3>6. QED  BY <3>5
    <2>3. CASE p = e
      <3>1. s < p /\ p - s < Len(line)
        <4>1. s < p /\ p - s < m
          BY <1>1, <1>2, <2>3
        <4>2. QED  BY <4>1 DEF m
      <3>2. \A k \in s..p : g[k] = line[Len(line) - (p - k)]
        <4>1. \A k \in s..p : k \in Nat /\ k \in s..e /\ m - (p - k) = k - s + 1
          BY <1>1, <1>2, <2>3
        <4>2. \A k \in s..p : g[k] = line[k - s + 1]
          BY <1>2, <4>1
        <4>3. \A k \in s..p : g[k] = line[m - (p - k)]
          BY <4>1, <4>2
        <4>4. QED  BY <4>3 DEF m
      <3>3. ASSUME NEW k \in Nat, k < s PROVE g[k] = Lf \/ \E r \in LineEnds(g) : k < r /\ r < s
        <4>1. s - 1 \in LineEnds(f) /\ s - 1 \in Nat /\ s - 1 < s
          BY <3>3 DEF EndsAt
        <4>2. s - 1 \in LineEnds(g)
          BY <1>6, <4>1
        <4>3. k < s - 1 \/ k = s - 1
          BY <3>3
        <4>4. k = s - 1 => g[k] = Lf
          BY <4>2 DEF LineEnds
        <4>5. QED  BY <4>1, <4>2, <4>3, <4>4
      <3>4. Rest(g, line, s, p)
        BY <3>1, <3>2, <3>3 DEF Rest
      <3>5. QED  BY <3>4
    <2>4. CASE p > e + 1
      <3>1. PICK l \in lines, c \in Nat : Rest(f, l, c, p)
        BY <1>7, <2>1, <2>4 DEF Tidy
      <3>2. /\ c < p /\ p - c < Len(l)
            /\ \A k \in c..p : f[k] = l[Len(l) - (p - k)]
            /\ \A k \in Nat : k < c => f[k] = Lf \/ \E r \in LineEnds(f) : k < r /\ r < c
        BY <3>1 DEF Rest
      <3> DEFINE d == IF c <= e THEN e + 1 ELSE c
      <3>3. d \in Nat /\ d > e /\ c <= d /\ d < p /\ (c > e => d = c) /\ (c <= e => d = e + 1)
        BY <1>2, <2>1, <2>4, <3>2
      <3> HIDE DEF d
      <3>4. p - d < Len(l)
        <4> DEFINE n == Len(l)
        <4>1. p - c < n
          BY <3>2
        <4> HIDE DEF n
        <4>2. p - d < n \/ n \notin Int
          BY <2>1, <3>3, <4>1
        <4>3. QED  BY <2>1, <3>2, <3>3
      <3>5. \A k \in d..p : g[k] = l[Len(l) - (p - k)]
        <4>1. \A k \in d..p : k \in Nat /\ k > e /\ k \in c..p
          BY <1>2, <2>1, <3>3
        <4>2. QED  BY <1>3, <3>2, <4>1
      <3>6. ASSUME NEW k \in Nat, k < d PROVE g[k] = Lf \/ \E r \in LineEnds(g) : k < r /\ r < d
        <4>1. CASE k < e
          BY <1>5, <3>3, <4>1
        <4>2. CASE k = e
          BY <1>4, <4>2
        <4>3. CASE k > e
          <5>1. c > e /\ d = c /\ k < c /\ g[k] = f[k]
            BY <1>2, <1>3, <3>3, <3>6, <4>3
          <5>2. CASE f[k] = Lf
            BY <5>1, <5>2
          <5>3. CASE \E r \in LineEnds(f) : k < r /\ r < c
            <6>1. PICK r \in LineEnds(f) : k < r /\ r < c
              BY <5>3
            <6>2. r \in Nat
              BY DEF LineEnds
            <6>3. r > e + 1
              BY <1>2, <4>3, <6>1, <6>2
            <6>4. QED  BY <1>7, <5>1, <6>1, <6>2, <6>3
          <5>4. QED  BY <3>2, <5>1, <5>2, <5>3
        <4>4. QED  BY <1>2, <4>1, <4>2, <4>3
      <3>7. Rest(g, l, d, p)
        BY <3>3, <3>4, <3>5, <3>6 DEF Rest
      <3>8. QED  BY <3>3, <3>7
    <2>5. QED  BY <1>8, <2>2, <2>3, <2>4
  <1>10. EndsAt(g, s + m)
    <2>1. (s + m) - 1 = e
      BY <1>1, <1>2
    <2>2. QED  BY <1>5, <2>1 DEF EndsAt
  <1>11. QED  BY <1>9, <1>10 DEF g, m

\* More lines.
LEMMA StillTidy ==
  ASSUME NEW f, NEW S, NEW T, Tidy(f, S), S \subseteq T
  PROVE  Tidy(f, T)
  BY DEF Tidy

\* The words of cells of which the first a and the last ones are ends of lines.
\* What read_next_cmd returns of a tidy log is the rest of a line, behind ends
\* of lines, or nothing.
LEMMA RestRead ==
  ASSUME ee \in Memory, cmd_len \in Nat, NEW lines, Tidy(Log, lines), NextLine # <<>>,
         cmd_len + Len(NextLine) <= LogMax
  PROVE  \E line \in lines, c \in Nat, f \in Nat :
           /\ f > 1 /\ Rest(Log, line, c, cmd_len + f - 1)
           /\ NextLine \in Seq(Cells) /\ Len(NextLine) = f
           /\ \A i \in 1..f : NextLine[i] = Log[cmd_len + i - 1]
           /\ \A r \in LineEnds(Log) : ~(cmd_len < r /\ r < cmd_len + f - 1)
  <1> DEFINE o == cmd_len
             read == [i \in 1..LineMax |-> Cell(LogAt + o + i - 1)]
             ends == {i \in 2..LineMax : read[i - 1] = Cr /\ read[i] = Lf}
             f == First(ends)
  <1>1. ends # {} /\ NextLine = SubSeq(read, 1, f)
    BY DEF NextLine
  <1>2. LineMax \in Nat /\ o \in Nat /\ LogAt \in Nat /\ LogMax \in Nat
    BY StoreAssumption, Layout
  <1>3. f \in ends /\ \A i \in ends : f <= i
    <2>1. ends \in SUBSET (Nat \ {0})
      BY <1>2
    <2> HIDE DEF ends
    <2>2. QED  BY <1>1, <2>1, FirstFound DEF First
  <1>4. \A i \in 1..LineMax : read[i] \in Cells
    <2>1. \A i \in 1..LineMax : LogAt + o + i - 1 \in Nat
      BY <1>2
    <2>2. QED  BY <2>1, CellType DEF Memory
  <1>5. f \in 2..LineMax /\ read[f - 1] = Cr /\ read[f] = Lf /\ f - 1 \in 1..LineMax /\ f \in 1..LineMax
    <2>1. f \in 2..LineMax /\ read[f - 1] = Cr /\ read[f] = Lf
      <3> HIDE DEF f, read
      <3>1. QED  BY <1>3
    <2> HIDE DEF f, read, ends
    <2>2. f - 1 \in 1..LineMax /\ f \in 1..LineMax
      BY <1>2, <2>1
    <2>3. QED  BY <2>1, <2>2
  <1>6. read \in Seq(Cells) /\ Len(read) = LineMax
    BY <1>2, <1>4
  <1>7. \A i \in 1..LineMax : read[i] = Cell(LogAt + (o + i) - 1)
    <2>1. \A i \in 1..LineMax : LogAt + (o + i) - 1 = LogAt + o + i - 1
      BY <1>2
    <2>2. QED  BY <2>1
  <1>8. \A i \in 2..LineMax : read[i - 1] = Cr /\ read[i] = Lf => i \in ends
    OBVIOUS
  <1> HIDE DEF read, ends, f
  <1>9. SubSeq(read, 1, f) \in Seq(Cells) /\ Len(SubSeq(read, 1, f)) = f
        /\ \A i \in 1..f : SubSeq(read, 1, f)[i] = read[i]
    <2>1. \A i \in 1..f : i \in 1..LineMax /\ read[i] \in Cells
      BY <1>2, <1>4, <1>5
    <2>2. 1 \in Int /\ f \in Int /\ f \in Nat
      BY <1>2, <1>5
    <2>3. QED  BY <1>5, <1>6, <2>1, <2>2, SubSeqProperties
  <1>10. f \in Nat /\ f > 1 /\ o + f <= LogMax
    BY <1>1, <1>2, <1>5, <1>9
  <1>11. \A i \in 1..f : read[i] = Log[o + i - 1]
    <2> SUFFICES ASSUME NEW i \in 1..f PROVE read[i] = Log[o + i - 1]
      OBVIOUS
    <2>1. /\ i \in 1..LineMax /\ o + i \in 1..LogMax /\ o + i - 1 \in Nat /\ o + i - 1 < LogMax
          /\ LogAt + (o + i - 1) = LogAt + (o + i) - 1
      BY <1>2, <1>5, <1>10
    <2>2. read[i] = ee[LogAt + (o + i) - 1]
      BY <1>7, <2>1, CellInside
    <2>3. QED  BY <2>1, <2>2 DEF Log
  <1>12. o + f - 1 \in LineEnds(Log)
    <2>1. /\ o + f - 1 \in Nat /\ o + f - 1 > 0 /\ (o + f - 1) - 1 = o + (f - 1) - 1
          /\ f \in 1..f /\ f - 1 \in 1..f
      BY <1>2, <1>10
    <2>2. Log[o + (f - 1) - 1] = Cr /\ Log[o + f - 1] = Lf
      BY <1>5, <1>11, <2>1
    <2>3. QED  BY <2>1, <2>2 DEF LineEnds
  <1>13. ASSUME NEW r \in LineEnds(Log), o < r, r < o + f - 1 PROVE FALSE
    <2>1. r \in Nat /\ Log[r - 1] = Cr /\ Log[r] = Lf
      BY DEF LineEnds
    <2> DEFINE i == r - o + 1
    <2>2. /\ i \in 2..LineMax /\ i < f /\ i \in 1..f /\ i - 1 \in 1..f
          /\ o + i - 1 = r /\ o + (i - 1) - 1 = r - 1
      BY <1>2, <1>5, <1>13, <2>1
    <2> HIDE DEF i
    <2>3. read[i - 1] = Cr /\ read[i] = Lf
      BY <1>11, <2>1, <2>2
    <2>4. f <= i
      BY <1>3, <1>8, <2>2, <2>3
    <2>5. f \in Nat /\ i \in Nat
      BY <1>2, <1>5, <2>2
    <2>6. QED  BY <2>2, <2>4, <2>5
  <1>14. \A i \in 1..f : NextLine[i] = Log[o + i - 1]
    BY <1>1, <1>9, <1>11
  <1>15. PICK line \in lines, c \in Nat : Rest(Log, line, c, o + f - 1)
    BY <1>12 DEF Tidy
  <1>16. QED  BY <1>1, <1>9, <1>10, <1>13, <1>14, <1>15

LEMMA NothingNew ==
  ASSUME ee \in Memory, cmd_len \in Nat, NEW lines, \A line \in lines : IsLine(line),
         Tidy(Log, lines), NextLine # <<>>, cmd_len + Len(NextLine) <= LogMax
  PROVE  \E line \in lines : IsSuffix(Words(NextLine), Words(line))
  <1> DEFINE o == cmd_len
             s == NextLine
  <1>1. PICK line \in lines, c \in Nat, f \in Nat :
          /\ f > 1 /\ Rest(Log, line, c, o + f - 1)
          /\ s \in Seq(Cells) /\ Len(s) = f
          /\ \A i \in 1..f : s[i] = Log[o + i - 1]
          /\ \A r \in LineEnds(Log) : ~(o < r /\ r < o + f - 1)
    BY RestRead
  <1> DEFINE m == Len(line)
             p == o + f - 1
             a == IF o < c THEN c - o ELSE 0
  <1>2. o \in Nat /\ p \in Nat /\ p = o + f - 1 /\ p > o
    BY <1>1
  <1> HIDE DEF s
  <1>3. line \in Seq(Cells) /\ m \in Nat
    BY DEF IsLine
  <1>4. /\ c < p /\ p - c < m
        /\ \A k \in c..p : Log[k] = line[m - (p - k)]
        /\ \A k \in Nat : k < c => Log[k] = Lf \/ \E r \in LineEnds(Log) : k < r /\ r < c
    BY <1>1 DEF Rest
  <1> HIDE DEF m, p, o
  <1>5. /\ a \in 0..f /\ f - a <= m /\ (a > 0 => o + a = c) /\ o + a >= c
    BY <1>1, <1>2, <1>3, <1>4
  <1> HIDE DEF a
  <1>6. \A i \in 1..a : s[i] = Lf
    <2> SUFFICES ASSUME NEW i \in 1..a PROVE s[i] = Lf
      OBVIOUS
    <2> DEFINE k == o + i - 1
    <2>1. k \in Nat /\ k < c /\ o <= k /\ i \in 1..f /\ s[i] = Log[k]
      BY <1>1, <1>2, <1>5 DEF o
    <2> HIDE DEF k
    <2>2. ASSUME NEW r \in LineEnds(Log), k < r, r < c PROVE FALSE
      <3>1. r \in Nat
        BY DEF LineEnds
      <3>2. o < r /\ r < p
        BY <1>2, <1>4, <2>1, <2>2, <3>1
      <3>3. QED  BY <1>1, <1>2, <3>2 DEF p, o
    <2>3. QED  BY <1>4, <2>1, <2>2
  <1>7. \A i \in (a + 1)..f : s[i] = line[(m - f) + i]
    <2> SUFFICES ASSUME NEW i \in (a + 1)..f PROVE s[i] = line[(m - f) + i]
      OBVIOUS
    <2> DEFINE k == o + i - 1
    <2>1. k \in c..p /\ m - (p - k) = (m - f) + i /\ i \in 1..f
      BY <1>1, <1>2, <1>3, <1>5
    <2>2. s[i] = Log[k]
      BY <1>1, <2>1 DEF o
    <2> HIDE DEF k
    <2>3. QED  BY <1>4, <2>1, <2>2
  <1>8. IsSuffix(Words(s), Words(line))
    <2>1. s \in Seq(Cells) /\ Len(s) = f
      BY <1>1
    <2>2. a \in 0..Len(s) /\ Len(s) - a <= Len(line)
      BY <1>5, <2>1 DEF m
    <2>3. /\ \A i \in 1..a : s[i] \in {Cr, Lf, Blank}
          /\ \A i \in (a + 1)..Len(s) : s[i] = line[(Len(line) - Len(s)) + i]
      BY <1>6, <1>7, <2>1 DEF m
    <2>4. QED  BY <1>3, <2>1, <2>2, <2>3, WordsSuffix
  <1>9. QED  BY <1>8 DEF s

\* Nothing is the rest of every line.
LEMMA NothingRead ==
  ASSUME NEW line, IsLine(line)
  PROVE  IsSuffix(Words(<<>>), Words(line))
  <1> DEFINE e == <<>>
  <1>1. e \in Seq(Cells) /\ Len(e) = 0 /\ line \in Seq(Cells) /\ Len(line) \in Nat
    BY DEF IsLine
  <1> HIDE DEF e
  <1>2. /\ 0 \in 0..Len(e) /\ Len(e) - 0 <= Len(line)
        /\ \A i \in 1..0 : e[i] \in {Cr, Lf, Blank}
        /\ \A i \in (0 + 1)..Len(e) : e[i] = line[(Len(line) - Len(e)) + i]
    BY <1>1
  <1>3. IsSuffix(Words(e), Words(line))
    BY <1>1, <1>2, WordsSuffix
  <1>4. QED  BY <1>3 DEF e

-----------------------------------------------------------------------------
(* The log is tidy as long as no power failure tears it.                   *)

Below(w) == \A i \in 1..Len(w) : w[i].at < LogAt

\* Every line ever saved is one, and before the first nothing lies in the log.
Lines ==
  /\ \A line \in typed : IsLine(line)
  /\ typed = {} => \A k \in Nat : Log[k] = Erased
  /\ job = "log" => saving \in typed /\ cmd_length = Len(text) + Len(saving)

\* Only save_cmd writes to the log, behind its old end, and after the length.
Order ==
  /\ job # "log" => Below(todo)
  /\ job = "log" =>
       \A i \in 1..Len(todo) :
         todo[i].at >= LogAt =>
           /\ todo[i].at \in (LogAt + Len(text))..(LogAt + cmd_length - 1)
           /\ \A j \in 1..Len(todo) : i < j => todo[j].at >= LogAt

\* A byte of the length is still to be written, and none of the line is.
LengthLeft == \E i \in 1..Len(todo) : todo[i].at < LogAt

TidyNow ==
  ~torn /\ (job # "log" \/ LengthLeft) => Tidy(Log, typed) /\ EndsAt(Log, Len(text))

\* The log as it is when the line in progress is written.
LogThen  == Written(Log, Len(text), saving)
TidyThen == ~torn /\ job = "log" => Tidy(LogThen, typed) /\ EndsAt(LogThen, cmd_length)

LInv == Lines /\ Order /\ TidyNow /\ TidyThen

\* Which cells a list of writes leaves alone.
LEMMA BelowJoin ==
  ASSUME NEW u \in Seq(Write), NEW w \in Seq(Write), Below(u), Below(w)
  PROVE  u \o w \in Seq(Write) /\ Below(u \o w)
  <1> DEFINE t == u \o w
             L == Len(u)
             M == Len(w)
  <1>1. /\ t \in Seq(Write) /\ Len(t) = L + M /\ L \in Nat /\ M \in Nat
        /\ \A k \in 1..(L + M) : t[k] = IF k <= L THEN u[k] ELSE w[k - L]
    BY ConcatProperties
  <1> HIDE DEF t
  <1>2. (\A i \in 1..L : u[i].at < LogAt) /\ (\A i \in 1..M : w[i].at < LogAt)
    BY DEF Below
  <1> HIDE DEF L, M
  <1>3. ASSUME NEW k \in 1..(L + M) PROVE t[k].at < LogAt
    <2>1. CASE k <= L
      <3>1. k \in 1..L /\ t[k] = u[k]
        BY <1>1, <2>1
      <3>2. QED  BY <1>2, <3>1
    <2>2. CASE ~(k <= L)
      <3>1. k - L \in 1..M /\ t[k] = w[k - L]
        BY <1>1, <2>2
      <3>2. QED  BY <1>2, <3>1
    <2>3. QED  BY <2>1, <2>2
  <1>4. QED  BY <1>1, <1>3 DEF Below, t

LEMMA PutBelow ==
  ASSUME NEW b \in Nat, NEW s \in Seq(Cells), b + Len(s) <= LogAt
  PROVE  Put(b, s) \in Seq(Write) /\ Below(Put(b, s))
  <1> DEFINE m == Len(s)
             p == Put(b, s)
  <1>1. m \in Nat /\ b + m <= LogAt /\ LogAt \in Nat /\ LogAt <= Size /\ Size \in Nat
    BY Layout
  <1>2. b + Len(s) <= Size
    <2> HIDE DEF m
    <2>1. b + m <= Size
      BY <1>1
    <2>2. QED  BY <2>1 DEF m
  <1>3. p \in Seq(Write) /\ Len(p) = m /\ \A i \in 1..m : p[i].at = b + i - 1
    BY <1>2, PutWrites
  <1> HIDE DEF p, m
  <1>4. \A i \in 1..m : b + i - 1 < LogAt
    BY <1>1
  <1>5. QED  BY <1>3, <1>4 DEF Below, p

LEMMA NameBelow ==
  ASSUME NEW k \in 1..3, NEW n \in Name, NEW x \in {PutName(k, n), SaveName(k, n)}
  PROVE  x \in Seq(Write) /\ Below(x)
  <1> DEFINE h == IF x = PutName(k, n) THEN <<Len(n)>> ELSE Bytes(Len(n))
             p == Put(NameAt(k), h)
             q == Put(NameAt(k) + 1, n)
  <1>1. n \in Seq(Cells) /\ Len(n) \in 0..NameMax /\ Len(n) \in 0..(Base - 1)
    BY Layout DEF Name
  <1>2. h \in Seq(Cells) /\ Len(h) \in 1..2
    BY <1>1, OneByte
  <1>3. x = p \o q
    BY DEF PutName, SaveName
  <1>4. /\ NameAt(k) \in Nat /\ NameAt(k) + 1 \in Nat
        /\ NameAt(k) + Len(h) <= LogAt /\ NameAt(k) + 1 + Len(n) <= LogAt
    <2> DEFINE H == Len(h)
               N == Len(n)
    <2>1. H \in 1..2 /\ N \in 0..NameMax
      BY <1>1, <1>2
    <2>2. NameAt(k) \in Nat /\ NameAt(k) + NameMax < LengthAt
      BY Places
    <2>3. LengthAt \in Nat /\ LogAt = LengthAt + 2 /\ NameMax \in Nat \ {0}
      BY Layout
    <2> HIDE DEF H, N
    <2>4. /\ NameAt(k) \in Nat /\ NameAt(k) + 1 \in Nat
          /\ NameAt(k) + H <= LogAt /\ NameAt(k) + 1 + N <= LogAt
      BY <2>1, <2>2, <2>3
    <2>5. QED  BY <2>4 DEF H, N
  <1> HIDE DEF h
  <1>5. p \in Seq(Write) /\ Below(p) /\ q \in Seq(Write) /\ Below(q)
    BY <1>1, <1>2, <1>4, PutBelow
  <1> HIDE DEF p, q
  <1>6. QED  BY <1>3, <1>5, BelowJoin

LEMMA NamesBelow ==
  ASSUME NEW s \in NameTriple,
         NEW x \in {PutName(1, s[1]), SaveName(1, s[1])},
         NEW y \in {PutName(2, s[2]), SaveName(2, s[2])},
         NEW z \in {PutName(3, s[3]), SaveName(3, s[3])}
  PROVE  x \o y \o z \in Seq(Write) /\ Below(x \o y \o z)
  <1>1. s[1] \in Name /\ s[2] \in Name /\ s[3] \in Name /\ 1 \in 1..3 /\ 2 \in 1..3 /\ 3 \in 1..3
    BY TripleNames
  <1>2. x \in Seq(Write) /\ Below(x)
    BY <1>1, NameBelow
  <1>3. y \in Seq(Write) /\ Below(y)
    BY <1>1, NameBelow
  <1>4. z \in Seq(Write) /\ Below(z)
    BY <1>1, NameBelow
  <1> DEFINE u == x \o y
  <1>5. u \in Seq(Write) /\ Below(u)
    BY <1>2, <1>3, BelowJoin
  <1> HIDE DEF u
  <1>6. u \o z \in Seq(Write) /\ Below(u \o z)
    BY <1>4, <1>5, BelowJoin
  <1>7. QED  BY <1>6 DEF u

\* The writes of the commands that store settings, and of a boot.
LEMMA ConfigBelow ==
  ASSUME NEW s \in Cells \X Cells, NEW ns \in NameTriple
  PROVE  /\ Below(Put(0, s))
         /\ Below(PutName(1, ns[1]) \o PutName(2, ns[2]) \o PutName(3, ns[3]))
         /\ Below(SaveConfig(s, ns))
         /\ Below(PutName(1, ns[1]) \o PutName(2, ns[2]) \o PutName(3, ns[3]) \o Put(LengthAt, Bytes(0)))
  <1> DEFINE p == Put(0, s)
             q == PutName(1, ns[1]) \o PutName(2, ns[2]) \o PutName(3, ns[3])
             l == Put(LengthAt, Bytes(0))
             x == SaveName(1, ns[1])
             y == SaveName(2, ns[2])
             z == SaveName(3, ns[3])
  <1>1. p \in Seq(Write) /\ Below(p)
    <2>1. s \in Seq(Cells) /\ Len(s) = 2
      <3>1. PICK u \in Cells, v \in Cells : s = <<u, v>>
        OBVIOUS
      <3>2. QED  BY <3>1
    <2>2. 0 \in Nat /\ 0 + 2 <= LogAt
      BY Layout
    <2>3. QED  BY <2>1, <2>2, PutBelow
  <1>2. q \in Seq(Write) /\ Below(q)
    BY NamesBelow
  <1>3. x \o y \o z \in Seq(Write) /\ Below(x \o y \o z)
    BY NamesBelow
  <1>4. l \in Seq(Write) /\ Below(l)
    <2>1. 0 \in 0..(Base - 1)
      BY Layout
    <2>2. Bytes(0) \in Seq(Cells) /\ Len(Bytes(0)) = 2
      BY <2>1, OneByte
    <2>3. LengthAt \in Nat /\ LengthAt + 2 <= LogAt
      BY Layout
    <2>4. QED  BY <2>2, <2>3, PutBelow
  <1>5. q \o l \in Seq(Write) /\ Below(q \o l)
    <2> HIDE DEF q, l
    <2>1. QED  BY <1>2, <1>4, BelowJoin
  <1>6. Below(SaveConfig(s, ns))
    <2>1. x \in Seq(Write) /\ Below(x) /\ y \in Seq(Write) /\ Below(y) /\ z \in Seq(Write) /\ Below(z)
      <3>1. ns[1] \in Name /\ ns[2] \in Name /\ ns[3] \in Name /\ 1 \in 1..3 /\ 2 \in 1..3 /\ 3 \in 1..3
        BY TripleNames
      <3>2. QED  BY <3>1, NameBelow
    <2>2. SaveConfig(s, ns) = ((p \o x) \o y) \o z
      BY DEF SaveConfig
    <2> HIDE DEF p, x, y, z
    <2> DEFINE u == p \o x
               v == u \o y
    <2>3. u \in Seq(Write) /\ Below(u)
      BY <1>1, <2>1, BelowJoin
    <2> HIDE DEF u
    <2>4. v \in Seq(Write) /\ Below(v)
      BY <2>1, <2>3, BelowJoin
    <2> HIDE DEF v
    <2>5. Below(v \o z)
      BY <2>1, <2>4, BelowJoin
    <2>6. QED  BY <2>2, <2>5 DEF u, v
  <1>7. QED  BY <1>1, <1>2, <1>5, <1>6 DEF p, q, l

\* A byte of save_cmd: first the length's, then the line's one after the other.
LEMMA SaveCmdPlaces ==
  ASSUME cmd_length \in Nat, NEW line \in Seq(Cells), line # <<>>, cmd_length + Len(line) <= LogMax,
         NEW i \in 1..Len(SaveCmd(line))
  PROVE  LET w == SaveCmd(line)[i] IN
         \/ i <= 2 /\ w.at < LogAt
         \/ i > 2 /\ w.at \in (LogAt + cmd_length)..(LogAt + (cmd_length + Len(line)) - 1)
  <1> DEFINE o == cmd_length
             m == Len(line)
             n == o + m
             s == Bytes(n)
             p == Put(LengthAt, s)
             q == Put(LogAt + o, line)
  <1>1. o \in Nat /\ m \in Nat /\ n <= LogMax
    OBVIOUS
  <1>2. /\ n \in 0..LogMax /\ LengthAt \in Nat /\ LogAt = LengthAt + 2 /\ LogAt \in Nat
        /\ LogAt + o \in Nat /\ LogAt + o + m <= Size /\ LengthAt + 2 <= LogAt
    <2> HIDE DEF o, m
    <2>1. QED  BY <1>1, Layout
  <1>3. s \in Seq(Cells) /\ Len(s) = 2
    BY <1>2, FitsTwoBytes, TwoBytes
  <1> HIDE DEF s, o, m, n
  <1>4. p \in Seq(Write) /\ Len(p) = 2 /\ Below(p)
    <2>1. LengthAt + Len(s) <= LogAt /\ LengthAt + Len(s) <= Size
      BY <1>2, <1>3, Layout
    <2>2. QED  BY <1>2, <1>3, <2>1, PutBelow, PutWrites
  <1>5. /\ q \in Seq(Write) /\ Len(q) = m
        /\ \A k \in 1..m : q[k].at = LogAt + o + k - 1
    BY <1>2, PutWrites DEF m
  <1>6. SaveCmd(line) = p \o q
    <2>1. Longer(m) = n
      BY <1>2, LongerFits DEF n, o
    <2>2. QED  BY <2>1 DEF SaveCmd, n, s, o, m
  <1> HIDE DEF p, q
  <1>7. /\ Len(p \o q) = 2 + m
        /\ \A k \in 1..(2 + m) : (p \o q)[k] = IF k <= 2 THEN p[k] ELSE q[k - 2]
    <2>1. /\ Len(p \o q) = Len(p) + Len(q)
          /\ \A k \in 1..(Len(p) + Len(q)) : (p \o q)[k] = IF k <= Len(p) THEN p[k] ELSE q[k - Len(p)]
      BY <1>4, <1>5, ConcatProperties
    <2>2. QED  BY <1>4, <1>5, <2>1
  <1>8. i \in 1..(2 + m)
    BY <1>6, <1>7
  <1> DEFINE w == (p \o q)[i]
  <1>9. CASE i <= 2
    <2>1. w = p[i] /\ i \in 1..Len(p)
      BY <1>1, <1>4, <1>7, <1>8, <1>9
    <2>2. w.at < LogAt
      BY <1>4, <2>1 DEF Below
    <2>3. QED  BY <1>6, <1>9, <2>2
  <1>10. CASE ~(i <= 2)
    <2>1. i > 2 /\ i - 2 \in 1..m /\ w = q[i - 2]
      BY <1>1, <1>7, <1>8, <1>10
    <2>2. w.at = LogAt + o + (i - 2) - 1
      BY <1>5, <2>1
    <2> HIDE DEF w
    <2>3. w.at \in (LogAt + o)..(LogAt + (o + m) - 1)
      BY <1>1, <1>2, <2>1, <2>2
    <2>4. QED  BY <1>6, <2>1, <2>3 DEF o, m, w
  <1>11. QED  BY <1>9, <1>10

LEMMA CommandLine ==
  ASSUME NEW c \in Typed
  PROVE  IsLine(c \o <<Cr, Lf>>)
  <1> DEFINE p == <<Cr, Lf>>
             line == c \o p
             S == Cells \ {Cr, Lf}
             n == Len(c)
  <1>1. Typed \subseteq Seq(S) /\ Cr \in Cells /\ Lf \in Cells
    BY StoreAssumption
  <1>2. line \in Seq(Cells)
    BY CommandCells
  <1>3. p \in Seq(Cells) /\ Len(p) = 2 /\ p[1] = Cr /\ p[2] = Lf
    BY <1>1
  <1>4. c \in Seq(S) /\ S \subseteq Cells /\ \A x \in S : x \notin {Cr, Lf}
    BY <1>1
  <1> HIDE DEF p, S
  <1>5. n \in Nat /\ (\A k \in 1..n : c[k] \in S) /\ c \in Seq(Cells)
    BY <1>4
  <1>6. /\ Len(line) = n + 2
        /\ \A k \in 1..(n + 2) : line[k] = IF k <= n THEN c[k] ELSE p[k - n]
    <2>1. /\ Len(c \o p) = Len(c) + Len(p)
          /\ \A k \in 1..(Len(c) + Len(p)) : (c \o p)[k] = IF k <= Len(c) THEN c[k] ELSE p[k - Len(c)]
      BY <1>3, <1>5, ConcatProperties
    <2>2. QED  BY <1>3, <2>1
  <1> HIDE DEF n, line
  <1>7. line[n + 1] = Cr /\ line[n + 2] = Lf /\ \A k \in 1..n : line[k] \notin {Cr, Lf}
    <2>1. n + 1 \in 1..(n + 2) /\ ~(n + 1 <= n) /\ (n + 1) - n = 1
      BY <1>5
    <2>2. n + 2 \in 1..(n + 2) /\ ~(n + 2 <= n) /\ (n + 2) - n = 2
      BY <1>5
    <2>3. \A k \in 1..n : k \in 1..(n + 2) /\ k <= n
      BY <1>5
    <2>4. line[n + 1] = Cr /\ line[n + 2] = Lf
      BY <1>3, <1>6, <2>1, <2>2
    <2>5. \A k \in 1..n : line[k] \in S
      BY <1>5, <1>6, <2>3
    <2>6. QED  BY <1>4, <2>4, <2>5
  <1>8. (n + 2) - 1 = n + 1 /\ (n + 2) - 2 = n /\ n + 2 > 1
    BY <1>5
  <1>9. IsLine(line)
    BY <1>2, <1>6, <1>7, <1>8 DEF IsLine
  <1>10. QED  BY <1>9 DEF line, p

\* What a byte changes of the log.
LEMMA LogSame ==
  ASSUME ee' = ee
  PROVE  Log' = Log
  BY DEF Log

LEMMA LogByte ==
  ASSUME ee \in Memory, NEW at \in 0..(Size - 1), NEW val, ee' = [ee EXCEPT ![at] = val]
  PROVE  /\ at < LogAt \/ at = CheckAt => Log' = Log
         /\ \A k \in Nat : LogAt + k # at => Log'[k] = Log[k]
  <1>1. \A a \in 0..(Size - 1) : a # at => ee'[a] = ee[a]
    BY DEF Memory
  <1>2. \A k \in Nat : k < LogMax => LogAt + k \in 0..(Size - 1) /\ ~(LogAt + k < LogAt) /\ LogAt + k # CheckAt
    BY Layout DEF CheckAt
  <1>3. \A k \in Nat : k < LogMax /\ LogAt + k # at => ee'[LogAt + k] = ee[LogAt + k]
    BY <1>1, <1>2
  <1>4. \A k \in Nat : LogAt + k # at => Log'[k] = Log[k]
    BY <1>3 DEF Log
  <1>5. ASSUME at < LogAt \/ at = CheckAt PROVE Log' = Log
    <2>1. \A k \in Nat : k < LogMax => ee'[LogAt + k] = ee[LogAt + k]
      BY <1>2, <1>3, <1>5
    <2>2. QED  BY <2>1 DEF Log
  <1>6. QED  BY <1>4, <1>5

\* The log's length when no byte of it is still to be written.
LEMMA LengthWritten ==
  ASSUME ee \in Memory, NEW n, NEW g, LogWill(ee, todo, n, g), ~LengthLeft
  PROVE  n = StoredLength
  <1>1. PICK x \in 0..(Base - 1), y \in 0..(Base - 1) :
          Leaves(ee, todo, LengthAt, x) /\ Leaves(ee, todo, LengthAt + 1, y) /\ n = x + Base * y
    BY DEF LogWill
  <1>2. LengthAt < LogAt /\ LengthAt + 1 < LogAt
    BY Layout
  <1>3. \A i \in 1..Len(todo) : todo[i].at # LengthAt /\ todo[i].at # LengthAt + 1
    BY <1>2 DEF LengthLeft
  <1>4. CellOf(ee, LengthAt) = x /\ CellOf(ee, LengthAt + 1) = y
    BY <1>1, <1>3 DEF Leaves
  <1>5. QED  BY <1>1, <1>4, LengthThere

\* A step that leaves the log's cells alone and saves nothing.
LEMMA LogRests ==
  ASSUME LInv, Log' = Log, typed' = typed, job' # "log", Below(todo'),
         ~torn' => \/ ~torn /\ (job # "log" \/ LengthLeft) /\ text' = text
                   \/ ~torn /\ job # "log" /\ text' = <<>>
                   \/ typed = {} /\ text' = <<>>
  PROVE  LInv'
  <1>1. Lines' /\ Order' /\ TidyThen'
    BY DEF LInv, Lines, Order, TidyThen
  <1>2. ASSUME ~torn' PROVE Tidy(Log, typed) /\ EndsAt(Log, Len(text'))
    <2>1. CASE ~torn /\ (job # "log" \/ LengthLeft) /\ text' = text
      BY <2>1 DEF LInv, TidyNow
    <2>2. text' = <<>> => EndsAt(Log, Len(text'))
      <3>1. Len(<<>>) = 0
        OBVIOUS
      <3>2. QED  BY <3>1 DEF EndsAt
    <2>3. CASE ~torn /\ job # "log" /\ text' = <<>>
      BY <2>2, <2>3 DEF LInv, TidyNow
    <2>4. CASE typed = {} /\ text' = <<>>
      <3>1. \A k \in Nat : Log[k] = Erased
        BY <2>4 DEF LInv, Lines
      <3>2. LineEnds(Log) = {}
        BY <3>1, LineDiffers DEF LineEnds
      <3>3. QED  BY <2>2, <2>4, <3>2 DEF Tidy
    <2>5. QED  BY <1>2, <2>1, <2>3, <2>4
  <1>3. TidyNow'
    <2>1. Tidy(Log, typed)' <=> Tidy(Log, typed)
      BY DEF Tidy, Rest, LineEnds
    <2>2. EndsAt(Log, Len(text))' <=> EndsAt(Log, Len(text'))
      BY DEF EndsAt, LineEnds
    <2>3. QED  BY <1>2, <2>1, <2>2 DEF TidyNow
  <1>4. QED  BY <1>1, <1>3 DEF LInv

LEMMA LInvInit == Init => LInv
  <1> SUFFICES ASSUME Init PROVE LInv
    OBVIOUS
  <1>1. /\ ee = [a \in 0..(Size - 1) |-> Erased] /\ todo = <<>> /\ job = "none"
        /\ text = <<>> /\ typed = {}
    BY DEF Init
  <1>2. \A k \in Nat : Log[k] = Erased
    <2>1. \A k \in Nat : k < LogMax => LogAt + k \in 0..(Size - 1)
      BY Layout
    <2>2. QED  BY <1>1, <2>1 DEF Log
  <1>3. LineEnds(Log) = {}
    BY <1>2, LineDiffers DEF LineEnds
  <1>4. Lines /\ TidyThen /\ TidyNow
    BY <1>1, <1>2, <1>3 DEF Lines, TidyThen, TidyNow, Tidy, EndsAt
  <1>5. Order
    BY <1>1 DEF Order, Below
  <1>6. QED  BY <1>4, <1>5 DEF LInv

\* A line begins to be saved.
LEMMA LineBegins ==
  ASSUME SInv, LInv, DeviceCommand, ~beyond'
  PROVE  LInv'
  <1>1. PICK c \in Typed :
          /\ cmd_length' = Longer(Len(c \o <<Cr, Lf>>))
          /\ beyond' = (beyond \/ cmd_length + Len(c \o <<Cr, Lf>>) > LogMax)
          /\ todo' = SaveCmd(c \o <<Cr, Lf>>) /\ job' = "log"
          /\ saving' = c \o <<Cr, Lf>> /\ typed' = typed \cup {c \o <<Cr, Lf>>}
    BY DEF DeviceCommand, Start
  <1> DEFINE line == c \o <<Cr, Lf>>
             n == Len(text)
             m == Len(line)
  <1>2. IsLine(line) /\ line \in Seq(Cells) /\ line # <<>>
    BY CommandLine, CommandCells
  <1> HIDE DEF line
  <1>4. pc = "idle" /\ ee' = ee /\ text' = text /\ torn' = torn
    BY DEF DeviceCommand
  <1>5. /\ cmd_length \in Nat /\ text \in Seq(Cells) /\ job = "none"
        /\ LogWill(ee, <<>>, cmd_length, text)
    BY <1>4, Ready
  <1>3. /\ cmd_length + Len(line) <= LogMax /\ cmd_length' = cmd_length + Len(line)
        /\ todo' = SaveCmd(line) /\ job' = "log" /\ saving' = line /\ typed' = typed \cup {line}
    <2>1. /\ cmd_length' = Longer(Len(line)) /\ ~(cmd_length + Len(line) > LogMax)
          /\ todo' = SaveCmd(line) /\ job' = "log" /\ saving' = line /\ typed' = typed \cup {line}
      BY <1>1 DEF line
    <2>2. cmd_length + Len(line) <= LogMax /\ Longer(Len(line)) = cmd_length + Len(line)
      BY <1>2, <1>5, <2>1, LineFits
    <2>3. QED  BY <2>1, <2>2
  <1>6. n = cmd_length
    BY <1>5 DEF LogWill
  <1>7. Log' = Log
    BY <1>4, LogSame
  <1>8. Lines'
    <2>1. \A l \in typed' : IsLine(l)
      BY <1>2, <1>3 DEF LInv, Lines
    <2>2. typed' # {} /\ saving' \in typed' /\ cmd_length' = Len(text') + Len(saving')
      BY <1>3, <1>4, <1>6
    <2>3. QED  BY <2>1, <2>2 DEF Lines
  <1>9. Order'
    <2> DEFINE w == SaveCmd(line)
    <2>1. \A i \in 1..Len(w) :
            \/ i <= 2 /\ w[i].at < LogAt
            \/ i > 2 /\ w[i].at \in (LogAt + cmd_length)..(LogAt + (cmd_length + Len(line)) - 1)
      BY <1>2, <1>3, <1>5, SaveCmdPlaces
    <2> DEFINE e == cmd_length + Len(line)
    <2>2. cmd_length' = e /\ LogAt \in Nat /\ cmd_length \in Nat /\ e \in Nat
      BY <1>2, <1>3, <1>5, Layout
    <2> HIDE DEF w, e
    <2>3. \A i \in 1..Len(w) :
            \/ i <= 2 /\ w[i].at < LogAt
            \/ i > 2 /\ w[i].at \in (LogAt + cmd_length)..(LogAt + e - 1)
      BY <2>1 DEF e
    <2>4. \A i \in 1..Len(w) : i > 2 => w[i].at >= LogAt
      BY <2>2, <2>3
    <2>5. ASSUME NEW i \in 1..Len(w), w[i].at >= LogAt
          PROVE  /\ w[i].at \in (LogAt + cmd_length)..(LogAt + e - 1)
                 /\ \A j \in 1..Len(w) : i < j => w[j].at >= LogAt
      <3>1. i > 2 /\ w[i].at \in (LogAt + cmd_length)..(LogAt + e - 1)
        <4>1. ASSUME w[i].at < LogAt PROVE FALSE
          <5>1. CASE i <= 2 /\ w[i].at < LogAt
            <6>1. i = 1 \/ i = 2
              BY <5>1
            <6>2. w[i].at \in Int
              <7>1. w \in Seq(Write)
                BY <1>2, <1>3, <1>5, SaveCmdWrites DEF Valid, w
              <7>2. w[i] \in Write
                BY <7>1
              <7>3. QED  BY <7>2, Layout DEF Write
            <6>3. QED  BY <2>2, <2>5, <4>1, <6>2
          <5>2. CASE i > 2
            <6>1. w[i].at \in Int
              BY <2>2, <2>3, <5>2
            <6>2. QED  BY <2>2, <2>5, <4>1, <6>1
          <5>3. QED  BY <2>3, <5>1, <5>2
        <4>2. QED  BY <2>3, <4>1
      <3>2. \A j \in 1..Len(w) : i < j => j > 2
        BY <3>1
      <3>3. QED  BY <2>4, <3>1, <3>2
    <2>6. todo' = w
      BY <1>3 DEF w
    <2>7. QED  BY <1>3, <1>4, <1>6, <2>2, <2>5, <2>6 DEF Order
  <1>10. ASSUME ~torn PROVE Tidy(Log, typed) /\ EndsAt(Log, n)
    BY <1>5, <1>10 DEF LInv, TidyNow
  <1>11. TidyNow'
    <2>1. ASSUME ~torn PROVE Tidy(Log, typed \cup {line})
      BY <1>10, <2>1, StillTidy
    <2>2. QED  BY <1>3, <1>4, <1>7, <1>10, <2>1 DEF TidyNow
  <1>12. TidyThen'
    <2> DEFINE g == Written(Log, n, line)
    <2>1. ASSUME ~torn PROVE Tidy(g, typed \cup {line}) /\ EndsAt(g, n + Len(line))
      BY <1>2, <1>5, <1>6, <1>10, <2>1, LineWritten
    <2>2. LogThen' = g
      BY <1>3, <1>4, <1>7 DEF LogThen
    <2>3. QED  BY <1>3, <1>4, <1>6, <2>1, <2>2 DEF TidyThen
  <1>13. QED  BY <1>8, <1>9, <1>11, <1>12 DEF LInv

\* A line goes on being saved.
LEMMA LineGoesOn ==
  ASSUME SInv, LInv, WriteByte, job = "log", Len(todo) > 1
  PROVE  LInv'
  <1> DEFINE at == todo[1].at
             t == Tail(todo)
             n == Len(text)
             m == Len(saving)
  <1>1. /\ pc = "write" /\ ee' = [ee EXCEPT ![todo[1].at] = todo[1].val]
    BY DEF WriteByte
  <1>2. /\ ee \in Memory /\ todo \in Seq(Write) /\ text \in Seq(Cells) /\ saving \in Seq(Cells)
        /\ Len(todo) \in Nat /\ cmd_length \in Nat
    BY DEF SInv, Types, TypeOK
  <1>3. /\ todo' = t /\ job' = job /\ text' = text /\ saving' = saving /\ torn' = torn
        /\ typed' = typed /\ cmd_length' = cmd_length
    <2>1. todo \in Seq(Write) /\ todo # <<>>
      BY <1>1, <1>2 DEF SInv, Busy
    <2>2. Len(todo) # 1
      BY <2>1, OneLess
    <2>3. QED  BY <2>2 DEF WriteByte, ram, hist
  <1>4. /\ 1 \in 1..Len(todo) /\ t \in Seq(Write) /\ Len(t) = Len(todo) - 1
        /\ \A i \in 1..Len(t) : i + 1 \in 1..Len(todo) /\ t[i] = todo[i + 1] /\ 1 < i + 1
    BY <1>2
  <1>5. todo[1] \in Write
    BY <1>2, <1>4
  <1>6. at \in 0..(Size - 1) /\ at \in Int /\ LogAt \in Nat /\ n \in Nat
    <2>1. at \in 0..(Size - 1)
      BY <1>5 DEF Write
    <2>2. n \in Nat
      BY <1>2
    <2> HIDE DEF at, n
    <2>3. QED  BY <2>1, <2>2, Layout
  <1>7. Lines /\ Order /\ TidyNow /\ TidyThen
    BY DEF LInv
  <1> HIDE DEF at, t
  <1>8. /\ at < LogAt => Log' = Log
        /\ \A k \in Nat : LogAt + k # at => Log'[k] = Log[k]
    BY <1>1, <1>2, <1>6, LogByte DEF at
  <1>9. /\ at >= LogAt => at \in (LogAt + n)..(LogAt + cmd_length - 1)
        /\ at >= LogAt => \A j \in 1..Len(todo) : 1 < j => todo[j].at >= LogAt
    BY <1>4, <1>7 DEF Order, at
  <1>10. Lines'
    BY <1>3, <1>7 DEF Lines
  <1>11. Order'
    <2>1. ASSUME NEW i \in 1..Len(t), t[i].at >= LogAt
          PROVE  /\ t[i].at \in (LogAt + Len(text))..(LogAt + cmd_length - 1)
                 /\ \A j \in 1..Len(t) : i < j => t[j].at >= LogAt
      <3>1. i + 1 \in 1..Len(todo) /\ t[i] = todo[i + 1]
        BY <1>4
      <3>2. /\ t[i].at \in (LogAt + Len(text))..(LogAt + cmd_length - 1)
            /\ \A j \in 1..Len(todo) : i + 1 < j => todo[j].at >= LogAt
        BY <1>7, <2>1, <3>1 DEF Order
      <3>3. \A j \in 1..Len(t) : i < j => j + 1 \in 1..Len(todo) /\ i + 1 < j + 1 /\ t[j] = todo[j + 1]
        BY <1>4
      <3>4. QED  BY <3>2, <3>3
    <2>2. QED  BY <1>3, <2>1 DEF Order
  <1>12. TidyNow'
    <2>1. ASSUME LengthLeft' PROVE at < LogAt /\ LengthLeft
      <3>1. PICK i \in 1..Len(t) : t[i].at < LogAt
        BY <1>3, <2>1 DEF LengthLeft
      <3>2. i + 1 \in 1..Len(todo) /\ 1 < i + 1 /\ todo[i + 1].at < LogAt
        BY <1>4, <3>1
      <3>3. todo[i + 1].at \in Int
        <4>1. todo[i + 1] \in Write
          BY <1>2, <3>2
        <4>2. QED  BY <4>1, Layout DEF Write
      <3>4. ~(at >= LogAt)
        BY <1>6, <1>9, <3>2, <3>3
      <3>5. QED  BY <1>6, <3>2, <3>4 DEF LengthLeft
    <2>2. ASSUME LengthLeft', ~torn PROVE Tidy(Log, typed) /\ EndsAt(Log, Len(text)) /\ Log' = Log
      BY <1>7, <1>8, <2>1, <2>2 DEF TidyNow
    <2>3. QED  BY <1>3, <2>2 DEF TidyNow
  <1>13. TidyThen'
    <2>1. cmd_length = n + m
      BY <1>7 DEF Lines
    <2>2. \A k \in Nat : k \notin n..(n + m - 1) => Log'[k] = Log[k]
      <3>1. \A k \in Nat : k \notin n..(n + m - 1) => LogAt + k # at
        BY <1>2, <1>6, <1>9, <2>1
      <3>2. QED  BY <1>8, <3>1
    <2>3. LogThen' = LogThen
      BY <1>3, <2>2 DEF LogThen, Written
    <2>4. QED  BY <1>3, <1>7, <2>3 DEF TidyThen
  <1>14. QED  BY <1>10, <1>11, <1>12, <1>13 DEF LInv

\* It is saved.
LEMMA LineSaved ==
  ASSUME SInv, LInv, WriteByte, job = "log", Len(todo) = 1
  PROVE  LInv'
  <1> DEFINE at == todo[1].at
             n == Len(text)
             m == Len(saving)
  <1>1. /\ pc = "write" /\ ee' = [ee EXCEPT ![todo[1].at] = todo[1].val]
    BY DEF WriteByte
  <1>2. /\ ee \in Memory /\ todo \in Seq(Write) /\ text \in Seq(Cells) /\ saving \in Seq(Cells)
        /\ cmd_length \in Nat
    BY DEF SInv, Types, TypeOK
  <1>3. /\ todo' = <<>> /\ job' = "none" /\ text' = text \o saving /\ torn' = torn
        /\ typed' = typed /\ cmd_length' = cmd_length /\ pc' = "idle"
    <2>1. ~(Len(todo) > 1)
      OBVIOUS
    <2>2. torn' = (torn /\ (job # "format" \/ typed # {})) /\ torn \in BOOLEAN
      BY <2>1 DEF WriteByte, SInv, Types, TypeOK
    <2>3. torn' = torn
      BY <2>2
    <2>4. QED  BY <2>1, <2>3 DEF WriteByte, ram
  <1>4. todo[1] \in Write /\ 1 \in 1..Len(todo)
    <2>1. 1 \in 1..Len(todo) /\ todo \in Seq(Write)
      BY <1>2
    <2>2. QED  BY <2>1, ElementOfSeq
  <1>5. at \in 0..(Size - 1) /\ at \in Int /\ LogAt \in Nat /\ n \in Nat /\ m \in Nat
    <2>1. at \in 0..(Size - 1)
      BY <1>4 DEF Write
    <2>2. n \in Nat /\ m \in Nat
      BY <1>2
    <2> HIDE DEF at, n, m
    <2>3. QED  BY <2>1, <2>2, Layout
  <1>6. Lines /\ Order /\ TidyThen
    BY DEF LInv
  <1>7. n + m = cmd_length
    BY <1>6 DEF Lines
  <1> HIDE DEF at
  <1>8. \A k \in Nat : k \notin n..(n + m - 1) => Log'[k] = Log[k]
    <2>1. \A k \in Nat : LogAt + k # at => Log'[k] = Log[k]
      BY <1>1, <1>2, <1>5, LogByte DEF at
    <2>2. at >= LogAt => at \in (LogAt + n)..(LogAt + cmd_length - 1)
      BY <1>4, <1>6 DEF Order, at
    <2>3. \A k \in Nat : k \notin n..(n + m - 1) => LogAt + k # at
      BY <1>5, <1>7, <2>2
    <2>4. QED  BY <2>1, <2>3
  <1>9. text' \in Seq(Cells) /\ LogWill(ee', <<>>, cmd_length, text') /\ ee' \in Memory
    <2>1. Valid(todo) /\ todo # <<>> /\ LogWill(ee, todo, cmd_length, Target)
      BY <1>1 DEF SInv, Types, TypeOK, Busy, Promised, Valid
    <2>2. LogWill(ee', Tail(todo), cmd_length, Target) /\ ee' \in Memory
      BY <1>1, <1>2, <2>1, ByteWritten
    <2>3. Tail(todo) = <<>>
      BY <1>2, <2>1, OneLess
    <2>4. Target = text \o saving /\ text \o saving \in Seq(Cells)
      BY <1>2, ConcatProperties DEF Target
    <2>5. QED  BY <1>3, <2>2, <2>3, <2>4
  <1>10. Log' = LogThen
    <2>1. Len(text') = n + m /\ \A i \in 1..(n + m) : CellOf(ee', LogAt + i - 1) = text'[i]
      BY <1>7, <1>9, NothingWritten DEF LogWill
    <2>2. \A i \in 1..(n + m) : text'[i] = IF i <= n THEN text[i] ELSE saving[i - n]
      BY <1>2, <1>3, ConcatProperties
    <2>3. ASSUME NEW k \in n..(n + m - 1) PROVE Log'[k] = saving[k - n + 1]
      <3>1. k + 1 \in 1..(n + m) /\ ~(k + 1 <= n) /\ (k + 1) - n = k - n + 1 /\ k \in Nat
            /\ LogAt + (k + 1) - 1 = LogAt + k
        BY <1>5
      <3>2. CellOf(ee', LogAt + k) = saving[k - n + 1]
        BY <2>1, <2>2, <3>1
      <3>3. Log'[k] = CellOf(ee', LogAt + k)
        <4>1. n + m <= LogMax
          BY <1>7, <1>9 DEF LogWill
        <4>2. k < LogMax /\ LogAt + k \in 0..(Size - 1)
          BY <1>5, <3>1, <4>1, Layout
        <4>3. DOMAIN ee' = 0..(Size - 1)
          BY <1>9 DEF Memory
        <4>4. QED  BY <3>1, <4>2, <4>3 DEF Log, CellOf
      <3>4. QED  BY <3>2, <3>3
    <2>4. Log' = [k \in Nat |-> Log'[k]]
      BY DEF Log
    <2>5. LogThen = [k \in Nat |-> IF k \in n..(n + m - 1) THEN saving[k - n + 1] ELSE Log[k]]
      BY DEF LogThen, Written
    <2>6. QED  BY <1>8, <2>3, <2>4, <2>5
  <1>11. Lines' /\ Order' /\ TidyThen'
    <2>1. typed # {}
      BY <1>6 DEF Lines
    <2>2. Lines'
      BY <1>3, <1>6, <2>1 DEF Lines
    <2>3. Order' /\ TidyThen'
      BY <1>3 DEF Order, Below, TidyThen
    <2>4. QED  BY <2>2, <2>3
  <1>12. TidyNow'
    <2>1. Len(text') = cmd_length
      BY <1>9 DEF LogWill
    <2>2. ASSUME ~torn PROVE Tidy(Log', typed) /\ EndsAt(Log', Len(text'))
      BY <1>6, <1>10, <2>1, <2>2 DEF TidyThen
    <2>3. QED  BY <1>3, <2>2 DEF TidyNow
  <1>13. QED  BY <1>11, <1>12 DEF LInv

\* A byte of a setting, or of a log that is emptied.
LEMMA OtherByte ==
  ASSUME SInv, LInv, WriteByte, job # "log"
  PROVE  LInv'
  <1> DEFINE at == todo[1].at
  <1>1. /\ pc = "write" /\ ee' = [ee EXCEPT ![todo[1].at] = todo[1].val]
    BY DEF WriteByte
  <1>2. ee \in Memory /\ todo \in Seq(Write) /\ todo # <<>> /\ text \in Seq(Cells) /\ saving = <<>>
        /\ torn \in BOOLEAN
    BY <1>1 DEF SInv, Types, TypeOK, Busy
  <1>3. 1 \in 1..Len(todo) /\ todo[1] \in Write
    BY <1>2
  <1>4. at \in 0..(Size - 1)
    BY <1>3 DEF Write
  <1>5. Below(todo)
    BY DEF LInv, Order
  <1>6. Log' = Log
    <2>1. at < LogAt
      BY <1>3, <1>5 DEF Below
    <2> HIDE DEF at
    <2>2. ee' = [ee EXCEPT ![at] = todo[1].val]
      BY <1>1 DEF at
    <2>3. QED  BY <1>2, <1>4, <2>1, <2>2, LogByte
  <1>7. Below(Tail(todo)) /\ Below(<<>>)
    <2>1. \A i \in 1..Len(Tail(todo)) : i + 1 \in 1..Len(todo) /\ Tail(todo)[i] = todo[i + 1]
      BY <1>2
    <2>2. QED  BY <1>5, <2>1 DEF Below
  <1>8. CASE Len(todo) > 1
    <2>1. todo' = Tail(todo) /\ job' = job /\ text' = text /\ torn' = torn /\ typed' = typed
      <3>1. Len(todo) # 1
        BY <1>2, <1>8, OneLess
      <3>2. QED  BY <3>1 DEF WriteByte, hist
    <2>2. QED  BY <1>6, <1>7, <2>1, LogRests
  <1>9. CASE Len(todo) = 1 /\ job = "reset"
    <2>1. todo' = <<>> /\ job' = "none" /\ text' = text /\ torn' = torn /\ typed' = typed
      <3>1. ~(Len(todo) > 1)
        BY <1>9
      <3>2. QED  BY <1>9, <3>1 DEF WriteByte, Restarted, hist
    <2>2. QED  BY <1>6, <1>7, <2>1, LogRests
  <1>10. CASE Len(todo) = 1 /\ job # "reset"
    <2>1. /\ todo' = <<>> /\ job' = "none" /\ typed' = typed
          /\ text' = IF job = "format" THEN <<>> ELSE text \o saving
          /\ torn' = (torn /\ (job # "format" \/ typed # {}))
      <3>1. ~(Len(todo) > 1)
        BY <1>10
      <3>2. QED  BY <1>10, <3>1 DEF WriteByte
    <2>2. text \o saving = text
      BY <1>2, ConcatEmptySeq
    <2>3. CASE job = "format"
      <3>1. text' = <<>> /\ (~torn' => ~torn \/ typed = {})
        BY <2>1, <2>3
      <3>2. QED  BY <1>6, <1>7, <2>1, <3>1, LogRests
    <2>4. CASE job # "format"
      <3>1. text' = text /\ (~torn' => ~torn)
        BY <2>1, <2>2, <2>4
      <3>2. QED  BY <1>6, <1>7, <2>1, <3>1, LogRests
    <2>5. QED  BY <2>3, <2>4
  <1>11. QED
    <2>1. todo \in Seq(Write) /\ todo # <<>>
      BY <1>2
    <2>2. Len(todo) > 1 \/ Len(todo) = 1
      BY <2>1, OneLess
    <2>3. QED  BY <1>8, <1>9, <1>10, <2>2

\* The power fails: a line of which a byte is written counts in the length.
LEMMA PowerKeeps ==
  ASSUME SInv, LInv, PowerFails
  PROVE  LInv'
  <1>1. /\ ee' = ee /\ todo' = <<>> /\ job' = "none" /\ typed' = typed
        /\ text' = LogCells(StoredLength) /\ torn' = (torn \/ text' # text)
    BY DEF PowerFails, Restarted
  <1>2. Log' = Log
    BY <1>1, LogSame
  <1>3. Below(<<>>)
    BY DEF Below
  <1>4. ASSUME ~torn' PROVE ~torn /\ text' = text
    BY <1>1, <1>4
  <1>5. ASSUME ~torn', job = "log", ~LengthLeft PROVE FALSE
    <2>1. ee \in Memory /\ text \in Seq(Cells) /\ saving \in Seq(Cells) /\ cmd_length \in Nat
      BY DEF SInv, Types, TypeOK
    <2>2. LogWill(ee, todo, cmd_length, Target)
      BY <1>5 DEF SInv, Promised, Busy
    <2>3. cmd_length = StoredLength
      BY <1>5, <2>1, <2>2, LengthWritten
    <2>4. text = LogCells(cmd_length)
      BY <1>1, <1>4, <1>5, <2>3
    <2>5. Len(text) = cmd_length
      BY <2>1, <2>4, LogType DEF Memory
    <2>6. cmd_length = Len(text) + Len(saving) /\ Len(saving) > 1
      BY <1>5 DEF LInv, Lines, IsLine
    <2>7. Len(text) \in Nat /\ Len(saving) \in Nat
      BY <2>1
    <2>8. QED  BY <2>5, <2>6, <2>7
  <1>6. QED  BY <1>1, <1>2, <1>3, <1>4, <1>5, LogRests

LEMMA LInvNext ==
  ASSUME SInv, LInv, [Next]_vars, ~beyond'
  PROVE  LInv'
  <1>1. CASE DeviceCommand
    BY <1>1, LineBegins
  <1>2. CASE WriteByte
    <2>1. CASE job # "log"
      BY <1>2, <2>1, OtherByte
    <2>2. todo \in Seq(Write) /\ todo # <<>>
      BY <1>2 DEF SInv, Types, TypeOK, Busy, WriteByte
    <2>3. Len(todo) > 1 \/ Len(todo) = 1
      BY <2>2, OneLess
    <2>4. QED  BY <1>2, <2>1, <2>3, LineGoesOn, LineSaved
  <1>3. CASE PowerFails
    BY <1>3, PowerKeeps
  <1>4. CASE SetServer \/ SetMqtt \/ Save \/ InitCommand \/ RunSave \/ RunInit
    <2>1. /\ pc \in {"idle", "run"} /\ ee' = ee /\ job' # "log" /\ text' = text /\ torn' = torn /\ typed' = typed
      BY <1>4 DEF SetServer, SetMqtt, Save, InitCommand, RunSave, RunInit, Reset, Start, Replaying, ram, hist
    <2>2. job = "none" /\ server \in Cells \X Cells /\ names \in NameTriple
      BY <2>1, Ready
    <2>3. Below(todo')
      <3>1. CASE SetServer
        <4>1. server' \in Cells \X Cells /\ todo' = Put(0, server')
          BY <3>1, StoreAssumption DEF SetServer, Start
        <4>2. QED  BY <2>2, <4>1, ConfigBelow
      <3>2. CASE SetMqtt
        <4>1. /\ names' \in NameTriple
              /\ todo' = PutName(1, names'[1]) \o PutName(2, names'[2]) \o PutName(3, names'[3])
          BY <3>2, DefaultsType DEF SetMqtt, Start
        <4>2. QED  BY <2>2, <4>1, ConfigBelow
      <3>3. CASE Save \/ RunSave
        <4>1. todo' = SaveConfig(server, names)
          BY <3>3 DEF Save, RunSave, Start
        <4>2. QED  BY <2>2, <4>1, ConfigBelow
      <3>4. CASE InitCommand \/ RunInit
        <4>1. todo' = SaveConfig(DefaultServer, NoNames)
          BY <3>4 DEF InitCommand, RunInit, Reset, Start
        <4>2. DefaultServer \in Cells \X Cells /\ NoNames \in NameTriple
          BY StoreAssumption, NoNamesType
        <4>3. QED  BY <4>1, <4>2, ConfigBelow
      <3>5. QED  BY <1>4, <3>1, <3>2, <3>3, <3>4
    <2>4. Log' = Log
      BY <2>1, LogSame
    <2>5. QED  BY <2>1, <2>2, <2>3, <2>4, LogRests
  <1>5. CASE Boot
    <2>1. /\ pc = "boot" /\ ee' = ee /\ text' = text /\ torn' = torn /\ typed' = typed
      BY <1>5 DEF Boot, hist
    <2>2. job = "none" /\ todo = <<>>
      BY <2>1 DEF SInv, Busy
    <2>3. \/ todo' = todo /\ job' = job
          \/ /\ job' = "format"
             /\ todo' = PutName(1, DefaultNames[1]) \o PutName(2, DefaultNames[2])
                          \o PutName(3, DefaultNames[3]) \o Put(LengthAt, Bytes(0))
      BY <1>5 DEF Boot, Start
    <2>4. Below(todo') /\ job' # "log"
      <3>1. DefaultNames \in NameTriple /\ DefaultServer \in Cells \X Cells
        BY DefaultsType, StoreAssumption
      <3>2. Below(<<>>)
        BY DEF Below
      <3>3. QED  BY <2>2, <2>3, <3>1, <3>2, ConfigBelow
    <2>5. Log' = Log
      BY <2>1, LogSame
    <2>6. QED  BY <2>1, <2>2, <2>4, <2>5, LogRests
  <1>6. CASE RunDevice \/ RunSet \/ RunReboot \/ RunEnds \/ Rejected \/ SetServerBad \/ Reboot
    <2>1. /\ pc \in {"idle", "run"} /\ ee' = ee /\ text' = text /\ torn' = torn /\ typed' = typed
          /\ \/ todo' = todo /\ job' = job
             \/ todo' = <<>> /\ job' = "none"
      BY <1>6 DEF RunDevice, RunSet, RunReboot, RunEnds, Replaying, Rejected, SetServerBad, Reboot, Restarted, ram, hist
    <2>2. job = "none" /\ todo = <<>>
      BY <2>1 DEF SInv, Busy
    <2>3. Below(<<>>)
      BY DEF Below
    <2>4. Log' = Log
      BY <2>1, LogSame
    <2>5. QED  BY <2>1, <2>2, <2>3, <2>4, LogRests
  <1>7. CASE UNCHANGED vars
    <2>1. /\ ee' = ee /\ todo' = todo /\ job' = job /\ text' = text /\ saving' = saving
          /\ typed' = typed /\ torn' = torn /\ cmd_length' = cmd_length
      BY <1>7 DEF vars, ram, hist
    <2>2. Log' = Log
      BY <2>1, LogSame
    <2>3. Lines' /\ Order'
      BY <2>1, <2>2 DEF LInv, Lines, Order
    <2>4. LogThen' = LogThen /\ (LengthLeft' <=> LengthLeft)
      BY <2>1, <2>2 DEF LogThen, LengthLeft
    <2>5. TidyNow' /\ TidyThen'
      BY <2>1, <2>2, <2>4 DEF LInv, TidyNow, TidyThen
    <2>6. QED  BY <2>3, <2>5 DEF LInv
  <1>8. CASE Check
    <2>1. /\ pc = "boot" /\ ee' = [ee EXCEPT ![CheckAt] = Mark] /\ todo' = todo /\ job' = job
          /\ text' = text /\ torn' = torn /\ typed' = typed
      BY <1>8 DEF Check, hist
    <2>2. job = "none" /\ todo = <<>> /\ ee \in Memory
      BY <2>1 DEF SInv, Busy, Types
    <2>3. CheckAt \in 0..(Size - 1)
      BY Layout DEF CheckAt
    <2>4. Log' = Log
      BY <2>1, <2>2, <2>3, LogByte
    <2>5. Below(<<>>)
      BY DEF Below
    <2>6. QED  BY <2>1, <2>2, <2>4, <2>5, LogRests
  <1>9. QED  BY <1>1, <1>2, <1>3, <1>4, <1>5, <1>6, <1>7, <1>8 DEF Next, Step

\* Whatever a replay executes out of the log's cells is a line that was saved, or
\* the rest of one, wherever run_cmd's double steps land and whatever older logs
\* have left behind the end, as long as no power failure tore the log and its
\* length has fitted its cells.
THEOREM NothingMadeUp == Spec => []NothingInvented
  <1> DEFINE Inv == ~beyond => LInv
  <1>1. Init => Inv
    BY LInvInit
  <1>2. AllInv /\ Inv /\ [Next]_vars => Inv'
    <2> SUFFICES ASSUME AllInv, Inv, [Next]_vars, ~beyond' PROVE LInv'
      OBVIOUS
    <2>1. ~beyond
      BY BeyondStays DEF AllInv, TypeOK
    <2>2. QED  BY <2>1, LInvNext DEF AllInv
  <1>3. AllInv /\ Inv => NothingInvented
    <2> SUFFICES ASSUME SInv, LInv, pc = "run", cmd_len < cmd_length, cmd_len + Len(NextLine) <= LogMax, ~torn
                 PROVE  \E line \in typed : IsSuffix(Words(NextLine), Words(line))
      BY DEF AllInv, NothingInvented
    <2>1. /\ ee \in Memory /\ job = "none" /\ cmd_len \in Nat /\ cmd_length \in Nat /\ text \in Seq(Cells)
          /\ LogWill(ee, <<>>, cmd_length, text)
      BY Ready
    <2>2. \A line \in typed : IsLine(line)
      BY DEF LInv, Lines
    <2>3. Tidy(Log, typed) /\ EndsAt(Log, Len(text))
      BY <2>1 DEF LInv, TidyNow
    <2>4. CASE NextLine # <<>>
      BY <2>1, <2>2, <2>3, <2>4, NothingNew
    <2>5. CASE NextLine = <<>>
      <3>1. Len(text) = cmd_length
        BY <2>1 DEF LogWill
      <3>2. Len(text) # 0
        BY <2>1, <3>1
      <3>3. Len(text) - 1 \in LineEnds(Log)
        BY <2>3, <3>2 DEF EndsAt
      <3>4. PICK line \in typed : TRUE
        BY <2>3, <3>3 DEF Tidy
      <3>5. QED  BY <2>2, <2>5, <3>4, NothingRead
    <2>6. QED  BY <2>4, <2>5
  <1>4. QED  BY <1>1, <1>2, <1>3, StoreInvariant, PTL DEF Spec
=============================================================================

------------------------- MODULE CloudRequestsProofs -------------------------
(***************************************************************************)
(* The requests use the pool as MemPool's proofs assume, whatever the      *)
(* documents look like: so the pool keeps its promise in the composition.  *)
(***************************************************************************)
EXTENDS CloudRequests, MemPoolProofs, SequenceTheorems, LeastElement

Handed(p) == p \in {u * BlockSize : u \in Starts}
Known(p)  == p \in {u * BlockSize : u \in Starts \cup stale}
Jobs == [do : {"delete", "free", "item", "child"}, node : Nodes]

\* Where the pool stands while a request is in progress.
CallOK ==
  /\ phase \in {"none", "parse", "unwind", "handle", "execute"}
  /\ pc = "idle" => old = Fail
  /\ phase # "none" => old = Fail
  /\ phase = "parse" => pc \in IF making THEN {"idle", "scan", "mark"} ELSE {"idle"}
  /\ phase \in {"unwind", "handle"} => pc \in {"idle", "clear"}
  /\ phase = "execute" => pc = "idle"
  /\ phase # "parse" => making = FALSE
  /\ phase \notin {"unwind", "handle"} => todo = <<>>

\* Every node is in use until the deletions begin, and from then on in use or
\* freed without anything having been handed out since.
NodesOK ==
  /\ addr \in Seq(Nat)
  /\ phase # "none" => doc \in Documents /\ Len(addr) <= Len(doc.nodes)
  /\ phase = "parse" => \A n \in Nodes : Handed(addr[n])
  /\ phase \in {"unwind", "handle"} => \A n \in Nodes : Known(addr[n])
  /\ making /\ pc = "idle" /\ ret # Fail => ret \in Nat /\ Handed(ret)
  /\ addr # <<>> \/ making => memrdy
  /\ making => Len(addr) < Len(doc.nodes)
  /\ phase # "none" \/ addr = <<>>

CInv == CallOK /\ NodesOK /\ todo \in Seq(Jobs) /\ PInv

-----------------------------------------------------------------------------
LEMMA FirstOne == \A S : First(S) \in S \cup {0}
  BY DEF First

\* The calls that have not returned name nodes.
LEMMA TodoType ==
  ASSUME NEW n \in Nodes \cup {0}, NEW what \in {"delete", "free", "item", "child"}, 0 \notin Nodes
  PROVE  Todo(what, n) \in Seq(Jobs)
  <1>1. CASE n = 0
    BY <1>1 DEF Todo
  <1>2. CASE n # 0
    BY <1>2 DEF Todo, Jobs
  <1>3. QED  BY <1>1, <1>2

LEMMA KidsAreNodes ==
  \A n : /\ ChildOf(n) \in Nodes \cup {0} /\ NextOf(n) \in Nodes \cup {0}
         /\ \A key : ObjectItem(n, key) \in Nodes \cup {0}
  BY FirstOne DEF ChildOf, NextOf, ObjectItem, Kids

\* What is put in front of todo, in two or three pieces.
LEMMA Joining ==
  ASSUME NEW S, NEW a \in Seq(S), NEW b \in Seq(S), NEW c \in Seq(S)
  PROVE  a \o b \in Seq(S) /\ a \o b \o c \in Seq(S)
  <1>1. a \o b \in Seq(S)
    OBVIOUS
  <1>2. QED  BY <1>1

LEMMA CInvInit == RequestInit => CInv
  <1> SUFFICES ASSUME RequestInit PROVE CInv
    OBVIOUS
  <1>1. PInv
    BY PInvInit DEF RequestInit
  <1>2. CallOK
    BY DEF RequestInit, Init, CallOK
  <1>3. NodesOK
    BY DEF RequestInit, NodesOK, Nodes
  <1>4. QED  BY <1>1, <1>2, <1>3 DEF RequestInit, CInv

\* Every step of a request is a call MemPool allows for, or none of its steps.
LEMMA StepInContract == CInv /\ [RequestNext]_all => [Next]_vars
  <1> SUFFICES ASSUME CInv, [RequestNext]_all PROVE [Next]_vars
    OBVIOUS
  <1>1. CASE PoolStep
    BY <1>1 DEF PoolStep, Next
  <1>2. CASE OtherCall
    BY <1>2 DEF OtherCall, Next
  <1>3. CASE NewItem
    <2>1. Len(addr) + 1 \in 1 .. Len(doc.nodes) /\ doc \in Documents
      BY <1>3 DEF NewItem, CInv, NodesOK
    <2>2. Node(Len(addr) + 1).size \in Sizes
      BY <2>1, DocumentAssumption DEF Node
    <2>3. QED  BY <1>3, <2>2 DEF NewItem, Malloc, Next
  <1>4. CASE FreeNode
    <2>1. todo \in Seq(Jobs) /\ todo # <<>> /\ phase \in {"unwind", "handle"}
      BY <1>4 DEF FreeNode, Doing, CInv
    <2>2. Head(todo).node \in Nodes
      <3>1. Head(todo) \in Jobs
        BY <2>1
      <3>2. QED  BY <3>1 DEF Jobs
    <2>3. PICK u \in Starts \cup stale : addr[Head(todo).node] = u * BlockSize
      BY <2>1, <2>2 DEF CInv, NodesOK, Known
    <2>4. memrdy
      BY <2>2 DEF CInv, NodesOK, Nodes
    <2>5. QED  BY <1>4, <2>3, <2>4 DEF FreeNode, Free, Freeable, Next
  <1>5. CASE Arrive \/ Malformed \/ Linked \/ Parsed \/ Item \/ Child \/ Delete \/ Done \/ Execute
    BY <1>5 DEF Arrive, Malformed, Linked, Parsed, Item, Child, Delete, Done, Execute
  <1>6. CASE UNCHANGED all
    BY <1>6 DEF all
  <1>7. QED  BY <1>1, <1>2, <1>3, <1>4, <1>5, <1>6 DEF RequestNext, RequestStep

\* A step of a call that is under way.
LEMMA PoolStepKeeps == CInv /\ PoolStep => CallOK' /\ NodesOK'
  <1> SUFFICES ASSUME CInv, PoolStep PROVE CallOK' /\ NodesOK'
    OBVIOUS
  <1> USE DEF CInv
  <1>1. UNCHANGED request
    BY DEF PoolStep
  <1>2. Nodes' = Nodes
    BY <1>1 DEF Nodes, request
  <1>3. CASE Scan \/ GiveUp \/ Mark \/ Clear
    <2>1. UNCHANGED <<live, stale, memrdy>>
      BY <1>3 DEF Scan, GiveUp, Mark, Clear
    <2>2. CallOK'
      BY <1>1, <1>3 DEF CallOK, request, Scan, GiveUp, Mark, Clear, Return
    <2>3. pc' = "idle" => ret' = Fail
      BY <1>3 DEF Scan, GiveUp, Mark, Clear, Return
    <2>4. NodesOK'
      BY <1>1, <1>2, <2>1, <2>3 DEF NodesOK, request, Handed, Known, Starts
    <2>5. QED  BY <2>2, <2>4
  <1>4. CASE HandOut
    <2>1. phase \notin {"unwind", "handle", "execute"}
      BY <1>4 DEF HandOut, CallOK
    <2>2. CallOK'
      BY <1>1, <1>4, <2>1 DEF CallOK, request, HandOut, Return
    <2>3. Starts \subseteq Starts' /\ memrdy' = memrdy
      BY <1>4 DEF HandOut, Starts
    <2>4. ret' \in Nat /\ Handed(ret)'
      <3>1. ret' = offset * BlockSize /\ Found \in live' /\ Found.first = offset
        BY <1>4 DEF HandOut, Found
      <3>2. offset \in Nat /\ BlockSize \in Nat
        BY <1>4, PoolAssumption DEF HandOut, PInv, MarkOK, TypeOK
      <3>3. offset \in Starts'
        BY <3>1 DEF Starts
      <3>4. QED  BY <3>1, <3>2, <3>3 DEF Handed
    <2>5. (phase = "parse" => \A n \in Nodes : Handed(addr[n]))'
      BY <1>1, <1>2, <2>3 DEF NodesOK, request, Handed
    <2>6. QED  BY <1>1, <2>1, <2>2, <2>3, <2>4, <2>5 DEF NodesOK, request
  <1>5. CASE Freed
    <2>1. phase # "parse" /\ ~making
      BY <1>5 DEF Freed, CallOK
    <2>2. CallOK'
      BY <1>1, <1>5 DEF CallOK, request, Freed, Return
    <2>3. Starts \cup stale \subseteq Starts' \cup stale' /\ memrdy' = memrdy
      BY <1>5 DEF Freed, Starts
    <2>4. (phase \in {"unwind", "handle"} => \A n \in Nodes : Known(addr[n]))'
      BY <1>1, <1>2, <2>3 DEF NodesOK, request, Known
    <2>5. QED  BY <1>1, <2>1, <2>2, <2>3, <2>4 DEF NodesOK, request
  <1>6. QED  BY <1>3, <1>4, <1>5 DEF PoolStep

\* A step of the request that is no call of the pool: nothing is handed out or
\* freed, and what it puts into todo are nodes.
LEMMA WalkKeeps ==
  ASSUME CInv, Item \/ Child \/ Delete
  PROVE  CallOK' /\ NodesOK' /\ (todo \in Seq(Jobs))'
  <1> USE DEF CInv
  <1>1. UNCHANGED <<vars, phase, doc, addr, making>> /\ phase \in {"unwind", "handle"} /\ todo # <<>>
    BY DEF Item, Child, Delete, Doing
  <1>2. CallOK' /\ NodesOK' /\ Jobs' = Jobs
    BY <1>1 DEF CallOK, NodesOK, vars, Nodes, Known, Handed, Starts, Jobs
  <1>3. 0 \notin Nodes
    BY DEF Nodes
  <1>4. Tail(todo) \in Seq(Jobs) /\ Head(todo).node \in Nodes
    <2>1. Head(todo) \in Jobs
      BY <1>1
    <2>2. QED  BY <1>1, <2>1 DEF Jobs
  <1>5. todo' \in Seq(Jobs)
    <2> DEFINE n == Head(todo).node
    <2>1. CASE Item
      <3> DEFINE device == ObjectItem(n, "deviceId")
                 set    == ObjectItem(n, "set")
                 rest   == Todo("delete", n) \o Todo("item", NextOf(n)) \o Tail(todo)
      <3>1. rest \in Seq(Jobs)
        <4>1. Todo("delete", n) \in Seq(Jobs) /\ Todo("item", NextOf(n)) \in Seq(Jobs)
          BY <1>3, <1>4, TodoType, KidsAreNodes
        <4>2. QED  BY <1>4, <4>1, Joining
      <3>2. /\ Todo("delete", set) \in Seq(Jobs) /\ Todo("delete", device) \in Seq(Jobs)
            /\ Todo("child", ChildOf(n)) \in Seq(Jobs)
        BY <1>3, TodoType, KidsAreNodes
      <3>3. /\ Todo("delete", set) \o Todo("delete", device) \o rest \in Seq(Jobs)
            /\ Todo("delete", device) \o rest \in Seq(Jobs)
            /\ Todo("child", ChildOf(n)) \o rest \in Seq(Jobs)
        <4> HIDE DEF rest, set, device
        <4>1. QED  BY <3>1, <3>2, Joining
      <3>4. QED  BY <2>1, <3>3 DEF Item
    <2>2. CASE Child
      <3> DEFINE device == ObjectItem(Node(n).parent, "deviceId")
                 rest   == Todo("child", NextOf(n)) \o Tail(todo)
      <3>1. rest \in Seq(Jobs)
        <4>1. Todo("child", NextOf(n)) \in Seq(Jobs)
          BY <1>3, <1>4, TodoType, KidsAreNodes
        <4>2. QED  BY <1>4, <4>1
      <3>2. Todo("delete", device) \in Seq(Jobs)
        BY <1>3, TodoType, KidsAreNodes
      <3> HIDE DEF rest
      <3>3. todo' = Todo("delete", device) \o rest \/ todo' = rest
        BY <2>2 DEF Child, rest
      <3>4. QED  BY <3>1, <3>2, <3>3, Joining
    <2>3. CASE Delete
      <3>1. /\ Todo("delete", ChildOf(n)) \in Seq(Jobs) /\ Todo("free", n) \in Seq(Jobs)
            /\ Todo("delete", NextOf(n)) \in Seq(Jobs)
        BY <1>3, <1>4, TodoType, KidsAreNodes
      <3>2. todo' = Todo("delete", ChildOf(n)) \o Todo("free", n)
                      \o Todo("delete", NextOf(n)) \o Tail(todo)
        BY <2>3 DEF Delete
      <3>3. QED  BY <1>4, <3>1, <3>2
    <2>4. QED  BY <2>1, <2>2, <2>3
  <1>6. QED  BY <1>2, <1>5

\* The other steps of the request.
LEMMA RequestStepKeeps ==
  ASSUME CInv, Arrive \/ Malformed \/ NewItem \/ Linked \/ Parsed \/ FreeNode \/ Done \/ Execute
  PROVE  CallOK' /\ NodesOK' /\ (todo \in Seq(Jobs))'
  <1> USE DEF CInv
  <1>1. 0 \notin Nodes
    BY DEF Nodes
  <1>2. CASE Arrive
    <2>1. CallOK'
      BY <1>2 DEF CallOK, Arrive, vars
    <2>2. NodesOK'
      BY <1>2 DEF NodesOK, CallOK, Arrive, vars, Nodes
    <2>3. todo' = <<>>
      BY <1>2 DEF Arrive, CallOK
    <2>4. QED  BY <2>1, <2>2, <2>3
  <1>3. CASE Malformed
    <2>1. CallOK'
      BY <1>3 DEF CallOK, Malformed, vars
    <2>2. NodesOK'
      BY <1>3 DEF NodesOK, CallOK, Malformed, vars, Nodes, Known, Handed, Starts
    <2>3. Jobs' = Jobs /\ Root \in Nodes
      BY <1>3 DEF Malformed, Nodes, Root, NodesOK, Jobs
    <2>4. todo' = Todo("delete", Root)
      BY <1>3 DEF Malformed, AfterFailure
    <2>5. QED  BY <1>1, <2>1, <2>2, <2>3, <2>4, TodoType
  <1>4. CASE NewItem
    <2>1. Node(Len(addr) + 1).size # 0
      <3>1. Len(addr) + 1 \in 1 .. Len(doc.nodes) /\ doc \in Documents
        BY <1>4 DEF NewItem, NodesOK
      <3>2. QED  BY <3>1, DocumentAssumption DEF Node
    <2>2. pc' = "scan" /\ old' = Fail /\ memrdy' /\ UNCHANGED <<live, stale>>
      BY <1>4, <2>1 DEF NewItem, StartSearch
    <2>3. CallOK'
      BY <1>4, <2>2 DEF CallOK, NewItem
    <2>4. NodesOK'
      BY <1>4, <2>2 DEF NodesOK, NewItem, Nodes, Handed, Starts
    <2>5. QED  BY <1>4, <2>3, <2>4 DEF NewItem, Jobs, Nodes
  <1>5. CASE Linked
    <2>1. CallOK'
      BY <1>5 DEF CallOK, Linked, vars
    <2>2. CASE ret # Fail
      <3>1. addr' = Append(addr, ret) /\ phase' = "parse" /\ making' = FALSE /\ todo' = <<>>
            /\ UNCHANGED <<vars, doc>> /\ ret \in Nat /\ Handed(ret) /\ addr \in Seq(Nat) /\ memrdy
        BY <1>5, <2>2 DEF Linked, NodesOK, CallOK
      <3>2. \A n \in Nodes' : Handed(addr'[n])
        BY <1>5, <3>1 DEF Nodes, NodesOK, Linked
      <3>3. (Len(addr) <= Len(doc.nodes))'
        BY <1>5, <3>1 DEF Linked, NodesOK
      <3>4. NodesOK'
        <4>1. UNCHANGED <<pc, memrdy, live, stale>> /\ addr' \in Seq(Nat)
          BY <3>1 DEF vars
        <4>2. (doc \in Documents)' /\ phase' # "none"
          BY <1>5, <3>1 DEF NodesOK, Linked
        <4>3. (\A n \in Nodes : Handed(addr[n]))'
          BY <3>2, <4>1 DEF Handed, Starts
        <4>4. QED  BY <3>1, <3>3, <4>1, <4>2, <4>3 DEF NodesOK
      <3>5. QED  BY <2>1, <3>1, <3>4
    <2>3. CASE ret = Fail
      <3>1. UNCHANGED <<vars, doc, addr>> /\ making' = FALSE /\ phase' = "unwind"
        BY <1>5, <2>3 DEF Linked
      <3>2. NodesOK'
        BY <1>5, <3>1 DEF NodesOK, vars, Nodes, Handed, Known, Starts, Linked
      <3>3. todo' \in Seq(Jobs)
        <4>1. todo' = Todo("delete", IF addr = <<>> THEN 0 ELSE Root)
          BY <1>5, <2>3 DEF Linked, AfterFailure
        <4>2. addr # <<>> => Root \in Nodes
          BY DEF NodesOK, Root, Nodes
        <4>3. QED  BY <1>1, <4>1, <4>2, TodoType
      <3>4. QED  BY <2>1, <3>1, <3>2, <3>3 DEF Jobs, Nodes
    <2>4. QED  BY <2>2, <2>3
  <1>6. CASE Parsed
    <2>1. CallOK'
      BY <1>6 DEF CallOK, Parsed, vars
    <2>2. NodesOK'
      BY <1>6 DEF NodesOK, Parsed, vars, Nodes, Known, Handed, Starts
    <2>3. Root \in Nodes /\ Method \in Nodes \cup {0} /\ Params \in Nodes \cup {0}
      <3>1. Len(addr) \in Nat \ {0}
        BY <1>6, DocumentAssumption DEF Parsed, NodesOK
      <3>2. QED  BY <3>1, KidsAreNodes DEF Root, Nodes, Method, Params
    <2>4. Items \in Nodes \cup {0}
      BY KidsAreNodes DEF Items
    <2>5. /\ Todo("delete", Root) \in Seq(Jobs) /\ Todo("item", Items) \in Seq(Jobs)
          /\ Todo("delete", IF doc.command = "other" THEN 0 ELSE Params) \in Seq(Jobs)
          /\ Todo("delete", Method) \in Seq(Jobs)
      BY <1>1, <2>3, <2>4, TodoType
    <2>6. todo' \in Seq(Jobs)
      BY <1>6, <2>5 DEF Parsed
    <2>7. QED  BY <1>6, <2>1, <2>2, <2>6 DEF Parsed, Jobs, Nodes
  <1>7. CASE FreeNode
    <2>1. todo # <<>> /\ phase \in {"unwind", "handle"} /\ Head(todo) \in Jobs
      BY <1>7 DEF FreeNode, Doing
    <2>2. memrdy
      <3>1. Head(todo).node \in Nodes
        BY <2>1 DEF Jobs
      <3>2. QED  BY <3>1 DEF NodesOK, Nodes
    <2>3. pc' = "clear" /\ UNCHANGED <<memrdy, ret, old, live, stale, phase, doc, addr, making>>
      BY <1>7, <2>2 DEF FreeNode, FreeAt
    <2>4. CallOK' /\ NodesOK' /\ Jobs' = Jobs
      BY <2>1, <2>3 DEF CallOK, NodesOK, Nodes, Known, Starts, Jobs
    <2>5. QED  BY <1>7, <2>1, <2>4 DEF FreeNode
  <1>8. CASE Done
    <2>1. CallOK' /\ NodesOK'
      BY <1>8 DEF Done, CallOK, NodesOK, vars
    <2>2. QED  BY <1>8, <2>1 DEF Done
  <1>9. CASE Execute
    <2>1. CallOK'
      BY <1>9 DEF Execute, CallOK, vars
    <2>2. NodesOK'
      BY <1>9 DEF Execute, CallOK, NodesOK, vars, Nodes
    <2>3. QED  BY <1>9, <2>1, <2>2 DEF Execute, CallOK
  <1>10. QED  BY <1>2, <1>3, <1>4, <1>5, <1>6, <1>7, <1>8, <1>9

\* Calls between requests.
LEMMA OtherCallKeeps ==
  ASSUME CInv, OtherCall
  PROVE  CallOK' /\ NodesOK' /\ (todo \in Seq(Jobs))'
  <1> USE DEF CInv
  <1>1. UNCHANGED request /\ phase = "none" /\ addr = <<>> /\ todo = <<>> /\ ~making
    BY DEF OtherCall, BetweenRequests, CallOK, NodesOK
  <1>2. pc' = "idle" => old' = Fail
    BY DEF OtherCall, Initialise, Realloc, Malloc, StartSearch, Free, FreeAt, FreeOutside, CallOK
  <1>3. QED  BY <1>1, <1>2 DEF CallOK, NodesOK, request, Nodes

LEMMA CInvNext == CInv /\ [RequestNext]_all => CInv'
  <1> SUFFICES ASSUME CInv, [RequestNext]_all PROVE CInv'
    OBVIOUS
  <1>1. PInv'
    BY StepInContract, PInvNext DEF CInv
  <1>2. CASE PoolStep
    <2>1. (todo \in Seq(Jobs))'
      BY <1>2 DEF PoolStep, request, CInv, Jobs, Nodes
    <2>2. QED  BY <1>1, <1>2, <2>1, PoolStepKeeps DEF CInv
  <1>3. CASE Item \/ Child \/ Delete
    BY <1>1, <1>3, WalkKeeps DEF CInv
  <1>4. CASE OtherCall
    BY <1>1, <1>4, OtherCallKeeps DEF CInv
  <1>5. CASE Arrive \/ Malformed \/ NewItem \/ Linked \/ Parsed \/ FreeNode \/ Done \/ Execute
    BY <1>1, <1>5, RequestStepKeeps DEF CInv
  <1>6. CASE UNCHANGED all
    <2>1. CallOK' /\ NodesOK' /\ (todo \in Seq(Jobs))'
      BY <1>6 DEF all, vars, request, CInv, CallOK, NodesOK, Nodes, Handed, Known, Starts, Jobs
    <2>2. QED  BY <1>1, <2>1 DEF CInv
  <1>7. QED  BY <1>2, <1>3, <1>4, <1>5, <1>6 DEF RequestNext, RequestStep

-----------------------------------------------------------------------------
\* Whatever the documents, requests use the pool as MemPool lets it be used.
THEOREM RequestsWithinContract == RequestSpec => WithinContract
  <1>1. RequestInit => Init
    BY DEF RequestInit
  <1>2. QED
    BY <1>1, CInvInit, CInvNext, StepInContract, PTL DEF RequestSpec, WithinContract, Spec

\* So the blocks in use never overlap and the table stays exact under requests,
\* and the pool keeps its promise.
THEOREM RequestsKeepPromise ==
  RequestSpec => []NoOverlap /\ []TableExact /\ Promise
  BY RequestsWithinContract, PoolNeverOverlaps, PoolTableExact, PoolKeepsPromise, PTL
     DEF WithinContract

-----------------------------------------------------------------------------
(* A request leaves nothing behind.  What is still to be deleted follows   *)
(* from the jobs in todo, which is why only the set of jobs of each kind   *)
(* matters, and that of whatever they lead to is the least set closed      *)
(* under it: a node is covered when it lies in every set S that holds what *)
(* the deletions in todo start with and, with a node, what is below it.    *)

\* The nodes whose blocks are still in use.
Unfreed == {n \in Nodes : \E b \in live : addr[n] = b.first * BlockSize}

\* The nodes that a sequence of jobs names for one purpose.
JobsIn(s, what) == {n \in Nodes : \E j \in 1 .. Len(s) : s[j].do = what /\ s[j].node = n}

\* A block in use is a node's or was in use when the request came, and none is both.
OwnOK ==
  phase # "none" =>
    /\ others \subseteq live
    /\ \A b \in live \ others :
         \/ \E n \in Nodes : addr[n] = b.first * BlockSize
         \/ making /\ pc = "idle" /\ ret = b.first * BlockSize
    /\ \A b \in others :
         /\ \A n \in Nodes : addr[n] # b.first * BlockSize
         /\ making /\ pc = "idle" => ret # b.first * BlockSize
         /\ pc = "clear" => b.first # offset

\* S holds every node that a deletion in todo comes to.
Swept(S) ==
  /\ \A n \in S : Kids(n) \subseteq S
  /\ \A k \in JobsIn(todo, "delete") : {m \in Kids(Node(k).parent) : m >= k} \subseteq S

\* A node in use is one that todo is going to free, or that is being freed.
FreeOK ==
  phase \in {"unwind", "handle"} =>
    \A S \in SUBSET Nodes : Swept(S) =>
      \A n \in Unfreed : \/ n \in S \cup JobsIn(todo, "free")
                         \/ pc = "clear" /\ addr[n] = offset * BlockSize

-----------------------------------------------------------------------------
\* The jobs in one job, in two pieces, and in what follows the first job.
LEMMA JobsOfTodo ==
  ASSUME NEW n \in Nodes \cup {0}, NEW what, NEW other
  PROVE  JobsIn(Todo(what, n), other) = IF other = what THEN {n} \ {0} ELSE {}
  <1>1. CASE n = 0
    BY <1>1 DEF Todo, JobsIn
  <1>2. CASE n # 0
    <2> DEFINE s == <<[do |-> what, node |-> n]>>
    <2>1. Len(s) = 1 /\ s[1].do = what /\ s[1].node = n
      OBVIOUS
    <2>2. Todo(what, n) = s /\ n \in Nodes
      BY <1>2 DEF Todo
    <2> HIDE DEF s
    <2>3. \A j : j \in 1 .. Len(s) <=> j = 1
      BY <2>1
    <2>4. JobsIn(s, other) = {m \in Nodes : s[1].do = other /\ s[1].node = m}
      BY <2>3 DEF JobsIn
    <2>5. JobsIn(s, other) = {m \in Nodes : what = other /\ n = m}
      BY <2>1, <2>4
    <2>6. JobsIn(s, other) = IF other = what THEN {n} ELSE {}
      BY <2>2, <2>5
    <2>7. {n} \ {0} = {n}
      BY <1>2
    <2>8. QED  BY <2>2, <2>6, <2>7
  <1>3. QED  BY <1>1, <1>2

LEMMA JobsOfJoin ==
  ASSUME NEW S, NEW a \in Seq(S), NEW b \in Seq(S), NEW what
  PROVE  JobsIn(a \o b, what) = JobsIn(a, what) \cup JobsIn(b, what)
  <1> DEFINE c == a \o b
  <1>1. /\ Len(c) = Len(a) + Len(b) /\ Len(a) \in Nat /\ Len(b) \in Nat
        /\ \A j \in 1 .. Len(c) : c[j] = IF j <= Len(a) THEN a[j] ELSE b[j - Len(a)]
    BY ConcatProperties
  <1> HIDE DEF c
  <1>2. ASSUME NEW n \in Nodes, NEW j \in 1 .. Len(c), c[j].do = what, c[j].node = n
        PROVE  n \in JobsIn(a, what) \cup JobsIn(b, what)
    <2>1. CASE j <= Len(a)
      BY <1>1, <1>2, <2>1 DEF JobsIn
    <2>2. CASE ~(j <= Len(a))
      <3>1. j - Len(a) \in 1 .. Len(b) /\ c[j] = b[j - Len(a)]
        BY <1>1, <2>2
      <3>2. QED  BY <1>2, <3>1 DEF JobsIn
    <2>3. QED  BY <2>1, <2>2
  <1>3. ASSUME NEW n \in Nodes, NEW j \in 1 .. Len(a), a[j].do = what, a[j].node = n
        PROVE  n \in JobsIn(c, what)
    <2>1. j \in 1 .. Len(c) /\ c[j] = a[j]
      BY <1>1
    <2>2. QED  BY <1>3, <2>1 DEF JobsIn
  <1>4. ASSUME NEW n \in Nodes, NEW j \in 1 .. Len(b), b[j].do = what, b[j].node = n
        PROVE  n \in JobsIn(c, what)
    <2>1. Len(a) + j \in 1 .. Len(c) /\ c[Len(a) + j] = b[j]
      BY <1>1
    <2>2. QED  BY <1>4, <2>1 DEF JobsIn
  <1>5. JobsIn(c, what) = JobsIn(a, what) \cup JobsIn(b, what)
    BY <1>2, <1>3, <1>4 DEF JobsIn
  <1>6. QED  BY <1>5 DEF c

LEMMA JobsOfHead ==
  ASSUME NEW S, NEW s \in Seq(S), s # <<>>, Head(s).node \in Nodes, NEW what
  PROVE  JobsIn(s, what) = JobsIn(Tail(s), what)
                             \cup (IF Head(s).do = what THEN {Head(s).node} ELSE {})
  <1> DEFINE t == Tail(s)
  <1>1. Len(s) \in Nat \ {0} /\ Len(t) = Len(s) - 1 /\ \A j \in 1 .. Len(t) : t[j] = s[j + 1]
    BY HeadTailProperties
  <1>2. Head(s) = s[1]
    OBVIOUS
  <1> HIDE DEF t
  <1>3. ASSUME NEW n \in Nodes, NEW j \in 1 .. Len(s), s[j].do = what, s[j].node = n
        PROVE  n \in JobsIn(t, what) \/ (Head(s).do = what /\ n = Head(s).node)
    <2>1. CASE j = 1
      BY <1>2, <1>3, <2>1
    <2>2. CASE j # 1
      <3>1. j - 1 \in 1 .. Len(t) /\ t[j - 1] = s[j]
        BY <1>1, <2>2
      <3>2. QED  BY <1>3, <3>1 DEF JobsIn
    <2>3. QED  BY <2>1, <2>2
  <1>4. ASSUME NEW n \in Nodes, NEW j \in 1 .. Len(t), t[j].do = what, t[j].node = n
        PROVE  n \in JobsIn(s, what)
    <2>1. j + 1 \in 1 .. Len(s) /\ s[j + 1] = t[j]
      BY <1>1
    <2>2. QED  BY <1>4, <2>1 DEF JobsIn
  <1>5. Head(s).do = what => Head(s).node \in JobsIn(s, what)
    <2>1. 1 \in 1 .. Len(s)
      BY <1>1
    <2>2. QED  BY <1>2, <2>1 DEF JobsIn
  <1>6. QED  BY <1>3, <1>4, <1>5 DEF JobsIn, t

\* The first of some nodes.
LEMMA FirstOf ==
  ASSUME NEW T \in SUBSET Nat
  PROVE  IF T = {} THEN First(T) = 0 ELSE First(T) \in T /\ \A k \in T : First(T) <= k
  <1>1. CASE T = {}
    BY <1>1 DEF First
  <1>2. CASE T # {}
    <2> DEFINE least == {m \in T : \A k \in T : m <= k}
    <2>1. least # {}
      BY <1>2, Least
    <2>2. First(T) \in least
      BY <2>1 DEF First
    <2>3. QED  BY <1>2, <2>2
  <1>3. QED  BY <1>1, <1>2

\* What follows the fields next and child.
LEMMA NextAndChild ==
  ASSUME NEW n
  PROVE  /\ ChildOf(n) = 0 => Kids(n) = {}
         /\ ChildOf(n) # 0 => ChildOf(n) \in Kids(n) /\ \A m \in Kids(n) : ChildOf(n) <= m
         /\ NextOf(n) = 0 => \A m \in Kids(Node(n).parent) : ~(m > n)
         /\ NextOf(n) # 0 => /\ NextOf(n) \in Kids(Node(n).parent) /\ NextOf(n) > n
                             /\ \A m \in Kids(Node(n).parent) : m > n => NextOf(n) <= m
  <1>1. Kids(n) \in SUBSET Nat /\ 0 \notin Kids(n)
    BY DEF Kids, Nodes
  <1>2. /\ ChildOf(n) = 0 => Kids(n) = {}
        /\ ChildOf(n) # 0 => ChildOf(n) \in Kids(n) /\ \A m \in Kids(n) : ChildOf(n) <= m
    BY <1>1, FirstOf DEF ChildOf
  <1> DEFINE T == {m \in Kids(Node(n).parent) : m > n}
  <1>3. T \in SUBSET Nat /\ 0 \notin T
    BY DEF Kids, Nodes
  <1>4. NextOf(n) = First(T)
    BY DEF NextOf
  <1>5. IF T = {} THEN NextOf(n) = 0 ELSE NextOf(n) \in T /\ \A k \in T : NextOf(n) <= k
    BY <1>3, <1>4, FirstOf
  <1>6. /\ NextOf(n) = 0 => \A m \in Kids(Node(n).parent) : ~(m > n)
        /\ NextOf(n) # 0 => /\ NextOf(n) \in Kids(Node(n).parent) /\ NextOf(n) > n
                            /\ \A m \in Kids(Node(n).parent) : m > n => NextOf(n) <= m
    BY <1>3, <1>5
  <1>7. QED  BY <1>2, <1>6

\* A set of nodes that holds the root and what is below its nodes holds all of them.
LEMMA RootSweeps ==
  ASSUME NodesOK, phase # "none", NEW S \in SUBSET Nodes, Root \in S,
         \A n \in S : Kids(n) \subseteq S
  PROVE  Nodes \subseteq S
  <1> DEFINE T == Nodes \ S
  <1>1. SUFFICES ASSUME T # {} PROVE FALSE
    OBVIOUS
  <1>2. PICK n \in T : \A m \in T : n <= m
    <2>1. T \in SUBSET Nat
      BY DEF Nodes
    <2>2. QED  BY <1>1, <2>1, Least
  <1>3. n \in 2 .. Len(doc.nodes) /\ doc \in Documents /\ Len(addr) \in Nat /\ n \in Nodes
    <2>1. doc \in Documents /\ Len(addr) <= Len(doc.nodes) /\ Len(addr) \in Nat
      BY DEF NodesOK
    <2>2. Len(doc.nodes) \in Nat
      BY <2>1, DocumentAssumption
    <2>3. QED  BY <1>2, <2>1, <2>2 DEF Nodes, Root
  <1>4. Node(n).parent \in 1 .. (n - 1)
    BY <1>3, DocumentAssumption DEF Node
  <1>5. Node(n).parent \in Nodes
    BY <1>3, <1>4 DEF Nodes
  <1>6. Node(n).parent \in S
    BY <1>2, <1>3, <1>4, <1>5
  <1>7. n \in Kids(Node(n).parent)
    BY <1>3 DEF Kids
  <1>8. QED  BY <1>2, <1>6, <1>7

\* The units that addresses stand for.
LEMMA SameStart == \A u, v \in Nat : u * BlockSize = v * BlockSize => u = v
  BY Units_of_bytes

\* What stays as long as the parsed document does.
LEMMA SameNodes ==
  ASSUME UNCHANGED <<doc, addr>>
  PROVE  /\ Nodes' = Nodes /\ \A n : Node(n)' = Node(n)
         /\ \A n : Kids(n)' = Kids(n)
         /\ \A w : JobsIn(todo, w)' = JobsIn(todo', w)
  <1>1. Nodes' = Nodes
    BY DEF Nodes
  <1>2. \A n : Node(n)' = Node(n)
    BY DEF Node
  <1>3. QED  BY <1>1, <1>2 DEF Kids, JobsIn

\* The jobs in three pieces.
LEMMA JobsOfThree ==
  ASSUME NEW S, NEW a \in Seq(S), NEW b \in Seq(S), NEW c \in Seq(S), NEW w
  PROVE  JobsIn(a \o b \o c, w) = JobsIn(a, w) \cup JobsIn(b, w) \cup JobsIn(c, w)
  <1> DEFINE d == a \o b
  <1>1. d \in Seq(S) /\ JobsIn(d, w) = JobsIn(a, w) \cup JobsIn(b, w)
    BY JobsOfJoin, Joining
  <1> HIDE DEF d
  <1>2. JobsIn(d \o c, w) = JobsIn(d, w) \cup JobsIn(c, w)
    BY <1>1, JobsOfJoin
  <1>3. QED  BY <1>1, <1>2 DEF d

-----------------------------------------------------------------------------
\* The jobs before and after a step of the walk.
LEMMA FirstJob ==
  ASSUME CInv, todo # <<>>
  PROVE  /\ Head(todo).node \in Nodes /\ Tail(todo) \in Seq(Jobs)
         /\ \A w : JobsIn(todo, w) = JobsIn(Tail(todo), w)
                     \cup (IF w = Head(todo).do THEN {Head(todo).node} ELSE {})
  <1>1. todo \in Seq(Jobs)
    BY DEF CInv
  <1>2. Head(todo) \in Jobs /\ Tail(todo) \in Seq(Jobs)
    BY <1>1
  <1>3. Head(todo).node \in Nodes
    BY <1>2 DEF Jobs
  <1>4. ASSUME NEW w
        PROVE  JobsIn(todo, w) = JobsIn(Tail(todo), w)
                 \cup (IF w = Head(todo).do THEN {Head(todo).node} ELSE {})
    BY <1>1, <1>3, JobsOfHead
  <1>5. QED  BY <1>2, <1>3, <1>4

LEMMA DeleteJobs ==
  ASSUME CInv, Delete
  PROVE  LET n == Head(todo).node
         IN  \A w : JobsIn(todo', w) = JobsIn(Tail(todo), w)
                      \cup (IF w = "delete" THEN {ChildOf(n), NextOf(n)} \ {0} ELSE {})
                      \cup (IF w = "free" THEN {n} ELSE {})
  <1> DEFINE n == Head(todo).node
  <1>1. todo # <<>>
    BY DEF Delete, Doing
  <1>2. n \in Nodes /\ Tail(todo) \in Seq(Jobs) /\ 0 \notin Nodes
    BY <1>1, FirstJob DEF Nodes
  <1> DEFINE a == Todo("delete", ChildOf(n))
             b == Todo("free", n)
             c == Todo("delete", NextOf(n))
             t == Tail(todo)
  <1>3. a \in Seq(Jobs) /\ b \in Seq(Jobs) /\ c \in Seq(Jobs) /\ t \in Seq(Jobs)
    BY <1>2, TodoType, KidsAreNodes
  <1>4. /\ \A w : JobsIn(a, w) = IF w = "delete" THEN {ChildOf(n)} \ {0} ELSE {}
        /\ \A w : JobsIn(b, w) = IF w = "free" THEN {n} ELSE {}
        /\ \A w : JobsIn(c, w) = IF w = "delete" THEN {NextOf(n)} \ {0} ELSE {}
    <2> HIDE DEF n
    <2>1. n \in Nodes /\ ChildOf(n) \in Nodes \cup {0} /\ NextOf(n) \in Nodes \cup {0} /\ n # 0
      BY <1>2, KidsAreNodes
    <2>2. QED  BY <2>1, JobsOfTodo
  <1>5. todo' = a \o b \o c \o t
    BY DEF Delete
  <1> HIDE DEF a, b, c, t, n
  <1>6. a \o b \o c \in Seq(Jobs)
    BY <1>3, Joining
  <1>7. \A w : JobsIn(todo', w) = JobsIn(a, w) \cup JobsIn(b, w) \cup JobsIn(c, w) \cup JobsIn(t, w)
    <2> SUFFICES ASSUME NEW w
                 PROVE  JobsIn(todo', w) = JobsIn(a, w) \cup JobsIn(b, w) \cup JobsIn(c, w)
                                             \cup JobsIn(t, w)
      OBVIOUS
    <2> DEFINE d == a \o b \o c
    <2>1. JobsIn(d, w) = JobsIn(a, w) \cup JobsIn(b, w) \cup JobsIn(c, w)
      BY <1>3, JobsOfThree
    <2>2. d \in Seq(Jobs)
      BY <1>6
    <2> HIDE DEF d
    <2>3. JobsIn(d \o t, w) = JobsIn(d, w) \cup JobsIn(t, w)
      BY <1>3, <2>2, JobsOfJoin
    <2>4. QED  BY <1>5, <2>1, <2>3 DEF d
  <1>8. QED  BY <1>4, <1>7 DEF t, n

LEMMA ItemJobs ==
  ASSUME CInv, Item
  PROVE  LET n == Head(todo).node
         IN  \E D \in SUBSET Nodes :
               \A w : JobsIn(todo', w) = JobsIn(Tail(todo), w)
                        \cup (IF w = "delete" THEN D ELSE {})
                        \cup (IF w = "item" THEN {NextOf(n)} \ {0} ELSE {})
                        \cup (IF w = "child" /\ doc.command # "self"
                                THEN {ChildOf(n)} \ {0} ELSE {})
  <1> DEFINE n == Head(todo).node
             device == ObjectItem(n, "deviceId")
             set    == ObjectItem(n, "set")
             a == Todo("delete", n)
             b == Todo("item", NextOf(n))
             t == Tail(todo)
             d == Todo("delete", device)
             s == Todo("delete", set)
             c == Todo("child", ChildOf(n))
             rest == a \o b \o t
  <1>1. n \in Nodes /\ Tail(todo) \in Seq(Jobs) /\ 0 \notin Nodes
    BY FirstJob DEF Nodes, Item, Doing
  <1>2. /\ a \in Seq(Jobs) /\ b \in Seq(Jobs) /\ c \in Seq(Jobs) /\ d \in Seq(Jobs)
        /\ s \in Seq(Jobs) /\ t \in Seq(Jobs)
    BY <1>1, TodoType, KidsAreNodes
  <1>3. rest \in Seq(Jobs)
    BY <1>2, Joining
  <1>4. \/ todo' = s \o d \o rest /\ doc.command = "self"
        \/ todo' = d \o rest /\ doc.command = "self"
        \/ todo' = c \o rest /\ doc.command # "self"
    BY DEF Item
  <1>5. /\ \A w : JobsIn(a, w) = IF w = "delete" THEN {n} \ {0} ELSE {}
        /\ \A w : JobsIn(b, w) = IF w = "item" THEN {NextOf(n)} \ {0} ELSE {}
        /\ \A w : JobsIn(c, w) = IF w = "child" THEN {ChildOf(n)} \ {0} ELSE {}
        /\ \A w : JobsIn(d, w) = IF w = "delete" THEN {device} \ {0} ELSE {}
        /\ \A w : JobsIn(s, w) = IF w = "delete" THEN {set} \ {0} ELSE {}
    <2>1. /\ n \in Nodes /\ ChildOf(n) \in Nodes \cup {0} /\ NextOf(n) \in Nodes \cup {0}
          /\ device \in Nodes \cup {0} /\ set \in Nodes \cup {0}
      BY <1>1, KidsAreNodes
    <2> HIDE DEF n, device, set
    <2>2. QED  BY <2>1, JobsOfTodo
  <1>6. device \in Nodes \cup {0} /\ set \in Nodes \cup {0}
    BY KidsAreNodes
  <1> HIDE DEF a, b, c, d, s, t, n, device, set
  <1>7. \A w : JobsIn(rest, w) = JobsIn(a, w) \cup JobsIn(b, w) \cup JobsIn(t, w)
    BY <1>2, JobsOfThree
  <1> HIDE DEF rest
  <1>8. /\ \A w : JobsIn(s \o d \o rest, w) = JobsIn(s, w) \cup JobsIn(d, w) \cup JobsIn(rest, w)
        /\ \A w : JobsIn(d \o rest, w) = JobsIn(d, w) \cup JobsIn(rest, w)
        /\ \A w : JobsIn(c \o rest, w) = JobsIn(c, w) \cup JobsIn(rest, w)
    <2>1. \A w : JobsIn(s \o d \o rest, w) = JobsIn(s, w) \cup JobsIn(d, w) \cup JobsIn(rest, w)
      BY <1>2, <1>3, JobsOfThree
    <2>2. \A w : JobsIn(d \o rest, w) = JobsIn(d, w) \cup JobsIn(rest, w)
      BY <1>2, <1>3, JobsOfJoin
    <2>3. \A w : JobsIn(c \o rest, w) = JobsIn(c, w) \cup JobsIn(rest, w)
      BY <1>2, <1>3, JobsOfJoin
    <2>4. QED  BY <2>1, <2>2, <2>3
  <1> DEFINE Ends(D, w) == JobsIn(t, w)
                        \cup (IF w = "delete" THEN D ELSE {})
                        \cup (IF w = "item" THEN {NextOf(n)} \ {0} ELSE {})
                        \cup (IF w = "child" /\ doc.command # "self"
                                THEN {ChildOf(n)} \ {0} ELSE {})
  <1>9. CASE todo' = s \o d \o rest /\ doc.command = "self"
    <2> DEFINE D == {set, device, n} \ {0}
    <2>1. \A w : JobsIn(todo', w) = Ends(D, w)
      BY <1>5, <1>7, <1>8, <1>9
    <2>2. D \in SUBSET Nodes
      BY <1>1, <1>6
    <2>3. QED  BY <2>1, <2>2 DEF t, n
  <1>10. CASE todo' = d \o rest /\ doc.command = "self"
    <2> DEFINE D == {device, n} \ {0}
    <2>1. \A w : JobsIn(todo', w) = Ends(D, w)
      BY <1>5, <1>7, <1>8, <1>10
    <2>2. D \in SUBSET Nodes
      BY <1>1, <1>6
    <2>3. QED  BY <2>1, <2>2 DEF t, n
  <1>11. CASE todo' = c \o rest /\ doc.command # "self"
    <2> DEFINE D == {n} \ {0}
    <2>1. \A w : JobsIn(todo', w) = Ends(D, w)
      BY <1>5, <1>7, <1>8, <1>11
    <2>2. D \in SUBSET Nodes
      BY <1>1, <1>6
    <2>3. QED  BY <2>1, <2>2 DEF t, n
  <1>12. QED  BY <1>4, <1>9, <1>10, <1>11

LEMMA ChildJobs ==
  ASSUME CInv, Child
  PROVE  LET n == Head(todo).node
         IN  \E D \in SUBSET Nodes :
               \A w : JobsIn(todo', w) = JobsIn(Tail(todo), w)
                        \cup (IF w = "delete" THEN D ELSE {})
                        \cup (IF w = "child" THEN {NextOf(n)} \ {0} ELSE {})
  <1> DEFINE n == Head(todo).node
             device == ObjectItem(Node(n).parent, "deviceId")
             b == Todo("child", NextOf(n))
             t == Tail(todo)
             d == Todo("delete", device)
             rest == b \o t
  <1>1. n \in Nodes /\ Tail(todo) \in Seq(Jobs) /\ 0 \notin Nodes
    BY FirstJob DEF Nodes, Child, Doing
  <1>2. b \in Seq(Jobs) /\ d \in Seq(Jobs) /\ t \in Seq(Jobs)
    BY <1>1, TodoType, KidsAreNodes
  <1>3. rest \in Seq(Jobs)
    BY <1>2, Joining
  <1>4. todo' = d \o rest \/ todo' = rest
    BY DEF Child
  <1>5. device \in Nodes \cup {0} /\ NextOf(n) \in Nodes \cup {0}
    BY KidsAreNodes
  <1> HIDE DEF device, n
  <1>6. /\ \A w : JobsIn(b, w) = IF w = "child" THEN {NextOf(n)} \ {0} ELSE {}
        /\ \A w : JobsIn(d, w) = IF w = "delete" THEN {device} \ {0} ELSE {}
    BY <1>5, JobsOfTodo
  <1> HIDE DEF b, d, t
  <1>7. \A w : JobsIn(rest, w) = JobsIn(b, w) \cup JobsIn(t, w)
    BY <1>2, JobsOfJoin
  <1> HIDE DEF rest
  <1>8. \A w : JobsIn(d \o rest, w) = JobsIn(d, w) \cup JobsIn(rest, w)
    BY <1>2, <1>3, JobsOfJoin
  <1>9. CASE todo' = d \o rest
    <2> DEFINE D == {device} \ {0}
    <2>1. \A w : JobsIn(todo', w) = JobsIn(t, w) \cup (IF w = "delete" THEN D ELSE {})
                        \cup (IF w = "child" THEN {NextOf(n)} \ {0} ELSE {})
      BY <1>6, <1>7, <1>8, <1>9
    <2>2. D \in SUBSET Nodes
      BY <1>5
    <2>3. QED  BY <2>1, <2>2 DEF t, n
  <1>10. CASE todo' = rest
    <2> DEFINE D == {}
    <2>1. \A w : JobsIn(todo', w) = JobsIn(t, w) \cup (IF w = "delete" THEN D ELSE {})
                        \cup (IF w = "child" THEN {NextOf(n)} \ {0} ELSE {})
      BY <1>6, <1>7, <1>10
    <2>2. D \in SUBSET Nodes
      OBVIOUS
    <2>3. QED  BY <2>1, <2>2 DEF t, n
  <1>11. QED  BY <1>4, <1>9, <1>10

-----------------------------------------------------------------------------
\* The steps of the pool.  Handing out takes a block that starts where no other
\* does, and freeing frees the block of a node.
LEMMA PoolStepOwns == CInv /\ OwnOK /\ PoolStep => OwnOK'
  <1> SUFFICES ASSUME CInv, OwnOK, PoolStep, phase # "none" PROVE OwnOK'
    BY DEF OwnOK, PoolStep, request
  <1> USE DEF CInv
  <1>1. UNCHANGED request /\ Nodes' = Nodes
    BY DEF PoolStep, Nodes, request
  <1>2. TypeOK /\ BlockSize \in Nat /\ Fail \notin Int
    BY PoolAssumption DEF PInv
  <1>3. CASE Scan \/ GiveUp \/ Mark \/ Clear
    <2>1. UNCHANGED live /\ pc # "idle"
      BY <1>3 DEF Scan, GiveUp, Mark, Clear
    <2>2. pc' = "idle" => ret' = Fail
      BY <1>3 DEF Scan, GiveUp, Mark, Clear, Return
    <2>3. pc' = "clear" => pc = "clear" /\ UNCHANGED offset
      BY <1>3 DEF Scan, GiveUp, Mark, Clear, Return
    <2>4. \A b \in others : b.first * BlockSize \in Int
      <3>1. \A b \in others : b.first \in Nat
        BY <1>2 DEF OwnOK, TypeOK, Units
      <3>2. QED  BY <1>2, <3>1
    <2>5. \A b \in others : pc' = "idle" => ret' # b.first * BlockSize
      BY <1>2, <2>2, <2>4
    <2>6. QED  BY <1>1, <2>1, <2>3, <2>5 DEF OwnOK, request
  <1>4. CASE HandOut
    <2>1. live' = live \cup {Found} /\ ret' = Found.first * BlockSize /\ pc' = "idle" /\ making
      <3>1. pc = "mark" /\ phase = "parse" /\ making /\ old = Fail
        BY <1>4 DEF HandOut, CallOK
      <3>2. QED  BY <1>4, <3>1 DEF HandOut, Return, Found
    <2>2. \A b \in live : b.first # Found.first /\ b.first \in Nat /\ Found.first \in Nat
      <3> SUFFICES ASSUME NEW b \in live
                   PROVE  b.first # Found.first /\ b.first \in Nat /\ Found.first \in Nat
        OBVIOUS
      <3>1. MarkOK
        BY <1>4 DEF HandOut, PInv
      <3>2. Extent(b) \cap Extent(Found) = {}
        BY <3>1 DEF MarkOK
      <3>3. b.first \in Nat /\ b.len \in Nat \ {0} /\ offset \in Nat /\ nmemb \in Nat \ {0}
        BY <1>2, <3>1 DEF TypeOK, Units, MarkOK
      <3>4. b.first \in Extent(b) /\ Found.first \in Extent(Found)
        BY <3>3 DEF Extent, Found
      <3>5. QED  BY <3>2, <3>3, <3>4 DEF Found
    <2>3. \A b \in others : ret' # b.first * BlockSize
      <3>1. \A b \in others : b \in live
        BY DEF OwnOK
      <3>2. QED  BY <2>1, <2>2, <3>1, SameStart
    <2>4. \A b \in live' \ others :
            \/ \E n \in Nodes : addr[n] = b.first * BlockSize
            \/ ret' = b.first * BlockSize
      <3>1. pc # "idle"
        BY <1>4 DEF HandOut
      <3>2. QED  BY <2>1, <3>1 DEF OwnOK
    <2>5. QED  BY <1>1, <2>1, <2>3, <2>4 DEF OwnOK, request
  <1>5. CASE Freed
    <2>1. live' = {b \in live : b.first # offset} /\ pc = "clear" /\ pc' = "idle" /\ ~making
      BY <1>5 DEF Freed, Return, CallOK
    <2>2. QED  BY <1>1, <2>1 DEF OwnOK, request
  <1>6. QED  BY <1>3, <1>4, <1>5 DEF PoolStep

\* The address that is freed is a node's, so it starts no block of anybody else.
LEMMA FreeNodeOwns ==
  ASSUME CInv, OwnOK, FreeNode
  PROVE  /\ OwnOK'
         /\ pc' = "clear" /\ addr[Head(todo).node] = offset' * BlockSize /\ UNCHANGED live
  <1> DEFINE n == Head(todo).node
  <1>1. todo # <<>> /\ phase \in {"unwind", "handle"}
    BY DEF FreeNode, Doing
  <1>2. n \in Nodes
    BY <1>1, FirstJob
  <1>3. PICK u \in Starts \cup stale : addr[n] = u * BlockSize
    BY <1>1, <1>2 DEF CInv, NodesOK, Known
  <1>4. u \in Nat /\ \A b \in live : b.first \in Nat
    <2>1. live \subseteq [first : Units, len : 1..Blocks] /\ stale \subseteq Units /\ Units \subseteq Nat
      BY DEF CInv, PInv, TypeOK, Units
    <2>2. \A b \in live : b.first \in Nat
      BY <2>1
    <2>3. QED  BY <2>1, <2>2 DEF Starts
  <1>5. memrdy
    BY <1>2 DEF CInv, NodesOK, Nodes
  <1>6. pc' = "clear" /\ offset' = addr[n] \div BlockSize /\ UNCHANGED <<live, phase, addr, making, others>>
    BY <1>5 DEF FreeNode, FreeAt
  <1>7. offset' = u
    BY <1>3, <1>4, <1>6, Units_of_bytes
  <1>8. \A b \in others : b.first # offset'
    BY <1>1, <1>2, <1>3, <1>7 DEF OwnOK
  <1>9. Nodes' = Nodes
    BY <1>6 DEF Nodes
  <1>10. ~making
    BY <1>1 DEF CInv, CallOK
  <1>11. OwnOK'
    BY <1>1, <1>6, <1>8, <1>9, <1>10 DEF OwnOK
  <1>12. QED  BY <1>3, <1>6, <1>7, <1>11

LEMMA OwnOKNext == CInv /\ OwnOK /\ [RequestNext]_all => OwnOK'
  <1> SUFFICES ASSUME CInv, OwnOK, [RequestNext]_all PROVE OwnOK'
    OBVIOUS
  <1>1. CASE OtherCall
    BY <1>1 DEF OtherCall, BetweenRequests, request, OwnOK
  <1>2. CASE Arrive
    BY <1>2 DEF Arrive, vars, OwnOK, CInv, CallOK, Nodes
  <1>3. CASE NewItem
    <2>1. Len(addr) + 1 \in 1 .. Len(doc.nodes) /\ doc \in Documents
      BY <1>3 DEF NewItem, CInv, NodesOK
    <2>2. Node(Len(addr) + 1).size # 0
      BY <2>1, DocumentAssumption DEF Node
    <2>3. pc' = "scan" /\ UNCHANGED <<live, phase, addr, others>> /\ ~making
      BY <1>3, <2>2 DEF NewItem, StartSearch
    <2>4. QED  BY <2>3 DEF OwnOK, Nodes
  <1>4. CASE Linked
    <2>1. UNCHANGED <<vars, others>> /\ making /\ ~making' /\ pc = "idle" /\ phase # "none"
      BY <1>4 DEF Linked
    <2>2. UNCHANGED <<live, pc, ret>>
      BY <2>1 DEF vars
    <2>3. CASE ret # Fail
      <3>1. addr' = Append(addr, ret) /\ addr \in Seq(Nat)
        BY <1>4, <2>3 DEF Linked, CInv, NodesOK
      <3>2. ret \in Nat
        BY <2>1, <2>3 DEF CInv, NodesOK
      <3> DEFINE h == Len(addr)
      <3>3. h \in Nat /\ Len(addr') = h + 1 /\ addr'[h + 1] = ret
            /\ \A n \in 1 .. h : addr'[n] = addr[n]
        BY <3>1, <3>2
      <3>4. Nodes' = Nodes \cup {h + 1} /\ \A n \in Nodes : addr'[n] = addr[n]
        <4> HIDE DEF h
        <4>1. 1 .. (h + 1) = (1 .. h) \cup {h + 1}
          BY <3>3
        <4>2. QED  BY <3>3, <4>1 DEF Nodes, h
      <3> HIDE DEF h
      <3>5. \A b \in live \ others : \E n \in Nodes' : addr'[n] = b.first * BlockSize
        BY <2>1, <3>3, <3>4 DEF OwnOK
      <3>6. \A b \in others : \A n \in Nodes' : addr'[n] # b.first * BlockSize
        BY <2>1, <3>3, <3>4 DEF OwnOK
      <3>7. QED  BY <2>1, <2>2, <3>5, <3>6 DEF OwnOK
    <2>4. CASE ret = Fail
      <3>1. addr' = addr
        BY <1>4, <2>4 DEF Linked
      <3>2. \A b \in live : b.first * BlockSize \in Int
        <4>1. \A b \in live : b.first \in Nat
          BY DEF CInv, PInv, TypeOK, Units
        <4>2. QED  BY <4>1, PoolAssumption
      <3>3. \A b \in live : ret # b.first * BlockSize
        BY <2>4, <3>2, PoolAssumption
      <3>4. QED  BY <2>1, <2>2, <3>1, <3>3 DEF OwnOK, Nodes
    <2>5. QED  BY <2>3, <2>4
  <1>5. CASE Malformed \/ Parsed \/ Done
    <2>1. UNCHANGED <<live, pc, ret, offset, addr, making, others>> /\ phase # "none"
      BY <1>5 DEF Malformed, Parsed, Done, vars
    <2>2. QED  BY <2>1 DEF OwnOK, Nodes
  <1>6. CASE Item \/ Child \/ Delete
    <2>1. UNCHANGED <<live, pc, ret, offset, addr, making, others, phase>>
      BY <1>6 DEF Item, Child, Delete, vars
    <2>2. QED  BY <2>1 DEF OwnOK, Nodes
  <1>7. CASE FreeNode
    BY <1>7, FreeNodeOwns
  <1>8. CASE Execute
    BY <1>8 DEF Execute, OwnOK
  <1>9. CASE UNCHANGED all
    BY <1>9 DEF all, vars, request, OwnOK, Nodes
  <1>10. QED  BY <1>1, <1>2, <1>3, <1>4, <1>5, <1>6, <1>7, <1>8, <1>9, PoolStepOwns
              DEF RequestNext, RequestStep

-----------------------------------------------------------------------------
\* What can be deleted from todo's deletions on, and with what is below, is every
\* node, as soon as the root's deletion is among them.
LEMMA RootDeletes ==
  ASSUME NodesOK, phase \in {"unwind", "handle"}, addr # <<>> => Root \in JobsIn(todo, "delete")
  PROVE  FreeOK
  <1> SUFFICES ASSUME NEW S \in SUBSET Nodes, Swept(S) PROVE Nodes \subseteq S
    BY DEF FreeOK, Unfreed
  <1>1. CASE addr = <<>>
    BY <1>1 DEF Nodes
  <1>2. CASE addr # <<>>
    <2>1. Root \in Kids(Node(Root).parent)
      <3>1. Root \in Nodes
        BY <1>2 DEF NodesOK, Nodes, Root
      <3>2. QED  BY <3>1 DEF Kids
    <2>2. Root \in S
      BY <1>2, <2>1 DEF Swept, Root
    <2>3. QED  BY <2>2, RootSweeps DEF Swept
  <1>3. QED  BY <1>1, <1>2

\* A step of the walk that deletes more, or the same.
LEMMA MoreDeletes ==
  ASSUME FreeOK, UNCHANGED <<vars, phase, doc, addr>>,
         JobsIn(todo, "delete") \subseteq JobsIn(todo', "delete"),
         JobsIn(todo, "free") \subseteq JobsIn(todo', "free")
  PROVE  FreeOK'
  <1>1. /\ Nodes' = Nodes /\ \A n : Node(n)' = Node(n)
        /\ \A n : Kids(n)' = Kids(n)
        /\ \A w : JobsIn(todo, w)' = JobsIn(todo', w)
    BY SameNodes
  <1>2. UNCHANGED <<live, pc, offset, phase, addr>>
    BY DEF vars
  <1>3. Unfreed' = Unfreed
    BY <1>1, <1>2 DEF Unfreed
  <1> SUFFICES ASSUME phase \in {"unwind", "handle"},
                      NEW S \in SUBSET Nodes, Swept(S)',
                      NEW n \in Unfreed
               PROVE  \/ n \in S \cup JobsIn(todo', "free")
                      \/ pc = "clear" /\ addr[n] = offset * BlockSize
    BY <1>1, <1>2, <1>3 DEF FreeOK
  <1>4. Swept(S)
    BY <1>1 DEF Swept
  <1>5. QED  BY <1>4 DEF FreeOK

\* A round of cJSON_Delete: what the node's deletion came to is the node, which is
\* going to be freed, and what the new deletions come to.
LEMMA DeleteKeepsFree ==
  ASSUME CInv, FreeOK, Delete
  PROVE  FreeOK'
  <1> DEFINE n == Head(todo).node
             t == Tail(todo)
  <1>1. UNCHANGED <<vars, phase, doc, addr>> /\ phase \in {"unwind", "handle"} /\ todo # <<>>
        /\ Head(todo).do = "delete"
    BY DEF Delete, Doing
  <1>2. /\ Nodes' = Nodes /\ \A m : Node(m)' = Node(m)
        /\ \A m : Kids(m)' = Kids(m)
        /\ \A w : JobsIn(todo, w)' = JobsIn(todo', w)
    BY <1>1, SameNodes
  <1>3. UNCHANGED <<live, pc, offset, phase, addr>>
    BY <1>1 DEF vars
  <1>4. Unfreed' = Unfreed
    BY <1>2, <1>3 DEF Unfreed
  <1>5. /\ JobsIn(todo', "delete") = JobsIn(t, "delete") \cup ({ChildOf(n), NextOf(n)} \ {0})
        /\ JobsIn(todo', "free") = JobsIn(t, "free") \cup {n}
    BY DeleteJobs
  <1>6. n \in Nodes /\ JobsIn(todo, "delete") = JobsIn(t, "delete") \cup {n}
        /\ JobsIn(todo, "free") = JobsIn(t, "free")
    BY <1>1, FirstJob
  <1> HIDE DEF n, t
  <1> SUFFICES ASSUME NEW S \in SUBSET Nodes, Swept(S)', NEW m \in Unfreed
               PROVE  \/ m \in S \cup JobsIn(todo', "free")
                      \/ pc = "clear" /\ addr[m] = offset * BlockSize
    BY <1>1, <1>2, <1>3, <1>4 DEF FreeOK
  <1> DEFINE R == S \cup {n}
  <1>7. /\ \A k \in S : Kids(k) \subseteq S
        /\ \A k \in JobsIn(todo', "delete") : {j \in Kids(Node(k).parent) : j >= k} \subseteq S
    BY <1>2 DEF Swept
  <1>8. Kids(n) \subseteq S
    <2>1. CASE ChildOf(n) = 0
      BY <2>1, NextAndChild
    <2>2. CASE ChildOf(n) # 0
      <3>1. ChildOf(n) \in Kids(n) /\ \A j \in Kids(n) : ChildOf(n) <= j
        BY <2>2, NextAndChild
      <3>2. ChildOf(n) \in JobsIn(todo', "delete") /\ Node(ChildOf(n)).parent = n
            /\ Kids(n) \subseteq Nat
        BY <1>5, <2>2, <3>1 DEF Kids, Nodes
      <3>3. QED  BY <1>7, <3>1, <3>2
    <2>3. QED  BY <2>1, <2>2
  <1>9. {j \in Kids(Node(n).parent) : j >= n} \subseteq R
    <2> SUFFICES ASSUME NEW j \in Kids(Node(n).parent), j > n PROVE j \in S
      BY <1>6 DEF Kids, Nodes
    <2>1. NextOf(n) # 0
      BY NextAndChild
    <2>2. NextOf(n) \in Kids(Node(n).parent) /\ NextOf(n) <= j
      BY <2>1, NextAndChild
    <2>3. NextOf(n) \in JobsIn(todo', "delete") /\ Node(NextOf(n)).parent = Node(n).parent
          /\ NextOf(n) \in Nat /\ j \in Nat
      BY <1>5, <2>1, <2>2 DEF Kids, Nodes
    <2>4. QED  BY <1>7, <2>2, <2>3
  <1>10. Swept(R)
    <2>1. \A k \in R : Kids(k) \subseteq R
      BY <1>7, <1>8
    <2>2. \A k \in JobsIn(todo, "delete") : {j \in Kids(Node(k).parent) : j >= k} \subseteq R
      BY <1>5, <1>6, <1>7, <1>9
    <2>3. QED  BY <2>1, <2>2 DEF Swept
  <1>11. R \in SUBSET Nodes
    BY <1>6
  <1>12. m \in R \cup JobsIn(todo, "free") \/ (pc = "clear" /\ addr[m] = offset * BlockSize)
    BY <1>1, <1>10, <1>11 DEF FreeOK
  <1>13. QED  BY <1>5, <1>6, <1>12

\* The pool has done its part for a node.
LEMMA PoolStepKeepsFree ==
  ASSUME CInv, FreeOK, PoolStep
  PROVE  FreeOK'
  <1> USE DEF CInv
  <1> SUFFICES ASSUME phase \in {"unwind", "handle"} PROVE FreeOK'
    BY DEF PoolStep, request, FreeOK
  <1>1. UNCHANGED <<phase, doc, addr, todo>> /\ (Clear \/ Freed)
    BY DEF PoolStep, request, Scan, GiveUp, Mark, HandOut, CallOK
  <1>2. /\ Nodes' = Nodes /\ \A m : Node(m)' = Node(m)
        /\ \A m : Kids(m)' = Kids(m)
        /\ \A w : JobsIn(todo, w)' = JobsIn(todo, w)
    BY <1>1, SameNodes
  <1>3. \A S : Swept(S)' <=> Swept(S)
    BY <1>2 DEF Swept
  <1>4. CASE Clear
    <2>1. UNCHANGED <<phase, addr, live, pc, offset>>
      BY <1>1, <1>4 DEF Clear, Freed
    <2>2. Unfreed' = Unfreed
      BY <1>2, <2>1 DEF Unfreed
    <2>3. QED  BY <1>2, <1>3, <2>1, <2>2 DEF FreeOK
  <1>5. CASE Freed
    <2>1. UNCHANGED <<phase, addr>> /\ live' = {b \in live : b.first # offset}
      BY <1>1, <1>5 DEF Clear, Freed
    <2>2. offset \in Nat /\ \A b \in live : b.first \in Nat
      <3>1. offset >= 0
        BY <1>5 DEF Freed, PInv, ClearOK
      <3>2. QED  BY <3>1 DEF PInv, TypeOK, Units
    <2>3. \A n \in Unfreed' : n \in Unfreed /\ addr[n] # offset * BlockSize
      <3> SUFFICES ASSUME NEW n \in Nodes, NEW b \in live', addr[n] = b.first * BlockSize
                   PROVE  n \in Unfreed /\ addr[n] # offset * BlockSize
        BY <1>2, <2>1 DEF Unfreed
      <3>1. b \in live /\ b.first # offset
        BY <2>1
      <3>2. QED  BY <2>2, <3>1, SameStart DEF Unfreed
    <2>4. QED  BY <1>2, <1>3, <2>1, <2>3 DEF FreeOK
  <1>6. QED  BY <1>1, <1>4, <1>5

LEMMA FreeOKNext == CInv /\ FreeOK /\ OwnOK /\ [RequestNext]_all => FreeOK'
  <1> SUFFICES ASSUME CInv, FreeOK, OwnOK, [RequestNext]_all PROVE FreeOK'
    OBVIOUS
  <1>1. CASE OtherCall
    BY <1>1 DEF OtherCall, BetweenRequests, request, FreeOK
  <1>2. CASE Arrive \/ NewItem \/ Done \/ Execute
    <2>1. phase' \notin {"unwind", "handle"}
      BY <1>2 DEF Arrive, NewItem, Done, Execute
    <2>2. QED  BY <2>1 DEF FreeOK
  <1>3. CASE Malformed \/ Linked \/ Parsed
    <2> SUFFICES ASSUME phase' \in {"unwind", "handle"} PROVE FreeOK'
      BY DEF FreeOK
    <2>1. NodesOK'
      BY <1>3, RequestStepKeeps
    <2>2. UNCHANGED <<doc, addr>> /\ 0 \notin Nodes
      BY <1>3 DEF Malformed, Linked, Parsed, Nodes
    <2>3. /\ Nodes' = Nodes
          /\ \A w : JobsIn(todo, w)' = JobsIn(todo', w)
      BY <2>2, SameNodes
    <2>4. ASSUME addr # <<>> PROVE Root \in JobsIn(todo', "delete")
      <3>1. Root \in Nodes
        BY <2>4 DEF CInv, NodesOK, Nodes, Root
      <3>2. JobsIn(Todo("delete", Root), "delete") = {Root}
        <4>1. JobsIn(Todo("delete", Root), "delete") = {Root} \ {0}
          BY <3>1, JobsOfTodo
        <4>2. QED  BY <2>2, <3>1, <4>1
      <3>3. CASE todo' = Todo("delete", Root)
        BY <3>2, <3>3
      <3>4. CASE Parsed /\ todo' # Todo("delete", Root)
        <4> DEFINE a == Todo("item", Items)
                         \o Todo("delete", IF doc.command = "other" THEN 0 ELSE Params)
                         \o Todo("delete", Method)
                   r == Todo("delete", Root)
        <4>1. Items \in Nodes \cup {0} /\ Method \in Nodes \cup {0} /\ Params \in Nodes \cup {0}
          BY KidsAreNodes DEF Items, Method, Params
        <4>2. /\ Todo("item", Items) \in Seq(Jobs)
              /\ Todo("delete", IF doc.command = "other" THEN 0 ELSE Params) \in Seq(Jobs)
              /\ Todo("delete", Method) \in Seq(Jobs) /\ Todo("delete", Root) \in Seq(Jobs)
          BY <2>2, <3>1, <4>1, TodoType
        <4>3. a \in Seq(Jobs) /\ r \in Seq(Jobs)
          BY <4>2, Joining
        <4>4. todo' = a \o r
          BY <3>4 DEF Parsed
        <4> HIDE DEF a, r
        <4>5. JobsIn(a \o r, "delete") = JobsIn(a, "delete") \cup JobsIn(r, "delete")
          BY <4>3, JobsOfJoin
        <4>6. QED  BY <3>2, <4>4, <4>5 DEF r
      <3>5. QED  BY <1>3, <2>4, <3>3, <3>4 DEF Malformed, Linked, AfterFailure
    <2>5. (phase \in {"unwind", "handle"})' /\ (addr # <<>> => Root \in JobsIn(todo, "delete"))'
      BY <2>2, <2>3, <2>4 DEF Root
    <2>6. QED  BY <2>1, <2>5, RootDeletes, PTL
  <1>4. CASE Item
    <2>1. JobsIn(todo, "delete") \subseteq JobsIn(todo', "delete")
          /\ JobsIn(todo, "free") \subseteq JobsIn(todo', "free")
      <3>1. \A w : w # "item" => JobsIn(todo, w) = JobsIn(Tail(todo), w)
        BY <1>4, FirstJob DEF Item, Doing
      <3>2. \A w : JobsIn(Tail(todo), w) \subseteq JobsIn(todo', w)
        BY <1>4, ItemJobs
      <3>3. QED  BY <3>1, <3>2
    <2>2. UNCHANGED <<vars, phase, doc, addr>>
      BY <1>4 DEF Item
    <2>3. QED  BY <2>1, <2>2, MoreDeletes
  <1>5. CASE Child
    <2>1. JobsIn(todo, "delete") \subseteq JobsIn(todo', "delete")
          /\ JobsIn(todo, "free") \subseteq JobsIn(todo', "free")
      <3>1. \A w : w # "child" => JobsIn(todo, w) = JobsIn(Tail(todo), w)
        BY <1>5, FirstJob DEF Child, Doing
      <3>2. \A w : JobsIn(Tail(todo), w) \subseteq JobsIn(todo', w)
        BY <1>5, ChildJobs
      <3>3. QED  BY <3>1, <3>2
    <2>2. UNCHANGED <<vars, phase, doc, addr>>
      BY <1>5 DEF Child
    <2>3. QED  BY <2>1, <2>2, MoreDeletes
  <1>6. CASE Delete
    BY <1>6, DeleteKeepsFree
  <1>7. CASE FreeNode
    <2> DEFINE n == Head(todo).node
    <2>1. UNCHANGED <<phase, doc, addr>> /\ phase \in {"unwind", "handle"} /\ todo # <<>>
          /\ todo' = Tail(todo) /\ Head(todo).do = "free" /\ pc = "idle"
      BY <1>7 DEF FreeNode, Doing
    <2>2. /\ Nodes' = Nodes /\ \A m : Node(m)' = Node(m)
          /\ \A m : Kids(m)' = Kids(m)
          /\ \A w : JobsIn(todo, w)' = JobsIn(todo', w)
      BY <2>1, SameNodes
    <2>3. pc' = "clear" /\ addr[n] = offset' * BlockSize /\ UNCHANGED live
      BY <1>7, FreeNodeOwns
    <2>4. JobsIn(todo, "delete") = JobsIn(todo', "delete")
          /\ JobsIn(todo, "free") = JobsIn(todo', "free") \cup {n}
      BY <2>1, FirstJob
    <2>5. Unfreed' = Unfreed
      BY <2>1, <2>2, <2>3 DEF Unfreed
    <2>6. \A S : Swept(S)' <=> Swept(S)
      BY <2>2, <2>4 DEF Swept
    <2> HIDE DEF n
    <2>7. \A S \in SUBSET Nodes : Swept(S) =>
             \A m \in Unfreed : m \in S \cup JobsIn(todo', "free") \cup {n}
      BY <2>1, <2>4 DEF FreeOK
    <2>8. QED  BY <2>1, <2>2, <2>3, <2>5, <2>6, <2>7 DEF FreeOK
  <1>8. CASE PoolStep
    BY <1>8, PoolStepKeepsFree
  <1>9. CASE UNCHANGED all
    <2>1. UNCHANGED <<doc, addr, todo, phase, live, pc, offset>>
      BY <1>9 DEF all, vars, request
    <2>2. /\ Nodes' = Nodes /\ \A m : Node(m)' = Node(m)
          /\ \A m : Kids(m)' = Kids(m)
          /\ \A w : JobsIn(todo, w)' = JobsIn(todo, w)
      BY <2>1, SameNodes
    <2>3. Unfreed' = Unfreed /\ \A S : Swept(S)' <=> Swept(S)
      BY <2>1, <2>2 DEF Unfreed, Swept
    <2>4. QED  BY <2>1, <2>2, <2>3 DEF FreeOK
  <1>10. QED  BY <1>1, <1>2, <1>3, <1>4, <1>5, <1>6, <1>7, <1>8, <1>9
              DEF RequestNext, RequestStep

\* When Getdatacheck returns, nothing is left to do, so no node is in use.
LEMMA NothingLeft == CInv /\ OwnOK /\ FreeOK /\ Done => live' = others
  <1> SUFFICES ASSUME CInv, OwnOK, FreeOK, Done PROVE live' = others
    OBVIOUS
  <1>1. phase \in {"unwind", "handle"} /\ todo = <<>> /\ pc = "idle" /\ UNCHANGED live /\ ~making
    BY DEF Done, vars, CInv, CallOK
  <1>2. \A w : JobsIn(todo, w) = {}
    BY <1>1 DEF JobsIn
  <1>3. Swept({})
    BY <1>2 DEF Swept
  <1>4. Unfreed = {}
    BY <1>1, <1>2, <1>3 DEF FreeOK
  <1>5. QED  BY <1>1, <1>4 DEF OwnOK, Unfreed

\* When a request is over, however it ended, the pool is as it was before, for
\* every document and wherever memory ran out: every deletion comes to every
\* node below and behind it, and frees nobody else's block (ThingsBoard.cpp:95-200).
THEOREM RequestsFreeAll == RequestSpec => RequestFreesAll
  <1> DEFINE FInv == CInv /\ OwnOK /\ FreeOK
  <1>1. RequestInit => FInv
    <2>1. RequestInit => OwnOK /\ FreeOK
      BY DEF RequestInit, OwnOK, FreeOK
    <2>2. QED  BY <2>1, CInvInit
  <1>2. FInv /\ [RequestNext]_all => FInv'
    BY CInvNext, OwnOKNext, FreeOKNext
  <1>3. FInv /\ [RequestNext]_all => [phase # "execute" /\ phase' = "execute" => live' = others]_all
    <2> SUFFICES ASSUME FInv, RequestNext, phase # "execute", phase' = "execute"
                 PROVE  live' = others
      OBVIOUS
    <2>1. Done
      BY DEF RequestNext, RequestStep, PoolStep, OtherCall, request, Arrive, NewItem, Linked,
             Malformed, Parsed, Item, Child, Delete, FreeNode, Execute
    <2>2. QED  BY <2>1, NothingLeft
  <1>4. QED
    BY <1>1, <1>2, <1>3, PTL DEF RequestSpec, RequestFreesAll

-----------------------------------------------------------------------------
(* The last command wins.  The walk's two kinds of jobs, an item and a     *)
(* child of an item, say how far the walk has come: the commands before    *)
(* all of them have been seen, and cmd is the last of those.               *)

\* A walk has one item to go on with, and before it one child.
Orderly(s) ==
  \A j, k \in 1 .. Len(s) :
    j < k => /\ s[j].do = "item" => s[k].do \notin {"item", "child"}
             /\ s[j].do = "child" => s[k].do # "child"

Ahead == JobsIn(todo, "item") \cup JobsIn(todo, "child")
SeenTo(A) == {m \in Commands : \A j \in A : m < j}

\* cmd is the last of the commands in C.
LastOf(C) ==
  IF C = {} THEN cmd = NoCmd
  ELSE /\ cmd \in [device : Nodes, value : Nodes]
       /\ cmd.value \in C /\ \A m \in C : m <= cmd.value
       /\ Node(cmd.device).parent = Node(cmd.value).parent

WalkOK ==
  /\ phase \in {"none", "parse", "unwind"} => cmd = NoCmd
  /\ phase = "execute" => cmd \in [device : Nodes, value : Nodes] \cup {NoCmd}
  /\ phase = "unwind" => Ahead = {}
  /\ phase = "handle" =>
       /\ Orderly(todo)
       /\ Ahead # {} => Method # 0 /\ Items # 0
       /\ JobsIn(todo, "item") \subseteq Kids(Params)
       /\ \A c \in JobsIn(todo, "child") :
            /\ doc.command # "self"
            /\ Node(c).parent \in Kids(Params)
            /\ JobsIn(todo, "item") = {NextOf(Node(c).parent)} \ {0}
       /\ LastOf(SeenTo(Ahead))

-----------------------------------------------------------------------------
\* Where the nodes are: behind what they are below, and before its next sibling.
LEMMA NodeOrder ==
  ASSUME NodesOK, phase # "none"
  PROVE  /\ \A k : \A m \in Kids(k) : m \in Nat /\ k \in Nat /\ k < m
         /\ \A p : \A k, j \in Kids(p) : k < j => \A m \in Kids(k) : m < j
  <1>1. doc \in Documents /\ Len(addr) <= Len(doc.nodes) /\ Len(addr) \in Nat
    BY DEF NodesOK
  <1> DEFINE e == Len(doc.nodes)
  <1>2. e \in Nat /\ \A n \in Nodes : n \in 1 .. e
    BY <1>1, DocumentAssumption DEF Nodes
  <1>3. /\ Node(1).parent = 0
        /\ \A n \in 2 .. e : Node(n).parent \in 1 .. (n - 1)
        /\ \A n \in 1 .. e : \A m \in 1 .. (n - 1) :
             Node(n).parent < m => Node(n).parent <= Node(m).parent
    BY <1>1, DocumentAssumption DEF Node
  <1> HIDE DEF e
  <1>4. \A n \in Nodes : n \in Nat /\ Node(n).parent \in Nat /\ Node(n).parent < n
    <2> SUFFICES ASSUME NEW n \in Nodes PROVE n \in Nat /\ Node(n).parent \in Nat /\ Node(n).parent < n
      OBVIOUS
    <2>1. n = 1 \/ n \in 2 .. e
      BY <1>2
    <2>2. QED  BY <1>2, <1>3, <2>1
  <1>5. \A k : \A m \in Kids(k) : m \in Nat /\ k \in Nat /\ k < m
    BY <1>4 DEF Kids
  <1>6. ASSUME NEW p, NEW k \in Kids(p), NEW j \in Kids(p), k < j, NEW m \in Kids(k)
        PROVE  m < j
    <2>1. /\ p \in Nat /\ k \in Nat /\ j \in Nat /\ m \in Nat /\ p < k /\ k < m
          /\ Node(m).parent = k /\ Node(j).parent = p
      BY <1>5, <1>6 DEF Kids
    <2>2. CASE m > j
      <3>1. j \in 1 .. (m - 1) /\ m \in 1 .. e
        BY <1>2, <1>6, <2>1, <2>2 DEF Kids
      <3>2. k <= p
        BY <1>3, <1>6, <2>1, <3>1
      <3>3. QED  BY <2>1, <3>2
    <2>3. CASE m = j
      BY <2>1, <2>3
    <2>4. QED  BY <2>1, <2>2, <2>3
  <1>7. QED  BY <1>5, <1>6

LEMMA ObjectItemIs ==
  \A k, key : ObjectItem(k, key) # 0 => ObjectItem(k, key) \in Kids(k)
  BY FirstOne DEF ObjectItem

\* A command is a member of an item of the parameters that has a "deviceId".
LEMMA CommandMember ==
  \A m : m \in Commands <=>
    /\ Method # 0 /\ Items # 0
    /\ \E k \in Kids(Params) :
         /\ ObjectItem(k, "deviceId") # 0
         /\ IF doc.command = "self" THEN m # 0 /\ m = ObjectItem(k, "set")
            ELSE m \in Kids(k) /\ Node(m).type = "number"
  <1> DEFINE K == {k \in Kids(Params) : ObjectItem(k, "deviceId") # 0}
             Of(n) == IF doc.command = "self"
                      THEN {ObjectItem(n, "set")} \ {0}
                      ELSE {m \in Kids(n) : Node(m).type = "number"}
  <1>1. \A m : m \in Commands <=> Method # 0 /\ Items # 0 /\ \E k \in K : m \in Of(k)
    BY DEF Commands
  <1>2. QED  BY <1>1

\* Where a command is, seen from an item: before it, in it, or behind the next.
LEMMA CommandPlace ==
  ASSUME NodesOK, phase # "none", NEW n \in Kids(Params), NEW m \in Commands
  PROVE  /\ n \in Nat /\ m \in Nat /\ NextOf(n) \in Nat
         /\ NextOf(n) # 0 => n < NextOf(n)
         /\ \A c \in Kids(n) : c \in Nat /\ n < c /\ (NextOf(n) # 0 => c < NextOf(n))
         /\ \/ m < n
            \/ m \in Kids(n)
            \/ NextOf(n) # 0 /\ NextOf(n) < m
  <1>1. PICK k \in Kids(Params) : m \in Kids(k)
    BY CommandMember, ObjectItemIs
  <1>2. n \in Nat /\ k \in Nat /\ m \in Nat /\ k < m
    BY <1>1, NodeOrder
  <1>3. Node(n).parent = Params
    BY DEF Kids
  <1>4. /\ NextOf(n) = 0 => \A j \in Kids(Params) : ~(j > n)
        /\ NextOf(n) # 0 => /\ NextOf(n) \in Kids(Params) /\ NextOf(n) > n
                            /\ \A j \in Kids(Params) : j > n => NextOf(n) <= j
    BY <1>3, NextAndChild
  <1>5. NextOf(n) \in Nat
    BY <1>4, NodeOrder
  <1>6. \A c \in Kids(n) : c \in Nat /\ n < c /\ (NextOf(n) # 0 => c < NextOf(n))
    BY <1>2, <1>4, <1>5, NodeOrder
  <1>7. CASE k < n
    <2>1. m < n
      BY <1>1, <1>7, NodeOrder
    <2>2. QED  BY <1>2, <1>4, <1>5, <1>6, <2>1
  <1>8. CASE k = n
    BY <1>1, <1>2, <1>4, <1>5, <1>6, <1>8
  <1>9. CASE k > n
    <2>1. NextOf(n) # 0 /\ NextOf(n) <= k
      BY <1>4, <1>9
    <2>2. QED  BY <1>2, <1>4, <1>5, <1>6, <2>1
  <1>10. QED  BY <1>2, <1>7, <1>8, <1>9

-----------------------------------------------------------------------------
\* The order of the walk's jobs in pieces, and after the first job.
LEMMA JobSeen ==
  ASSUME NEW s \in Seq(Jobs), NEW j \in 1 .. Len(s)
  PROVE  s[j].node \in JobsIn(s, s[j].do)
  <1>1. s[j] \in Jobs
    OBVIOUS
  <1>2. QED  BY <1>1 DEF Jobs, JobsIn

LEMMA OrderlyTodo == \A n, what : Orderly(Todo(what, n))
  <1> SUFFICES ASSUME NEW n, NEW what PROVE Orderly(Todo(what, n))
    OBVIOUS
  <1>1. Len(Todo(what, n)) \in {0, 1}
    BY DEF Todo
  <1> HIDE DEF Todo
  <1>2. QED  BY <1>1 DEF Orderly

LEMMA OrderlyHead ==
  ASSUME NEW s \in Seq(Jobs), s # <<>>, Orderly(s)
  PROVE  /\ Orderly(Tail(s))
         /\ Head(s).do = "item" => JobsIn(Tail(s), "item") = {} /\ JobsIn(Tail(s), "child") = {}
         /\ Head(s).do = "child" => JobsIn(Tail(s), "child") = {}
  <1> DEFINE t == Tail(s)
  <1>1. Len(s) \in Nat \ {0} /\ Len(t) = Len(s) - 1 /\ \A j \in 1 .. Len(t) : t[j] = s[j + 1]
    BY HeadTailProperties
  <1>2. Head(s) = s[1]
    OBVIOUS
  <1> HIDE DEF t
  <1>3. \A j \in 1 .. Len(t) : j + 1 \in 1 .. Len(s) /\ 1 < j + 1 /\ 1 \in 1 .. Len(s)
    BY <1>1
  <1>4. \A j, k \in 1 .. Len(t) : j < k => j + 1 < k + 1
    BY <1>1
  <1>5. Orderly(t)
    BY <1>1, <1>3, <1>4 DEF Orderly
  <1>6. \A j \in 1 .. Len(t) : /\ Head(s).do = "item" => t[j].do \notin {"item", "child"}
                               /\ Head(s).do = "child" => t[j].do # "child"
    BY <1>1, <1>2, <1>3 DEF Orderly
  <1>7. QED  BY <1>5, <1>6 DEF JobsIn, t

LEMMA OrderlyJoin ==
  ASSUME NEW a \in Seq(Jobs), NEW b \in Seq(Jobs), Orderly(a), Orderly(b),
         JobsIn(a, "item") # {} => JobsIn(b, "item") = {} /\ JobsIn(b, "child") = {},
         JobsIn(a, "child") # {} => JobsIn(b, "child") = {}
  PROVE  Orderly(a \o b)
  <1> DEFINE c == a \o b
  <1>1. /\ Len(c) = Len(a) + Len(b) /\ Len(a) \in Nat /\ Len(b) \in Nat
        /\ \A j \in 1 .. Len(c) : c[j] = IF j <= Len(a) THEN a[j] ELSE b[j - Len(a)]
    BY ConcatProperties
  <1> HIDE DEF c
  <1> SUFFICES ASSUME NEW j \in 1 .. Len(c), NEW k \in 1 .. Len(c), j < k
               PROVE  /\ c[j].do = "item" => c[k].do \notin {"item", "child"}
                      /\ c[j].do = "child" => c[k].do # "child"
    BY DEF Orderly, c
  <1>2. CASE k <= Len(a)
    <2>1. j \in 1 .. Len(a) /\ k \in 1 .. Len(a) /\ c[j] = a[j] /\ c[k] = a[k]
      BY <1>1, <1>2
    <2>2. QED  BY <2>1 DEF Orderly
  <1>3. CASE j > Len(a)
    <2>1. /\ j - Len(a) \in 1 .. Len(b) /\ k - Len(a) \in 1 .. Len(b) /\ j - Len(a) < k - Len(a)
          /\ c[j] = b[j - Len(a)] /\ c[k] = b[k - Len(a)]
      BY <1>1, <1>3
    <2>2. QED  BY <2>1 DEF Orderly
  <1>4. CASE j <= Len(a) /\ k > Len(a)
    <2>1. /\ j \in 1 .. Len(a) /\ k - Len(a) \in 1 .. Len(b)
          /\ c[j] = a[j] /\ c[k] = b[k - Len(a)]
      BY <1>1, <1>4
    <2>2. a[j].node \in JobsIn(a, a[j].do)
      BY <2>1, JobSeen
    <2>3. b[k - Len(a)].node \in JobsIn(b, b[k - Len(a)].do)
      BY <2>1, JobSeen
    <2>4. QED  BY <2>1, <2>2, <2>3
  <1>5. QED  BY <1>1, <1>2, <1>3, <1>4

-----------------------------------------------------------------------------
\* What stays as long as the parsed document does, once more.
LEMMA SameFields ==
  ASSUME UNCHANGED <<doc, addr>>
  PROVE  /\ Method' = Method /\ Params' = Params /\ Items' = Items /\ Commands' = Commands
         /\ \A n : NextOf(n)' = NextOf(n)
         /\ \A A : SeenTo(A)' = SeenTo(A)
  <1>1. /\ Nodes' = Nodes
        /\ \A n : Node(n)' = Node(n) /\ Kids(n)' = Kids(n)
    BY SameNodes
  <1>2. \A n, key : ObjectItem(n, key)' = ObjectItem(n, key)
    BY <1>1 DEF ObjectItem
  <1>3. \A n : NextOf(n)' = NextOf(n) /\ ChildOf(n)' = ChildOf(n)
    BY <1>1 DEF NextOf, ChildOf
  <1>4. Method' = Method /\ Params' = Params
    BY <1>2 DEF Method, Params, Root
  <1>5. Items' = Items
    BY <1>1, <1>3, <1>4 DEF Items
  <1>6. Commands' = Commands
    <2>1. (\A m : m \in Commands <=>
              /\ Method # 0 /\ Items # 0
              /\ \E k \in Kids(Params) :
                   /\ ObjectItem(k, "deviceId") # 0
                   /\ IF doc.command = "self" THEN m # 0 /\ m = ObjectItem(k, "set")
                      ELSE m \in Kids(k) /\ Node(m).type = "number")'
      BY CommandMember, PTL
    <2>2. \A m : m \in Commands' <=> m \in Commands
      BY <1>1, <1>2, <1>4, <1>5, <2>1, CommandMember
    <2>3. QED  BY <2>2
  <1>7. \A A : SeenTo(A)' = SeenTo(A)
    BY <1>6 DEF SeenTo
  <1>8. QED  BY <1>3, <1>4, <1>5, <1>6, <1>7

\* A walk is what remains of it, with new jobs: the invariant after the step from
\* the jobs after it.
LEMMA WalkGoesOn ==
  ASSUME NEW I \in SUBSET Nodes, NEW C \in SUBSET Nodes,
         UNCHANGED <<phase, doc, addr>>, phase = "handle",
         JobsIn(todo', "item") = I, JobsIn(todo', "child") = C,
         Orderly(todo'), I \cup C # {} => Method # 0 /\ Items # 0,
         I \subseteq Kids(Params),
         \A c \in C : /\ doc.command # "self" /\ Node(c).parent \in Kids(Params)
                      /\ I = {NextOf(Node(c).parent)} \ {0},
         LET S == SeenTo(I \cup C)
         IN  IF S = {} THEN cmd' = NoCmd
             ELSE /\ cmd' \in [device : Nodes, value : Nodes]
                  /\ cmd'.value \in S /\ \A m \in S : m <= cmd'.value
                  /\ Node(cmd'.device).parent = Node(cmd'.value).parent
  PROVE  WalkOK'
  <1>1. /\ Nodes' = Nodes
        /\ \A n : Node(n)' = Node(n) /\ Kids(n)' = Kids(n)
        /\ \A w : JobsIn(todo, w)' = JobsIn(todo', w)
    BY SameNodes
  <1>2. /\ Method' = Method /\ Params' = Params /\ Items' = Items
        /\ \A n : NextOf(n)' = NextOf(n) /\ \A A : SeenTo(A)' = SeenTo(A)
    BY SameFields
  <1>3. Ahead' = I \cup C
    BY <1>1 DEF Ahead
  <1>4. Orderly(todo)'
    BY DEF Orderly
  <1>5. SeenTo(Ahead)' = SeenTo(I \cup C)
    BY <1>2, <1>3 DEF SeenTo
  <1>6. LastOf(SeenTo(Ahead))'
    BY <1>1, <1>5 DEF LastOf
  <1>7. QED  BY <1>1, <1>2, <1>3, <1>4, <1>6 DEF WalkOK

\* Where a walk is when it comes to an item or to a child.
LEMMA WalkAt ==
  ASSUME CInv, WalkOK, Doing("item") \/ Doing("child")
  PROVE  LET n == Head(todo).node
             t == Tail(todo)
         IN  /\ phase = "handle" /\ n \in Nodes /\ t \in Seq(Jobs) /\ Orderly(t)
             /\ Method # 0 /\ Items # 0 /\ NodesOK
             /\ JobsIn(t, "child") = {} /\ LastOf(SeenTo(Ahead))
             /\ Doing("item") => /\ n \in Kids(Params) /\ JobsIn(t, "item") = {} /\ Ahead = {n}
             /\ Doing("child") =>
                  /\ doc.command # "self" /\ Node(n).parent \in Kids(Params)
                  /\ n \in Kids(Node(n).parent)
                  /\ JobsIn(t, "item") = {NextOf(Node(n).parent)} \ {0}
                  /\ Ahead = {n} \cup ({NextOf(Node(n).parent)} \ {0})
  <1> DEFINE n == Head(todo).node
             t == Tail(todo)
  <1>1. todo # <<>> /\ phase \in {"unwind", "handle"} /\ Head(todo).do \in {"item", "child"}
        /\ todo \in Seq(Jobs) /\ NodesOK
    BY DEF Doing, CInv
  <1>2. n \in Nodes /\ t \in Seq(Jobs)
        /\ \A w : JobsIn(todo, w) = JobsIn(t, w) \cup (IF w = Head(todo).do THEN {n} ELSE {})
    BY <1>1, FirstJob
  <1>3. n \in Ahead
    BY <1>1, <1>2 DEF Ahead
  <1>4. phase = "handle"
    BY <1>1, <1>3 DEF WalkOK
  <1>5. Orderly(todo) /\ Method # 0 /\ Items # 0 /\ LastOf(SeenTo(Ahead))
    BY <1>3, <1>4 DEF WalkOK
  <1>6. /\ Orderly(t)
        /\ Head(todo).do = "item" => JobsIn(t, "item") = {} /\ JobsIn(t, "child") = {}
        /\ Head(todo).do = "child" => JobsIn(t, "child") = {}
    BY <1>1, <1>5, OrderlyHead
  <1> HIDE DEF n, t
  <1>7. ASSUME Doing("item")
        PROVE  n \in Kids(Params) /\ JobsIn(t, "item") = {} /\ Ahead = {n}
    <2>1. Head(todo).do = "item"
      BY <1>7 DEF Doing
    <2>2. JobsIn(todo, "item") = {n} /\ JobsIn(todo, "child") = {}
      BY <1>2, <1>6, <2>1
    <2>3. QED  BY <1>4, <1>6, <2>1, <2>2 DEF WalkOK, Ahead
  <1>8. ASSUME Doing("child")
        PROVE  /\ doc.command # "self" /\ Node(n).parent \in Kids(Params)
               /\ n \in Kids(Node(n).parent)
               /\ JobsIn(t, "item") = {NextOf(Node(n).parent)} \ {0}
               /\ Ahead = {n} \cup ({NextOf(Node(n).parent)} \ {0})
    <2>1. Head(todo).do = "child"
      BY <1>8 DEF Doing
    <2>2. JobsIn(todo, "child") = {n} /\ JobsIn(todo, "item") = JobsIn(t, "item")
      BY <1>2, <1>6, <2>1
    <2>3. /\ doc.command # "self" /\ Node(n).parent \in Kids(Params)
          /\ JobsIn(todo, "item") = {NextOf(Node(n).parent)} \ {0}
      BY <1>4, <2>2 DEF WalkOK
    <2>4. n \in Kids(Node(n).parent)
      BY <1>2 DEF Kids
    <2>5. QED  BY <2>2, <2>3, <2>4 DEF Ahead
  <1>9. QED  BY <1>1, <1>2, <1>4, <1>5, <1>6, <1>7, <1>8 DEF n, t

\* Going on from an item: the commands in it are behind what has been seen and
\* before what is ahead.
LEMMA WalkItem ==
  ASSUME CInv, WalkOK, Item
  PROVE  WalkOK'
  <1> DEFINE n == Head(todo).node
             t == Tail(todo)
             device == ObjectItem(n, "deviceId")
             set    == ObjectItem(n, "set")
             self == doc.command = "self"
             I == {NextOf(n)} \ {0}
             C == IF self THEN {} ELSE {ChildOf(n)} \ {0}
             S == SeenTo({n})
  <1>0. Doing("item") /\ UNCHANGED <<vars, phase, doc, addr>>
    BY DEF Item
  <1>1. /\ phase = "handle" /\ n \in Nodes /\ t \in Seq(Jobs) /\ Orderly(t)
        /\ Method # 0 /\ Items # 0 /\ NodesOK
        /\ JobsIn(t, "child") = {} /\ JobsIn(t, "item") = {}
        /\ n \in Kids(Params) /\ LastOf(S)
    BY <1>0, WalkAt
  <1>2. JobsIn(todo', "item") = I /\ JobsIn(todo', "child") = C
    <2>1. PICK D \in SUBSET Nodes :
            \A w : JobsIn(todo', w) = JobsIn(t, w)
                     \cup (IF w = "delete" THEN D ELSE {})
                     \cup (IF w = "item" THEN {NextOf(n)} \ {0} ELSE {})
                     \cup (IF w = "child" /\ doc.command # "self"
                            THEN {ChildOf(n)} \ {0} ELSE {})
      BY ItemJobs
    <2> HIDE DEF n, t
    <2>2. QED  BY <1>1, <2>1
  <1>3. I \in SUBSET Nodes /\ C \in SUBSET Nodes
    BY KidsAreNodes
  <1>4. Node(n).parent = Params
    BY <1>1 DEF Kids
  <1>5. I \subseteq Kids(Params)
    <2> HIDE DEF n
    <2>1. QED  BY <1>4, NextAndChild
  <1>6. \A c \in C : ~self /\ Node(c).parent = n
    <2> HIDE DEF n
    <2>1. ChildOf(n) # 0 => ChildOf(n) \in Kids(n)
      BY NextAndChild
    <2>2. QED  BY <2>1 DEF Kids
  <1>7. Orderly(todo')
    <2> DEFINE a == Todo("delete", n)
               b == Todo("item", NextOf(n))
               d == Todo("delete", device)
               s == Todo("delete", set)
               c == Todo("child", ChildOf(n))
               ab == a \o b
               rest == ab \o t
    <2>1. \/ todo' = s \o d \o rest \/ todo' = d \o rest \/ todo' = c \o rest
      BY DEF Item
    <2>2. /\ a \in Seq(Jobs) /\ b \in Seq(Jobs) /\ c \in Seq(Jobs) /\ d \in Seq(Jobs)
          /\ s \in Seq(Jobs) /\ 0 \notin Nodes
      <3>1. 0 \notin Nodes
        BY DEF Nodes
      <3>2. QED  BY <1>1, <3>1, TodoType, KidsAreNodes
    <2>3. /\ Orderly(a) /\ Orderly(b) /\ Orderly(c) /\ Orderly(d) /\ Orderly(s)
      BY OrderlyTodo
    <2>4. /\ device \in Nodes \cup {0} /\ set \in Nodes \cup {0} /\ NextOf(n) \in Nodes \cup {0}
          /\ ChildOf(n) \in Nodes \cup {0}
      BY KidsAreNodes
    <2> HIDE DEF n, t, device, set
    <2>5. /\ JobsIn(a, "item") = {} /\ JobsIn(a, "child") = {} /\ JobsIn(b, "child") = {}
          /\ JobsIn(d, "item") = {} /\ JobsIn(d, "child") = {}
          /\ JobsIn(s, "item") = {} /\ JobsIn(s, "child") = {}
          /\ JobsIn(c, "item") = {}
      <3>1. JobsIn(a, "item") = {} /\ JobsIn(a, "child") = {} /\ JobsIn(b, "child") = {}
        BY <1>1, <2>4, JobsOfTodo
      <3>2. JobsIn(d, "item") = {} /\ JobsIn(d, "child") = {}
        BY <2>4, JobsOfTodo
      <3>3. JobsIn(s, "item") = {} /\ JobsIn(s, "child") = {}
        BY <2>4, JobsOfTodo
      <3>4. JobsIn(c, "item") = {}
        BY <2>4, JobsOfTodo
      <3>5. QED  BY <3>1, <3>2, <3>3, <3>4
    <2> HIDE DEF a, b, c, d, s
    <2>6. ab \in Seq(Jobs) /\ Orderly(ab) /\ JobsIn(ab, "child") = {}
      <3>1. Orderly(ab)
        BY <2>2, <2>3, <2>5, OrderlyJoin
      <3>2. ab \in Seq(Jobs) /\ JobsIn(ab, "child") = {}
        BY <2>2, <2>5, JobsOfJoin
      <3>3. QED  BY <3>1, <3>2
    <2> HIDE DEF ab
    <2>7. rest \in Seq(Jobs) /\ Orderly(rest) /\ JobsIn(rest, "child") = {}
      <3>1. Orderly(rest)
        BY <1>1, <2>6, OrderlyJoin
      <3>2. rest \in Seq(Jobs) /\ JobsIn(rest, "child") = {}
        BY <1>1, <2>6, JobsOfJoin
      <3>3. QED  BY <3>1, <3>2
    <2> HIDE DEF rest
    <2>8. Orderly(d \o rest) /\ Orderly(c \o rest)
      BY <2>2, <2>3, <2>5, <2>7, OrderlyJoin
    <2>9. Orderly(s \o d \o rest)
      <3> DEFINE sd == s \o d
      <3>1. Orderly(sd)
        BY <2>2, <2>3, <2>5, OrderlyJoin
      <3>2. sd \in Seq(Jobs) /\ JobsIn(sd, "item") = {} /\ JobsIn(sd, "child") = {}
        <4>1. JobsIn(sd, "item") = JobsIn(s, "item") \cup JobsIn(d, "item")
              /\ sd \in Seq(Jobs)
          BY <2>2, JobsOfJoin
        <4>2. JobsIn(sd, "child") = JobsIn(s, "child") \cup JobsIn(d, "child")
          BY <2>2, JobsOfJoin
        <4>3. QED  BY <2>5, <4>1, <4>2
      <3> HIDE DEF sd
      <3>3. Orderly(sd \o rest)
        BY <2>7, <3>1, <3>2, OrderlyJoin
      <3>4. QED  BY <3>3 DEF sd
    <2>10. QED  BY <2>1, <2>8, <2>9
  <1> DEFINE X == IF self /\ device # 0 /\ set # 0 THEN {set} ELSE {}
  <1>8. /\ cmd' = IF X = {} THEN cmd ELSE [device |-> device, value |-> set]
        /\ X # {} => device \in Kids(n) /\ set \in Kids(n)
    BY ObjectItemIs DEF Item
  <1>9. SeenTo(I \cup C) = S \cup X
    <2>1. X \subseteq Commands
      BY <1>1, CommandMember
    <2> HIDE DEF n
    <2>2. \A m \in Commands : /\ n \in Nat /\ m \in Nat /\ NextOf(n) \in Nat
                              /\ NextOf(n) # 0 => n < NextOf(n)
                              /\ \A c \in Kids(n) : c \in Nat /\ n < c
                                                    /\ (NextOf(n) # 0 => c < NextOf(n))
                              /\ \/ m < n
                                 \/ m \in Kids(n)
                                 \/ NextOf(n) # 0 /\ NextOf(n) < m
      BY <1>1, CommandPlace
    <2>3. /\ ChildOf(n) # 0 => ChildOf(n) \in Kids(n) /\ \A m \in Kids(n) : ChildOf(n) <= m
          /\ ChildOf(n) = 0 => Kids(n) = {}
      BY NextAndChild
    <2>4. \A m \in Commands \cap Kids(n) : self => m \in X
      <3> SUFFICES ASSUME NEW m \in Commands, m \in Kids(n), self PROVE m \in X
        OBVIOUS
      <3>1. PICK k \in Kids(Params) : m \in Kids(k) /\ ObjectItem(k, "deviceId") # 0
                                      /\ m = ObjectItem(k, "set")
        BY CommandMember, ObjectItemIs
      <3>2. k = n /\ m # 0
        BY <3>1 DEF Kids, Nodes
      <3>3. QED  BY <3>1, <3>2
    <2> HIDE DEF X
    <2>5. ASSUME NEW m \in Commands, \A j \in I \cup C : m < j
          PROVE  m \in S \cup X
      <3>1. CASE m < n
        BY <3>1 DEF SeenTo
      <3>2. CASE m \in Kids(n)
        <4>1. self
          BY <2>2, <2>3, <2>5, <3>2
        <4>2. QED  BY <2>4, <3>2, <4>1
      <3>3. CASE NextOf(n) # 0 /\ NextOf(n) < m
        BY <2>2, <2>5, <3>3
      <3>4. QED  BY <2>2, <3>1, <3>2, <3>3
    <2>6. ASSUME NEW m \in Commands, m < n
          PROVE  \A j \in I \cup C : m < j
      <3>1. n \in Nat /\ m \in Nat /\ NextOf(n) \in Nat /\ (NextOf(n) # 0 => n < NextOf(n))
        BY <2>2
      <3>2. ChildOf(n) # 0 => n < ChildOf(n) /\ ChildOf(n) \in Nat
        BY <2>2, <2>3
      <3>3. QED  BY <2>6, <3>1, <3>2
    <2>7. ASSUME NEW m \in X
          PROVE  \A j \in I \cup C : m < j
      <3>1. m \in Kids(n) /\ self
        BY <1>8, <2>7 DEF X
      <3>2. QED  BY <2>1, <2>2, <3>1
    <2>8. QED  BY <2>1, <2>5, <2>6, <2>7 DEF SeenTo
  <1>10. LET T == SeenTo(I \cup C)
         IN  IF T = {} THEN cmd' = NoCmd
             ELSE /\ cmd' \in [device : Nodes, value : Nodes]
                  /\ cmd'.value \in T /\ \A m \in T : m <= cmd'.value
                  /\ Node(cmd'.device).parent = Node(cmd'.value).parent
    <2>1. CASE X = {}
      <3>1. SeenTo(I \cup C) = S /\ cmd' = cmd
        BY <1>8, <1>9, <2>1
      <3> HIDE DEF S, I, C
      <3>2. QED  BY <1>1, <3>1 DEF LastOf
    <2>2. CASE X # {}
      <3>1. /\ cmd' = [device |-> device, value |-> set] /\ X = {set}
            /\ device \in Nodes /\ set \in Nodes
            /\ Node(device).parent = n /\ Node(set).parent = n
        BY <1>8, <2>2 DEF Kids
      <3>2. \A m \in S : m < set
        <4>1. n \in Nat /\ n < set /\ set \in Nat
          BY <1>1, <1>8, <2>2, NodeOrder
        <4>2. \A m \in S : m \in Nat /\ m < n
          BY <1>1, CommandPlace DEF SeenTo
        <4> HIDE DEF set, n, S
        <4>3. QED  BY <4>1, <4>2
      <3>3. \A m \in S \cup X : m <= set
        <4>1. set \in Nat
          BY <3>1 DEF Nodes
        <4>2. \A m \in S : m \in Nat
          BY <1>1, CommandPlace DEF SeenTo
        <4> HIDE DEF set, n, S
        <4>3. QED  BY <3>1, <3>2, <4>1, <4>2
      <3> HIDE DEF set, device, n, S, X, I, C
      <3>4. QED  BY <1>9, <3>1, <3>3
    <2>3. QED  BY <2>1, <2>2
  <1> HIDE DEF I, C
  <1>11. QED  BY <1>0, <1>1, <1>2, <1>3, <1>5, <1>6, <1>7, <1>10, WalkGoesOn DEF I

\* Going on from a child: it is the next command, or none.
LEMMA WalkChild ==
  ASSUME CInv, WalkOK, Child
  PROVE  WalkOK'
  <1> DEFINE n == Head(todo).node
             t == Tail(todo)
             p == Node(n).parent
             device == ObjectItem(p, "deviceId")
             I == {NextOf(p)} \ {0}
             C == {NextOf(n)} \ {0}
             S == SeenTo({n} \cup I)
  <1>0. Doing("child") /\ UNCHANGED <<vars, phase, doc, addr>>
    BY DEF Child
  <1>1. /\ phase = "handle" /\ n \in Nodes /\ t \in Seq(Jobs) /\ Orderly(t)
        /\ Method # 0 /\ Items # 0 /\ NodesOK
        /\ JobsIn(t, "child") = {} /\ JobsIn(t, "item") = I
        /\ doc.command # "self" /\ p \in Kids(Params) /\ n \in Kids(p) /\ LastOf(S)
    BY <1>0, WalkAt
  <1>2. JobsIn(todo', "item") = I /\ JobsIn(todo', "child") = C
    <2>1. PICK D \in SUBSET Nodes :
            \A w : JobsIn(todo', w) = JobsIn(t, w)
                     \cup (IF w = "delete" THEN D ELSE {})
                     \cup (IF w = "child" THEN {NextOf(n)} \ {0} ELSE {})
      BY ChildJobs
    <2> HIDE DEF n, t, p, I
    <2>2. QED  BY <1>1, <2>1
  <1>3. I \in SUBSET Nodes /\ C \in SUBSET Nodes
    BY KidsAreNodes
  <1>4. I \subseteq Kids(Params)
    <2>1. Node(p).parent = Params
      BY <1>1 DEF Kids
    <2> HIDE DEF p
    <2>2. QED  BY <2>1, NextAndChild
  <1>5. \A c \in C : Node(c).parent = p
    <2>1. NextOf(n) # 0 => NextOf(n) \in Kids(p)
      BY NextAndChild
    <2> HIDE DEF n, p
    <2>2. QED  BY <2>1 DEF Kids
  <1>6. Orderly(todo')
    <2> DEFINE b == Todo("child", NextOf(n))
               d == Todo("delete", device)
               rest == b \o t
    <2>1. todo' = d \o rest \/ todo' = rest
      BY DEF Child
    <2>2. b \in Seq(Jobs) /\ d \in Seq(Jobs)
      <3>1. 0 \notin Nodes
        BY DEF Nodes
      <3>2. QED  BY <3>1, TodoType, KidsAreNodes
    <2>3. /\ Orderly(b) /\ Orderly(d)
      BY OrderlyTodo
    <2>4. device \in Nodes \cup {0} /\ NextOf(n) \in Nodes \cup {0}
      BY KidsAreNodes
    <2> HIDE DEF n, t, device
    <2>5. JobsIn(b, "item") = {} /\ JobsIn(d, "item") = {} /\ JobsIn(d, "child") = {}
      BY <2>4, JobsOfTodo
    <2> HIDE DEF b, d
    <2>6. rest \in Seq(Jobs) /\ Orderly(rest)
      <3>1. Orderly(rest)
        BY <1>1, <2>2, <2>3, <2>5, OrderlyJoin
      <3>2. QED  BY <1>1, <2>2, <3>1
    <2> HIDE DEF rest
    <2>7. Orderly(d \o rest)
      BY <2>2, <2>3, <2>5, <2>6, OrderlyJoin
    <2>8. QED  BY <2>1, <2>6, <2>7
  <1> DEFINE X == IF Node(n).type = "number" /\ device # 0 THEN {n} ELSE {}
  <1>7. /\ cmd' = IF X = {} THEN cmd ELSE [device |-> device, value |-> n]
        /\ device # 0 => device \in Kids(p)
    BY ObjectItemIs DEF Child, Command
  <1>8. X \subseteq Commands
    BY <1>1, CommandMember
  <1>9. \A m \in Commands : /\ p \in Nat /\ m \in Nat /\ NextOf(p) \in Nat
                            /\ NextOf(p) # 0 => p < NextOf(p)
                            /\ \A c \in Kids(p) : c \in Nat /\ p < c
                                                  /\ (NextOf(p) # 0 => c < NextOf(p))
                            /\ \/ m < p
                               \/ m \in Kids(p)
                               \/ NextOf(p) # 0 /\ NextOf(p) < m
    BY <1>1, CommandPlace
  <1>10. /\ NextOf(n) = 0 => \A m \in Kids(p) : ~(m > n)
         /\ NextOf(n) # 0 => /\ NextOf(n) \in Kids(p) /\ NextOf(n) > n
                             /\ \A m \in Kids(p) : m > n => NextOf(n) <= m
    BY NextAndChild
  <1>11. SeenTo(I \cup C) = S \cup X
    <2>1. \A m \in Commands : m = n => m \in X
      <3> SUFFICES ASSUME n \in Commands PROVE n \in X
        OBVIOUS
      <3>1. PICK k \in Kids(Params) : n \in Kids(k) /\ ObjectItem(k, "deviceId") # 0
                                      /\ Node(n).type = "number"
        BY <1>1, CommandMember
      <3>2. k = p
        BY <3>1 DEF Kids
      <3>3. QED  BY <3>1, <3>2
    <2>2. X \subseteq {n}
      OBVIOUS
    <2> HIDE DEF X, n, p
    <2>3. ASSUME NEW m \in Commands, \A j \in I \cup C : m < j
          PROVE  m \in S \cup X
      <3>1. CASE m < n
        BY <2>3, <3>1 DEF SeenTo
      <3>2. CASE m = n
        BY <2>1, <3>2
      <3>3. CASE m > n
        <4>1. m \in Kids(p) \/ (NextOf(p) # 0 /\ NextOf(p) < m)
          BY <1>1, <1>9, <3>3
        <4>2. CASE m \in Kids(p)
          <5>1. NextOf(n) # 0 /\ NextOf(n) <= m
            BY <1>10, <3>3, <4>2
          <5>2. NextOf(n) \in C /\ NextOf(n) \in Nat /\ m \in Nat
            BY <1>9, <1>10, <5>1
          <5>3. m < NextOf(n)
            BY <2>3, <5>2
          <5>4. QED  BY <5>1, <5>2, <5>3
        <4>3. CASE NextOf(p) # 0 /\ NextOf(p) < m
          <5>1. m < NextOf(p) /\ m \in Nat /\ NextOf(p) \in Nat
            BY <1>9, <2>3, <4>3
          <5>2. QED  BY <4>3, <5>1
        <4>4. QED  BY <4>1, <4>2, <4>3
      <3>4. QED  BY <1>1, <1>9, <3>1, <3>2, <3>3
    <2>4. ASSUME NEW m \in Commands, m <= n
          PROVE  \A j \in I \cup C : m < j
      <3>1. n \in Nat /\ m \in Nat /\ NextOf(p) \in Nat /\ (NextOf(p) # 0 => n < NextOf(p))
        BY <1>1, <1>9
      <3>2. NextOf(n) # 0 => n < NextOf(n) /\ NextOf(n) \in Nat
        BY <1>9, <1>10
      <3>3. QED  BY <2>4, <3>1, <3>2
    <2>5. \A m \in S \cup X : m \in Commands /\ m <= n
      BY <1>1, <1>8, <1>9, <2>2 DEF SeenTo
    <2>6. QED  BY <2>3, <2>4, <2>5 DEF SeenTo
  <1>12. LET T == SeenTo(I \cup C)
         IN  IF T = {} THEN cmd' = NoCmd
             ELSE /\ cmd' \in [device : Nodes, value : Nodes]
                  /\ cmd'.value \in T /\ \A m \in T : m <= cmd'.value
                  /\ Node(cmd'.device).parent = Node(cmd'.value).parent
    <2>1. CASE X = {}
      <3>1. SeenTo(I \cup C) = S /\ cmd' = cmd
        BY <1>7, <1>11, <2>1
      <3> HIDE DEF S, I, C
      <3>2. QED  BY <1>1, <3>1 DEF LastOf
    <2>2. CASE X # {}
      <3>1. /\ cmd' = [device |-> device, value |-> n] /\ X = {n}
            /\ device \in Nodes /\ n \in Nodes
            /\ Node(device).parent = p /\ Node(n).parent = p
        BY <1>1, <1>7, <2>2 DEF Kids
      <3>2. \A m \in S \cup X : m <= n
        <4>1. n \in Nat
          BY <3>1 DEF Nodes
        <4>2. \A m \in S : m \in Nat /\ m < n
          BY <1>9 DEF SeenTo
        <4> HIDE DEF n, S
        <4>3. QED  BY <3>1, <4>1, <4>2
      <3> HIDE DEF device, n, p, S, X, I, C
      <3>3. QED  BY <1>11, <3>1, <3>2
    <2>3. QED  BY <2>1, <2>2
  <1> HIDE DEF I, C
  <1>13. QED  BY <1>0, <1>1, <1>2, <1>3, <1>4, <1>5, <1>6, <1>12, WalkGoesOn DEF I

\* The walk starts before all the commands.
LEMMA WalkStarts ==
  ASSUME CInv, WalkOK, Parsed
  PROVE  WalkOK'
  <1> DEFINE C == {}
  <1>1. UNCHANGED <<doc, addr, cmd>> /\ phase' = "handle" /\ cmd = NoCmd /\ NodesOK /\ phase # "none"
    BY DEF Parsed, WalkOK, CInv
  <1>2. /\ Nodes' = Nodes
        /\ \A n : Node(n)' = Node(n) /\ Kids(n)' = Kids(n)
        /\ \A w : JobsIn(todo, w)' = JobsIn(todo', w)
    BY <1>1, SameNodes
  <1>3. /\ Method' = Method /\ Params' = Params /\ Items' = Items /\ Commands' = Commands
        /\ \A A : SeenTo(A)' = SeenTo(A)
    BY <1>1, SameFields
  <1> DEFINE a == Todo("item", Items)
             P == IF doc.command = "other" THEN 0 ELSE Params
             b == Todo("delete", P)
             m == Todo("delete", Method)
             r == Todo("delete", Root)
             I == IF Method = 0 THEN {} ELSE {Items} \ {0}
  <1>4. /\ Items \in Nodes \cup {0} /\ Method \in Nodes \cup {0} /\ P \in Nodes \cup {0}
        /\ Root \in Nodes /\ 0 \notin Nodes
    <2>1. Root \in Nodes
      <3>1. Len(addr) \in Nat \ {0}
        BY DocumentAssumption DEF Parsed, CInv, NodesOK
      <3>2. QED  BY <3>1 DEF Root, Nodes
    <2>2. QED  BY <2>1, KidsAreNodes DEF Items, Method, Params, Nodes
  <1>5. a \in Seq(Jobs) /\ b \in Seq(Jobs) /\ m \in Seq(Jobs) /\ r \in Seq(Jobs)
    <2> HIDE DEF P
    <2>1. QED  BY <1>4, TodoType
  <1>6. /\ JobsIn(a, "item") = {Items} \ {0} /\ JobsIn(a, "child") = {}
        /\ JobsIn(b, "item") = {} /\ JobsIn(b, "child") = {}
        /\ JobsIn(m, "item") = {} /\ JobsIn(m, "child") = {}
        /\ JobsIn(r, "item") = {} /\ JobsIn(r, "child") = {}
    <2> HIDE DEF P
    <2>1. JobsIn(a, "item") = {Items} \ {0} /\ JobsIn(a, "child") = {}
      BY <1>4, JobsOfTodo
    <2>2. JobsIn(b, "item") = {} /\ JobsIn(b, "child") = {}
      BY <1>4, JobsOfTodo
    <2>3. JobsIn(m, "item") = {} /\ JobsIn(m, "child") = {}
      BY <1>4, JobsOfTodo
    <2>4. JobsIn(r, "item") = {} /\ JobsIn(r, "child") = {}
      BY <1>4, JobsOfTodo
    <2>5. QED  BY <2>1, <2>2, <2>3, <2>4
  <1>7. Orderly(a) /\ Orderly(b) /\ Orderly(m) /\ Orderly(r)
    BY OrderlyTodo
  <1>8. todo' = IF Method = 0 THEN r ELSE a \o b \o m \o r
    BY DEF Parsed
  <1> HIDE DEF a, b, m, r, P
  <1> DEFINE ab == a \o b
             abm == ab \o m
             all4 == abm \o r
  <1>9. ab \in Seq(Jobs) /\ Orderly(ab) /\ JobsIn(ab, "item") = {Items} \ {0} /\ JobsIn(ab, "child") = {}
    <2>1. Orderly(ab) /\ ab \in Seq(Jobs)
      BY <1>5, <1>6, <1>7, OrderlyJoin
    <2>2. JobsIn(ab, "item") = JobsIn(a, "item") \cup JobsIn(b, "item")
      BY <1>5, JobsOfJoin
    <2>3. JobsIn(ab, "child") = JobsIn(a, "child") \cup JobsIn(b, "child")
      BY <1>5, JobsOfJoin
    <2>4. QED  BY <1>6, <2>1, <2>2, <2>3
  <1> HIDE DEF ab
  <1>10. abm \in Seq(Jobs) /\ Orderly(abm) /\ JobsIn(abm, "item") = {Items} \ {0}
         /\ JobsIn(abm, "child") = {}
    <2>1. Orderly(abm) /\ abm \in Seq(Jobs)
      BY <1>5, <1>6, <1>7, <1>9, OrderlyJoin
    <2>2. JobsIn(abm, "item") = JobsIn(ab, "item") \cup JobsIn(m, "item")
      BY <1>5, <1>9, JobsOfJoin
    <2>3. JobsIn(abm, "child") = JobsIn(ab, "child") \cup JobsIn(m, "child")
      BY <1>5, <1>9, JobsOfJoin
    <2>4. QED  BY <1>6, <1>9, <2>1, <2>2, <2>3
  <1> HIDE DEF abm
  <1>11. Orderly(all4) /\ JobsIn(all4, "item") = {Items} \ {0} /\ JobsIn(all4, "child") = {}
    <2>1. Orderly(all4)
      BY <1>5, <1>6, <1>7, <1>10, OrderlyJoin
    <2>2. JobsIn(all4, "item") = JobsIn(abm, "item") \cup JobsIn(r, "item")
      BY <1>5, <1>10, JobsOfJoin
    <2>3. JobsIn(all4, "child") = JobsIn(abm, "child") \cup JobsIn(r, "child")
      BY <1>5, <1>10, JobsOfJoin
    <2>4. QED  BY <1>6, <1>10, <2>1, <2>2, <2>3
  <1>12. Orderly(todo') /\ JobsIn(todo', "item") = I /\ JobsIn(todo', "child") = {}
    <2>1. todo' = IF Method = 0 THEN r ELSE all4
      BY <1>8 DEF all4, abm, ab
    <2> HIDE DEF all4
    <2>2. QED  BY <1>6, <1>7, <1>11, <2>1
  <1>13. I \subseteq Kids(Params)
    BY NextAndChild DEF Items
  <1>14. SeenTo(I) = {}
    <2> SUFFICES ASSUME NEW c \in Commands, \A j \in I : c < j PROVE FALSE
      BY DEF SeenTo
    <2>1. Method # 0 /\ Items # 0
      BY CommandMember
    <2>2. PICK k \in Kids(Params) : c \in Kids(k)
      BY CommandMember, ObjectItemIs
    <2>3. Items = ChildOf(Params)
      BY <2>1 DEF Items
    <2>4. Items \in Nat /\ Items <= k /\ k \in Nat /\ c \in Nat /\ k < c
      <3>1. Items \in Kids(Params) /\ Items <= k
        BY <2>1, <2>2, <2>3, NextAndChild
      <3>2. QED  BY <1>1, <2>2, <3>1, NodeOrder
    <2>5. c < Items
      BY <2>1
    <2>6. QED  BY <2>4, <2>5
  <1> HIDE DEF I
  <1>15. Ahead' = I /\ Orderly(todo)'
    BY <1>2, <1>12 DEF Ahead, Orderly
  <1>16. LastOf(SeenTo(Ahead))'
    <2>1. SeenTo(Ahead)' = {}
      BY <1>3, <1>14, <1>15 DEF SeenTo
    <2>2. QED  BY <1>1, <2>1 DEF LastOf
  <1>17. I # {} => Method # 0 /\ Items # 0
    BY DEF I
  <1>18. (\A c \in JobsIn(todo, "child") : FALSE)' /\ JobsIn(todo, "item")' = I
    BY <1>2, <1>12
  <1>19. QED  BY <1>1, <1>2, <1>3, <1>13, <1>15, <1>16, <1>17, <1>18 DEF WalkOK

\* The steps that are no part of the walk.
LEMMA WalkStays ==
  ASSUME WalkOK, UNCHANGED <<phase, doc, addr, cmd>>,
         JobsIn(todo', "item") = JobsIn(todo, "item"),
         JobsIn(todo', "child") = JobsIn(todo, "child"),
         phase = "handle" => Orderly(todo')
  PROVE  WalkOK'
  <1>1. CASE phase = "handle"
    <2> DEFINE I == JobsIn(todo, "item")
               C == JobsIn(todo, "child")
    <2>1. I \in SUBSET Nodes /\ C \in SUBSET Nodes
      BY DEF JobsIn
    <2>2. /\ I \cup C # {} => Method # 0 /\ Items # 0
          /\ I \subseteq Kids(Params)
          /\ \A c \in C : /\ doc.command # "self" /\ Node(c).parent \in Kids(Params)
                          /\ I = {NextOf(Node(c).parent)} \ {0}
          /\ LastOf(SeenTo(I \cup C))
      BY <1>1 DEF WalkOK, Ahead
    <2> HIDE DEF I, C
    <2>3. LET S == SeenTo(I \cup C)
          IN  IF S = {} THEN cmd' = NoCmd
              ELSE /\ cmd' \in [device : Nodes, value : Nodes]
                   /\ cmd'.value \in S /\ \A m \in S : m <= cmd'.value
                   /\ Node(cmd'.device).parent = Node(cmd'.value).parent
      BY <2>2 DEF LastOf
    <2>4. JobsIn(todo', "item") = I /\ JobsIn(todo', "child") = C
      BY DEF I, C
    <2>5. QED  BY <1>1, <2>1, <2>2, <2>3, <2>4, WalkGoesOn
  <1>2. CASE phase # "handle"
    <2>1. /\ Nodes' = Nodes
          /\ \A w : JobsIn(todo, w)' = JobsIn(todo', w)
      BY SameNodes
    <2>2. Ahead' = Ahead
      BY <2>1 DEF Ahead
    <2>3. QED  BY <1>2, <2>1, <2>2 DEF WalkOK
  <1>3. QED  BY <1>1, <1>2

LEMMA WalkDelete ==
  ASSUME CInv, WalkOK, Delete
  PROVE  WalkOK'
  <1> DEFINE n == Head(todo).node
             t == Tail(todo)
  <1>1. UNCHANGED <<phase, doc, addr, cmd>> /\ todo # <<>> /\ Head(todo).do = "delete"
        /\ todo \in Seq(Jobs)
    BY DEF Delete, Doing, CInv
  <1>2. n \in Nodes /\ t \in Seq(Jobs) /\ 0 \notin Nodes
        /\ JobsIn(todo, "item") = JobsIn(t, "item") /\ JobsIn(todo, "child") = JobsIn(t, "child")
    <2>1. 0 \notin Nodes
      BY DEF Nodes
    <2>2. QED  BY <1>1, <2>1, FirstJob
  <1>3. JobsIn(todo', "item") = JobsIn(t, "item") /\ JobsIn(todo', "child") = JobsIn(t, "child")
    BY DeleteJobs
  <1>4. ASSUME phase = "handle" PROVE Orderly(todo')
    <2>1. Orderly(t)
      BY <1>1, <1>4, OrderlyHead DEF WalkOK
    <2> DEFINE a == Todo("delete", ChildOf(n))
               b == Todo("free", n)
               c == Todo("delete", NextOf(n))
               ab == a \o b
               abc == ab \o c
    <2>2. todo' = abc \o t
      BY DEF Delete
    <2>3. ChildOf(n) \in Nodes \cup {0} /\ NextOf(n) \in Nodes \cup {0}
      BY KidsAreNodes
    <2> HIDE DEF n, t
    <2>4. a \in Seq(Jobs) /\ b \in Seq(Jobs) /\ c \in Seq(Jobs)
      BY <1>2, <2>3, TodoType
    <2>5. Orderly(a) /\ Orderly(b) /\ Orderly(c)
      BY OrderlyTodo
    <2>6. /\ JobsIn(a, "item") = {} /\ JobsIn(a, "child") = {}
          /\ JobsIn(b, "item") = {} /\ JobsIn(b, "child") = {}
          /\ JobsIn(c, "item") = {} /\ JobsIn(c, "child") = {}
      <3>1. JobsIn(a, "item") = {} /\ JobsIn(a, "child") = {}
        BY <2>3, JobsOfTodo
      <3>2. JobsIn(b, "item") = {} /\ JobsIn(b, "child") = {}
        BY <1>2, JobsOfTodo
      <3>3. JobsIn(c, "item") = {} /\ JobsIn(c, "child") = {}
        BY <2>3, JobsOfTodo
      <3>4. QED  BY <3>1, <3>2, <3>3
    <2> HIDE DEF a, b, c
    <2>7. ab \in Seq(Jobs) /\ Orderly(ab) /\ JobsIn(ab, "item") = {} /\ JobsIn(ab, "child") = {}
      <3>1. ab \in Seq(Jobs) /\ Orderly(ab)
        BY <2>4, <2>5, <2>6, OrderlyJoin
      <3>2. JobsIn(ab, "item") = JobsIn(a, "item") \cup JobsIn(b, "item")
        BY <2>4, JobsOfJoin
      <3>3. JobsIn(ab, "child") = JobsIn(a, "child") \cup JobsIn(b, "child")
        BY <2>4, JobsOfJoin
      <3>4. QED  BY <2>6, <3>1, <3>2, <3>3
    <2> HIDE DEF ab
    <2>8. abc \in Seq(Jobs) /\ Orderly(abc) /\ JobsIn(abc, "item") = {} /\ JobsIn(abc, "child") = {}
      <3>1. abc \in Seq(Jobs) /\ Orderly(abc)
        BY <2>4, <2>5, <2>6, <2>7, OrderlyJoin
      <3>2. JobsIn(abc, "item") = JobsIn(ab, "item") \cup JobsIn(c, "item")
        BY <2>4, <2>7, JobsOfJoin
      <3>3. JobsIn(abc, "child") = JobsIn(ab, "child") \cup JobsIn(c, "child")
        BY <2>4, <2>7, JobsOfJoin
      <3>4. QED  BY <2>6, <2>7, <3>1, <3>2, <3>3
    <2> HIDE DEF abc
    <2>9. Orderly(abc \o t)
      BY <1>2, <2>1, <2>8, OrderlyJoin
    <2>10. QED  BY <2>2, <2>9
  <1>5. QED  BY <1>1, <1>2, <1>3, <1>4, WalkStays

LEMMA WalkOKNext == CInv /\ WalkOK /\ [RequestNext]_all => WalkOK'
  <1> SUFFICES ASSUME CInv, WalkOK, [RequestNext]_all PROVE WalkOK'
    OBVIOUS
  <1>1. CASE UNCHANGED request
    <2>1. UNCHANGED <<phase, doc, addr, cmd, todo>>
      BY <1>1 DEF request
    <2>2. QED  BY <2>1, WalkStays DEF WalkOK
  <1>2. CASE Arrive \/ NewItem \/ Execute
    <2>1. phase' \in {"none", "parse"} /\ cmd' = NoCmd
      BY <1>2 DEF Arrive, NewItem, Execute, WalkOK
    <2>2. QED  BY <2>1 DEF WalkOK
  <1>3. CASE Malformed \/ Linked
    <2>1. phase' \in {"parse", "unwind"} /\ cmd' = NoCmd
      BY <1>3 DEF Malformed, Linked, WalkOK
    <2>2. ASSUME phase' = "unwind" PROVE Ahead' = {}
      <3>1. UNCHANGED <<doc, addr>> /\ todo' = Todo("delete", IF addr = <<>> THEN 0 ELSE Root)
        BY <1>3, <2>2 DEF Malformed, Linked, AfterFailure
      <3>2. (IF addr = <<>> THEN 0 ELSE Root) \in Nodes \cup {0}
        BY DEF CInv, NodesOK, Nodes, Root
      <3>3. JobsIn(todo', "item") = {} /\ JobsIn(todo', "child") = {}
        BY <3>1, <3>2, JobsOfTodo
      <3>4. \A w : JobsIn(todo, w)' = JobsIn(todo', w)
        BY <3>1, SameNodes
      <3>5. QED  BY <3>3, <3>4 DEF Ahead
    <2>3. QED  BY <2>1, <2>2 DEF WalkOK
  <1>4. CASE FreeNode
    <2>1. UNCHANGED <<phase, doc, addr, cmd>> /\ todo # <<>> /\ Head(todo).do = "free"
          /\ todo \in Seq(Jobs) /\ todo' = Tail(todo)
      BY <1>4 DEF FreeNode, Doing, CInv
    <2>2. JobsIn(todo, "item") = JobsIn(todo', "item") /\ JobsIn(todo, "child") = JobsIn(todo', "child")
      BY <2>1, FirstJob
    <2>3. phase = "handle" => Orderly(todo')
      BY <2>1, OrderlyHead DEF WalkOK
    <2>4. QED  BY <2>1, <2>2, <2>3, WalkStays
  <1>5. CASE Done
    <2>1. UNCHANGED <<cmd, addr>> /\ phase' = "execute" /\ phase \in {"unwind", "handle"}
      BY <1>5 DEF Done
    <2>2. cmd \in [device : Nodes, value : Nodes] \cup {NoCmd}
      BY <2>1 DEF WalkOK, LastOf
    <2>3. QED  BY <2>1, <2>2 DEF WalkOK, Nodes
  <1>6. QED
    BY <1>1, <1>2, <1>3, <1>4, <1>5, WalkItem, WalkChild, WalkStarts, WalkDelete
       DEF RequestNext, RequestStep, PoolStep, OtherCall, all

LEMMA WalkOKInit == RequestInit => WalkOK
  BY DEF RequestInit, WalkOK

-----------------------------------------------------------------------------
\* A request executes the last of its commands and no other, whatever its
\* document and however often the list is walked that is already freed; a
\* request that could not be parsed executes none (main.cpp:165).
THEOREM RequestsLastWins == RequestSpec => LastWins
  <1> DEFINE Last == IF phase = "unwind" \/ Commands = {} THEN cmd = NoCmd
                     ELSE /\ cmd.value \in Commands /\ \A m \in Commands : m <= cmd.value
                          /\ Node(cmd.device).parent = Node(cmd.value).parent
  <1>1. CInv /\ WalkOK /\ [RequestNext]_all => [phase # "execute" /\ phase' = "execute" => Last]_all
    <2> SUFFICES ASSUME CInv, WalkOK, RequestNext, phase # "execute", phase' = "execute"
                 PROVE  Last
      OBVIOUS
    <2>1. Done
      BY DEF RequestNext, RequestStep, PoolStep, OtherCall, request, Arrive, NewItem, Linked,
             Malformed, Parsed, Item, Child, Delete, FreeNode, Execute
    <2>2. phase \in {"unwind", "handle"} /\ todo = <<>>
      BY <2>1 DEF Done
    <2>3. Ahead = {}
      BY <2>2 DEF Ahead, JobsIn
    <2>4. SeenTo(Ahead) = Commands
      BY <2>3 DEF SeenTo
    <2>5. QED  BY <2>2, <2>4 DEF WalkOK, LastOf
  <1>2. QED
    BY <1>1, CInvInit, CInvNext, WalkOKInit, WalkOKNext, PTL DEF RequestSpec, LastWins

\* The request's variables keep their types: what is left to do and the command
\* name nodes of the document that have been parsed.
THEOREM RequestsTypeCorrect == RequestSpec => []RequestTypeOK
  <1> DEFINE DocOK == /\ phase = "none" => doc = NoDoc
                      /\ making \in BOOLEAN
                      /\ others \subseteq [first : Units, len : 1..Blocks]
  <1>1. RequestInit => DocOK
    BY DEF RequestInit
  <1>2. CInv /\ DocOK /\ [RequestNext]_all => DocOK'
    <2> SUFFICES ASSUME CInv, DocOK, [RequestNext]_all PROVE DocOK'
      OBVIOUS
    <2>1. CASE Arrive
      <3>1. live \subseteq [first : Units, len : 1..Blocks]
        BY DEF CInv, PInv, TypeOK
      <3>2. phase' = "parse" /\ others' = live /\ making' = making
        BY <2>1 DEF Arrive
      <3>3. QED  BY <3>1, <3>2
    <2>2. CASE PoolStep \/ OtherCall \/ UNCHANGED all
      BY <2>2 DEF PoolStep, OtherCall, request, all
    <2>3. CASE Malformed \/ RequestStep
      BY <2>3 DEF RequestStep, NewItem, Linked, Malformed, Parsed, Item, Child, Delete, FreeNode,
                  Done, Execute, Doing
    <2>4. QED  BY <2>1, <2>2, <2>3 DEF RequestNext
  <1>3. CInv /\ WalkOK /\ DocOK => RequestTypeOK
    <2> SUFFICES ASSUME CInv, WalkOK, DocOK PROVE RequestTypeOK
      OBVIOUS
    <2>1. phase \in {"none", "parse", "unwind", "handle", "execute"}
      BY DEF CInv, CallOK
    <2>2. doc \in Documents \cup {NoDoc} /\ (doc = NoDoc <=> phase = "none")
          /\ addr \in Seq(Nat) /\ (doc # NoDoc => Len(addr) <= Len(doc.nodes))
      BY DocumentAssumption DEF CInv, NodesOK
    <2>3. cmd \in [device : Nodes, value : Nodes] \cup {NoCmd}
      BY <2>1 DEF WalkOK, LastOf
    <2>4. todo \in Seq([do : {"delete", "free", "item", "child"}, node : Nodes])
      BY DEF CInv, Jobs
    <2>5. QED  BY <2>1, <2>2, <2>3, <2>4 DEF RequestTypeOK
  <1> HIDE DEF DocOK
  <1>4. QED
    BY <1>1, <1>2, <1>3, CInvInit, CInvNext, WalkOKInit, WalkOKNext, PTL DEF RequestSpec
=============================================================================

---------------------------- MODULE CloudRequests ----------------------------
(***************************************************************************)
(* A request of the cloud in EC20_task: ThingsBoard::Getdatacheck parses   *)
(* it with cJSON, walks through its parameters, sets cmd and deletes what  *)
(* it has looked at, and at last the document.  cJSON's memory is the pool *)
(* of MemPool: its calls are calls there, one at a time.                   *)
(*                                                                         *)
(* cJSON_Delete deletes an item with everything below it and with all its  *)
(* next siblings, so most of a document is freed again and again, and it   *)
(* is walked through after it was freed.  That is harmless as long as      *)
(* nothing is allocated in between.                                        *)
(*                                                                         *)
(* A document is a sequence of nodes in the order in which they are parsed *)
(* (an item before what is below it); a node stands for the cJSON record   *)
(* and its strings, which are allocated and freed together.                *)
(***************************************************************************)
EXTENDS MemPool, Sequences

CONSTANTS
  Documents,  \* the requests: [command, nodes], a node is [parent, key, type, size]
  MaxOthers,  \* bound on the blocks in use between requests
  MaxHeld,    \* bound on the blocks in use when a request comes
  NoDoc,      \* no request is in progress
  NoCmd       \* cmd is empty

\* The parser is a recursive descent: an item is made before what is below it
\* and before its next siblings, and what is below it before those.
ASSUME DocumentAssumption ==
  /\ NoDoc \notin Documents
  /\ \A d \in Documents :
       /\ Len(d.nodes) \in Nat \ {0}
       /\ d.nodes[1].parent = 0
       /\ \A n \in 2 .. Len(d.nodes) : d.nodes[n].parent \in 1 .. (n - 1)
       /\ \A n \in 1 .. Len(d.nodes) :
            /\ d.nodes[n].size \in Sizes \ {0}
            /\ \A m \in 1 .. (n - 1) :
                 d.nodes[n].parent < m => d.nodes[n].parent <= d.nodes[m].parent

VARIABLES
  phase,      \* "none", "parse", "unwind" (the parse has failed), "handle", "execute"
  doc,        \* the request
  addr,       \* the addresses of the nodes parsed so far
  making,     \* a node's allocation is under way
  todo,       \* what the calls that have not returned have still to do
  cmd,        \* ThingsBoard::cmd
  others      \* history: the blocks in use when the request came

request == <<phase, doc, addr, making, todo, cmd, others>>
all     == <<vars, request>>

-----------------------------------------------------------------------------
Nodes  == 1 .. Len(addr)
Node(n) == doc.nodes[n]
First(S) == LET least == {m \in S : \A k \in S : m <= k}
            IN  IF least = {} THEN 0 ELSE CHOOSE m \in least : TRUE   \* 0: the null pointer

\* What is below n, linked as soon as it is allocated.  Faulty variant: linked
\* before.
KidsEarly(n) == {m \in 1 .. Len(doc.nodes) : Node(m).parent = n}
Kids(n) == {m \in Nodes : Node(m).parent = n}

\* The fields next and child.  Faulty variant: an item is its own successor.
NextSelf(n) == First({m \in Kids(Node(n).parent) : m >= n})
NextOf(n)   == First({m \in Kids(Node(n).parent) : m > n})
ChildOf(n)  == First(Kids(n))

\* cJSON_GetObjectItem.
ObjectItem(n, key) == First({m \in Kids(n) : Node(m).key = key})

Root == 1
Todo(what, n) == IF n = 0 THEN <<>> ELSE <<[do |-> what, node |-> n]>>

RequestTypeOK ==
  /\ phase \in {"none", "parse", "unwind", "handle", "execute"}
  /\ doc \in Documents \cup {NoDoc} /\ (doc = NoDoc <=> phase = "none")
  /\ addr \in Seq(Nat) /\ (doc # NoDoc => Len(addr) <= Len(doc.nodes))
  /\ making \in BOOLEAN
  /\ todo \in Seq([do : {"delete", "free", "item", "child"}, node : Nodes])
  /\ cmd \in [device : Nodes, value : Nodes] \cup {NoCmd}
  /\ others \subseteq [first : Units, len : 1..Blocks]

RequestInit ==
  /\ Init
  /\ phase = "none" /\ doc = NoDoc /\ addr = <<>> /\ making = FALSE
  /\ todo = <<>> /\ cmd = NoCmd /\ others = {}

-----------------------------------------------------------------------------
(* Parsing.                                                                *)

\* A request on the topic that the gateway listens to.
Arrive ==
  /\ phase = "none" /\ pc = "idle" /\ Cardinality(live) <= MaxHeld
  /\ phase' = "parse" /\ doc' \in Documents /\ addr' = <<>>
  /\ others' = live
  /\ UNCHANGED <<vars, making, todo, cmd>>

\* cJSON_New_Item.
NewItem ==
  /\ phase = "parse" /\ ~making /\ Len(addr) < Len(doc.nodes)
  /\ StartSearch(Node(Len(addr) + 1).size, Fail)
  /\ making' = TRUE
  /\ UNCHANGED <<phase, doc, addr, todo, cmd, others>>

\* What a parse that fails deletes; the faulty variant only returns.
AfterFailureNothing == <<>>
AfterFailure == Todo("delete", IF addr = <<>> THEN 0 ELSE Root)

\* The allocation has returned: the node is linked, or the parse fails.
Linked ==
  /\ phase = "parse" /\ making /\ pc = "idle"
  /\ making' = FALSE
  /\ IF ret # Fail
     THEN addr' = Append(addr, ret) /\ UNCHANGED <<phase, todo>>
     ELSE phase' = "unwind" /\ todo' = AfterFailure /\ UNCHANGED addr
  /\ UNCHANGED <<vars, doc, cmd, others>>

\* The text is no JSON behind the nodes parsed so far.
Malformed ==
  /\ phase = "parse" /\ ~making /\ addr # <<>>
  /\ phase' = "unwind" /\ todo' = AfterFailure
  /\ UNCHANGED <<vars, doc, addr, making, cmd, others>>

\* The document is complete: what Getdatacheck does with it.  Its last two
\* steps delete the method and the root.
Method == ObjectItem(Root, "method")
Params == ObjectItem(Root, "params")
Items  == IF /\ doc.command \in {"self", "lora", "485"}
             /\ Params # 0 /\ Node(Params).type = "array"
          THEN ChildOf(Params) ELSE 0

Parsed ==
  /\ phase = "parse" /\ ~making /\ Len(addr) = Len(doc.nodes)
  /\ phase' = "handle"
  /\ todo' = IF Method = 0 THEN Todo("delete", Root)
             ELSE Todo("item", Items)
                    \o Todo("delete", IF doc.command = "other" THEN 0 ELSE Params)
                    \o Todo("delete", Method) \o Todo("delete", Root)
  /\ UNCHANGED <<vars, doc, addr, making, cmd, others>>

-----------------------------------------------------------------------------
(* Working through todo.                                                   *)

Doing(what) ==
  phase \in {"unwind", "handle"} /\ pc = "idle" /\ todo # <<>> /\ Head(todo).do = what

\* A parameter of a request without bus, {"deviceId": .., "set": ..}, or the
\* start of the walk through one of the others.  The next one is reached through
\* the list again, which by then has been freed.
Item ==
  /\ Doing("item")
  /\ LET n == Head(todo).node
         device == ObjectItem(n, "deviceId")
         set    == ObjectItem(n, "set")
         rest   == Todo("delete", n) \o Todo("item", NextOf(n)) \o Tail(todo)
     IN  IF doc.command = "self"
         THEN IF device # 0 /\ set # 0
              THEN /\ cmd' = [device |-> device, value |-> set]
                   /\ todo' = Todo("delete", set) \o Todo("delete", device) \o rest
              ELSE cmd' = cmd /\ todo' = Todo("delete", device) \o rest
         ELSE cmd' = cmd /\ todo' = Todo("child", ChildOf(n)) \o rest
  /\ UNCHANGED <<vars, phase, doc, addr, making, others>>

\* The command a number makes; the faulty variant keeps the first one.
CommandFirst(device, n) == IF cmd = NoCmd THEN [device |-> device, value |-> n] ELSE cmd
Command(device, n) == [device |-> device, value |-> n]

\* One member of a parameter {"deviceId": .., "<port>": ..}.
Child ==
  /\ Doing("child")
  /\ LET n == Head(todo).node
         device == ObjectItem(Node(n).parent, "deviceId")
         rest   == Todo("child", NextOf(n)) \o Tail(todo)
     IN  IF Node(n).type = "number" /\ device # 0
         THEN cmd' = Command(device, n) /\ todo' = Todo("delete", device) \o rest
         ELSE cmd' = cmd /\ todo' = rest
  /\ UNCHANGED <<vars, phase, doc, addr, making, others>>

\* One round of cJSON_Delete's loop.
Delete ==
  /\ Doing("delete")
  /\ LET n == Head(todo).node
     IN  todo' = Todo("delete", ChildOf(n)) \o Todo("free", n)
                   \o Todo("delete", NextOf(n)) \o Tail(todo)
  /\ UNCHANGED <<vars, phase, doc, addr, making, cmd, others>>

FreeNode ==
  /\ Doing("free")
  /\ FreeAt(addr[Head(todo).node])
  /\ todo' = Tail(todo)
  /\ UNCHANGED <<phase, doc, addr, making, cmd, others>>

\* Getdatacheck returns.
Done ==
  /\ phase \in {"unwind", "handle"} /\ todo = <<>> /\ pc = "idle"
  /\ phase' = "execute"
  /\ UNCHANGED <<vars, doc, addr, making, todo, cmd, others>>

\* EC20_task executes the command, if there is one, and clears it.
Execute ==
  /\ phase = "execute"
  /\ phase' = "none" /\ cmd' = NoCmd /\ doc' = NoDoc /\ addr' = <<>> /\ others' = {}
  /\ UNCHANGED <<vars, making, todo>>

-----------------------------------------------------------------------------
\* A call of mymalloc, myrealloc or myfree on its way.
PoolStep == (Scan \/ GiveUp \/ Mark \/ HandOut \/ Clear \/ Freed) /\ UNCHANGED request

\* Other calls: the requests' task is the only one that uses the pool, so they
\* come between requests.  Faulty variant: another task uses the pool too.
AnyTime == TRUE
BetweenRequests == phase = "none"
OtherCall ==
  /\ BetweenRequests
  /\ \/ Initialise \/ Realloc \/ Free \/ FreeOutside
     \/ Cardinality(live) < MaxOthers /\ Malloc
  /\ UNCHANGED request

RequestStep == NewItem \/ Linked \/ Parsed \/ Item \/ Child \/ Delete \/ FreeNode \/ Done \/ Execute

RequestNext == PoolStep \/ OtherCall \/ Arrive \/ Malformed \/ RequestStep

\* EC20_task has the highest priority: what it has begun goes on.
RequestSpec == RequestInit /\ [][RequestNext]_all /\ WF_all(PoolStep \/ RequestStep)

-----------------------------------------------------------------------------
\* Every call that requests make of the pool is one the pool is proved for:
\* cJSON frees nothing but blocks and pointers that were freed since the last
\* block was handed out, however often it comes by (cJSON.c:88-100).
WithinContract == Spec

\* When a request is over, however it ended, the pool is as it was before: no
\* node stays allocated and nobody else's block was freed (ThingsBoard.cpp:95-200).
RequestFreesAll ==
  [][phase # "execute" /\ phase' = "execute" => live' = others]_all

\* The parameters of the request that make a command, and the last of them: the
\* one EC20_task executes for the whole request, which it knows nothing else of
\* (main.cpp:165).  A request that could not be parsed makes none.
Commands ==
  IF Method = 0 \/ Items = 0 THEN {}
  ELSE UNION {IF doc.command = "self"
              THEN {ObjectItem(n, "set")} \ {0}
              ELSE {m \in Kids(n) : Node(m).type = "number"} :
                n \in {k \in Kids(Params) : ObjectItem(k, "deviceId") # 0}}
LastWins ==
  [][phase # "execute" /\ phase' = "execute" =>
       IF phase = "unwind" \/ Commands = {} THEN cmd = NoCmd
       ELSE /\ cmd.value \in Commands /\ \A m \in Commands : m <= cmd.value
            /\ Node(cmd.device).parent = Node(cmd.value).parent]_all

\* Every request comes to an end: cJSON_Delete and the walk over lists that are
\* already freed terminate.
RequestEnds == phase # "none" ~> phase = "none"
=============================================================================

# STM32F407 gateway: TLA+ models, checks and proofs

The program is an IoT gateway on an STM32F407 under FreeRTOS. It takes commands
from a debug console and, through an EC20 4G modem and MQTT, from a ThingsBoard
server; it drives slave devices over two field buses (LoRa through a WH-L101
module, RS485 with Modbus), and it keeps its settings and the description of
its devices in an EEPROM.

The repository has no README and no tests. Its comments (GBK encoded), the
console's help text and its replies are what documents it; where a check refers
to what the program promises, it refers to one of those lines.

Contents: [1 the system](#1-the-system), [2 the models](#2-the-models),
[3 the checks](#3-the-checks), [4 the proofs](#4-the-proofs),
[5 disagreements found](#5-disagreements-found),
[6 what is not modelled](#6-what-is-not-modelled), [7 plan](#7-plan).

## 1 The system

`main` (USER/Src/main.cpp) sets up the drivers, reads the settings
(`Gateway::inital`), replays the saved commands (`Gateway::run_cmd`) and starts
two tasks:

* `LOGIC_task` (priority 2) reads lines from the debug UART and hands them to
  `Gateway::Command`;
* `EC20_task` (priority 3) starts the modem, connects to the server, and then
  polls: is the link still there, is there a request? A request becomes a
  line for `Gateway::Command` too.

Three kinds of interrupt feed them: a UART's receive interrupt, which either
fills a fifo or calls a call-back with each byte, and the 10 ms timers that the
bus hosts and the modem driver hang their frame detection on. There are no
queues, semaphores or critical sections between any of these: all is shared
variables.

| component | state | operations | interacts with |
|---|---|---|---|
| Gateway (SOFTWARE/Src/Gateway.cpp) | server, client, user, password, `cmd_length`, `cmd_len` | `Command` (output, read, set server, set mqtt, save, init, reboot, lora send, 485 send, device commands), `inital`, `save_config`, `save_cmd`, `read_next_cmd`, `run_cmd`, `link_thingsBoard` | called by both tasks; calls the buses, the tree, the EEPROM, the modem |
| write queues (WH_COM, Communication) | `queue_flag`, `value`, register pointers | `data_set`, `data_sync` | Gateway above, bus host below |
| bus hosts (WH_L101, modbus over RS485) | RS485's driver-enable pin, `slave_id`, `send_flag`, `modbus_send_data`, `modbus_receive_data`, `reveive_len`, `freetime_t` | `modbus_xx_send`, `modbus_wait_rec`, `Callback` (timer), `receive_data_channel` | task writes and waits, interrupts receive and decode |
| EC20 driver | `CallBack_flag`, `init_flag`, a static in `Call_back_set`, `getstring`, `Link_s`, `message` | AT commands (`sendcom`), `Register`, `mqttopen/conn/sub`, `Receive_data`, `GetRxbuf` | reroutes its UART between fifo and call-back |
| ThingsBoard | `cmd` | `Getdatacheck` | cJSON and through it the pool; EC20's mailbox |
| Device tree (Device_Node_Def) | lists of buses, devices, memory nodes, and their counters | `add_node`, `del_node`, `add_mem`, `del_mem` | Gateway; rebuilt from the log |
| EEPROM (FM24Cxx, Storage_BASE) | bytes | `write` (byte, 10 ms), `read`, `writestr` | Gateway |
| memory pools (SYSTEM/Src/malloc.c) | allocation tables | `mymalloc`, `myfree`, `myrealloc` | cJSON |
| UART driver | fifo, call-back | `extern_upset` (interrupt), `read_data`, `write` | everything that is serial |
| bus locks (HARD_BASE) | `lock_flag` | `Queue_star`, `Queue_end` | IIC, SPI |
| serial flash (W25QXX) | the chip, `W25QXX_BUF`, two locks | `write`, `read`, `Erase_Sector`, `Write_Page` | the FAT glue above, SPI below; `main.cpp` makes no object of it |

What is hard in it, and what makes each part correct:

* **Two tasks, one bus.** The host object, its queue and its buffers are shared
  without a lock, so commands interleave at every blocking point and at every
  preemption. Correct would be: a command's frame carries its own identifier
  and value; "ok" means that the slave was written; no command waits for ever;
  `send_flag` is never left up.
* **Answers and timeouts.** Answers are lost, damaged and late. An answer has
  nothing that says which request it answers.
* **Restart and power loss.** Settings and log are written byte by byte with
  10 ms between bytes. Correct would be: boot ends whatever it finds; what was
  stored is read back; the replay rebuilds the tree.
* **A UART with two readers.** `sendcom` switches the modem's bytes away from
  the call-back that looks for requests and for the notice of a lost link, and
  must switch back in every path, at every reconnection.
* **Mailboxes of one.** A request is copied and then cleared while an interrupt
  may store the next.
* **Table arithmetic.** The pools' search counts down and the JSON code frees
  the same pointers again and again.
* **Documents that are deleted while they are walked.** `Getdatacheck` deletes
  parameters of a request and goes on through links of records that it has
  freed. Correct would be: nothing is freed that belongs to somebody else,
  nothing stays allocated, also if memory runs out in the middle, the request's
  last command is executed, and the walk ends.
* **A fifo without a lock.** `read_data` searches it twice, copies and erases it
  while the interrupt appends and, when it is full, drops the oldest byte.
  Correct would be: each command executed is a line as it was typed.
* **Erase before write.** Bytes of a sector that a write was not given live only
  in RAM between the erase and the last page. Correct would be: a write
  changes what it was given, and a power failure spoils only sectors it
  touches. The locks know no owner, and `write` takes locks that
  `Erase_Sector` takes again.

`PROJECT.json` lists each hazard with its line and the properties aimed at it.

## 2 The models

| module | lines of code it stands for | state and actions |
|---|---|---|
| `BusHost` | Gateway.cpp "lora/485 send", WH_COM, Communication, WH_L101, modbus, RS485, UART/timer interrupts | program counter per task; one action per step that shared state can be seen between |
| `MemPool` | malloc.c | one pool, loops one table entry at a time |
| `PoolSpec` | what malloc.c promises | abstract: a set of disjoint blocks |
| `CloudRequests` | ThingsBoard::Getdatacheck, cJSON's item handling, EC20_task's use of `cmd` | extends `MemPool`: every allocation and every free of a request is a call of the pool |
| `DeviceTree` | Device_Node_Def | operators: accepted or not, tree after a command |
| `GatewayStore` | Gateway.cpp settings and log, FM24Cxx, boot | extends `DeviceTree`; byte writes, power failures |
| `Modem` | EC20.cpp, EC20_task, the UART's two ways | task, two interrupts, modem, broker |
| `Console` | USART.cpp's fifo, `available`, `read_data`; LOGIC_task | interrupt and task, read_data step by step |
| `LineSource` | what a console promises | abstract: bytes typed, lines handed over whole and in order |
| `FlashWrite` | W25QXX.cpp's `write` and what it calls, the locks of HARD_BASE | one write, sector by sector and page by page; power failures |
| `ByteStore` | what a storage promises | abstract: a write changes the bytes it names |
| `MC*` | values for the constants; `MCDrivers` puts `FlashWrite` and `Console` into one run | |
| `BusHostProofs`, `MemPoolProofs`, `CloudRequestsProofs`, `ModemProofs`, `ConsoleProofs`, `FlashProofs`, `StoreProofs` | theorems; `LeastElement` is a lemma two of them use | |

Which modules compose which: `GatewayStore` extends `DeviceTree`, whose
operators the console's commands and the replay apply to one tree;
`CloudRequests` extends `MemPool` and drives its actions, so that one behaviour
has both the document's walk and the table's loops in it. `Console` and
`FlashWrite` share nothing and are checked in one run only because both are
small: `MCDrivers`' variable `unit` says which of the two runs.

### BusHost

One constant `Lora` chooses between the two stacks, which are near copies:
`WH_COM` frees a queue slot after the request, `Communication` before it;
`modbus::Host_16_uncoding` judges a CRC with bytes from beyond the answer, so
that for RS485 an answer's acceptance is a free choice; RS485 writes through
`RS485::write`. A command runs through the labels in the order of the code:
`SetId` (one byte of the identifier per step), `FindFree`, `Fill`, `Flag`
(`data_set`), `PickUsed`, `Take` (`data_sync`), `CodeHead`, `CodeBody`
(`Host_16_coding`), `CopyFrame`, on RS485 `Enable` and `Before` (the driver pin
goes up, a delay), `WritePart` (the UART), on RS485 `After` (a delay, the pin
goes down), `Raise` (`send_flag` is raised only after the frame is out), `Poll`,
`Delay`, `Check`, `Timeout`, `Release`. `Scheduled` is FreeRTOS's rule: a task
runs only while every task of higher priority is blocked, and a task is blocked
only in `delay_ms`, which is in the wait loop and around RS485's write, and
between commands (`Blocked`). What is written while the other task has let the
driver pin go reaches nobody; the pin does not gate the receiver.

A command names its slave by a word of hexadecimal digits (`Words`). `Meant` is
what the word says, `Parsed` what the branch of `Gateway::Command` makes of it:
`LoraId` joins the digits in pairs, `Rs485Id` has of two digits only the first, in the
upper half of the byte. `done` is kept by what is meant: a task is in it when the
slave its word names has executed its write. `ReadRight` are the words for which
both agree; the others are disagreement 6 in section 5.

Abstractions. A frame has two parts (identifier and function; payload and CRC),
which is enough for it to be torn, truncated and to arrive piecemeal. Bytes of
identifiers are kept, since `set_id` can be interrupted between two of them. An
answer to a write does not repeat the value: two answers of one slave are equal
bytes, and the `for` field that tells them apart is read by properties only.
Interrupts are atomic. The data cache that is filled from answers and never
read back, and the single-register write (function 06), which has no caller, are
left out. `modbus_receive_data` has no limit in the code; `MaxRx` bounds it.

### MemPool, PoolSpec

`Scan`, `Mark` and `Clear` take one entry of the table per step: what the loops
keep is what the promises rest on. `myrealloc` is a search whose success goes on
to free the old block. `Free` is called with blocks in use and, as
`Getdatacheck` does when it deletes the items of a document and then the
document, with pointers that were freed since the last block was handed out. The
pool has one caller (EC20_task, through cJSON). Contents are left out.

`PoolSpec` is the promise: `Allocate` hands out a block disjoint from those in
use, `Free` takes one away. The refinement maps `live` to itself; everything the
loops do between is a stutter.

### CloudRequests

A document is a sequence of nodes in the order cJSON parses them; a node is a
cJSON record with its strings. `NewItem` calls the pool and `Linked` is what
follows the call's return, so that memory can run out at every node; `Malformed`
ends a text that is no JSON after any node. A failed parse deletes what there is
(`unwind`). `Parsed` lays out what Getdatacheck does with a document: walk
through the items of "params", then delete "params", "method" and the root.
`todo` is the stack of calls that have not returned, one round of
`cJSON_Delete`'s loop or of one of the walks per step: `Delete` puts the children,
the record and the next sibling on it, exactly in the code's order, and
`FreeNode` calls the pool with an address that may have been freed before. Links
are read from records that are freed: the model may do so because
nothing writes to them in between, which is what `WithinContract` shows (a
free between two allocations of the pool changes no block that is in use).

Only two things of a node matter, which list it is in and whether its key is one
that Getdatacheck looks for; strings and numbers are left out. `OtherCall` are
calls for anything else, which come between requests because EC20_task is the
only task that uses the pool.

### Console, LineSource

`Receive` is the interrupt; it may come between any two steps of the task.
`Available`, `Find`, `FindAgain`, `Substr`, `Erase`, `Shorten` and `Execute` are
LOGIC_task's round in the order of the code; `erase` is two steps, as the
library's implementation has it, because a byte in between is lost. If the
second search finds nothing, since the fifo overflowed meanwhile, `npos + 2` is
1 and one byte is taken for the line, as in the code. `spoilt` is a history
variable: a byte came to a full fifo, or between the two steps of `erase`; it
falls again when the fifo is next empty after a read. The refinement maps what is
unread to the fifo, to what follows the line once it has been copied, and to
what `Shorten` will leave in between.

### FlashWrite, ByteStore

A call's bytes are taken sector by sector: `ReadSector`, `Check` (must a byte be
erased?), `EraseSector` with the merge in `W25QXX_BUF`, `ProgramPage` for each
page, `NextSector`. `Programmed` is the chip: programming clears bits, so that a
byte that was not erased is spoilt unless it keeps its value, and a page program
that runs over its page's end goes on at its beginning (`PageCell`). A power
failure leaves each byte of the sector being erased or the page being programmed
old, new or spoilt (`Afterwards`). `Queue_star` sets both flags, `ReadLocks` and
`Queue_end` clear them, and `EraseSector` spins while one is set. Not modelled:
the chip's status register and `Wait_Busy`, and calls past the chip's end.

### DeviceTree, GatewayStore

A command is its sequence of words, a device word stands for name and
identifier, a memory word for name, address, type and factor: only names decide
what a command does. `Accepted` is the condition under which the reply contains
"success", which is what `Gateway::Command` looks at before it saves the line.

The EEPROM is a function from cell to value. Gateway.h's layout is kept with
smaller fields: `NameMax` for 36 characters, `LineMax` for the 64 bytes that
`read_next_cmd` reads, `Base` for 256, one cell for a word. The chip decodes an
address modulo its `Size`, and its last cell holds the mark that `FM24Cxx::check`
looks for and renews (`Check`). A command's writes are a list that `WriteByte`
works off; `PowerFails` may come between any two. A stored length that nobody
wrote reads as 255 (`Erased`). `Longer` is `cmd_length += len` in 16 bits: nothing
in `save_cmd` keeps the log within the chip or the length from wrapping around,
and nothing in the model does. After a power failure in the first boot the names can
be believed with a log of 65535 bytes; the next line then wraps the length and
is written over it.

`Boot` decides between the stored settings and the defaults. A round of the
replay hands a line, or the rest of one, to the whole of `Gateway::Command`:
`RunDevice`, `RunSet` (in RAM only, since `save` is false there), and `RunSave`,
`RunReboot`, `RunInit`, which do not look at `save`. A device may have such a name,
and a replay that stands in the middle of its line then executes it. `Stands` is
where it goes on, with both of the code's additions to `cmd_len`; `RunEnds` is
the log's end or 64 cells without an end of line. `Words` is what operator>> sees
of a line.

History variables. `torn`: a power failure left a piece of a line in the log's
cells; it falls only with the first format of a memory no line was written to,
since an emptied log keeps its cells and the replay's double steps can carry it
into them. `beyond`: the log has been longer than the cells between the settings and
the mark. `obeyed`: the reserved words that replays have executed. The
properties that stop holding there say so: once the log has outgrown its cells,
lines lie over the mark and the settings (`NamesStored`, `LogKept`,
`NothingInvented`, `TornSaveKeepsEarlier` speak of `~beyond`); a "set" in a
replay changes names in RAM only (`NamesStored`); a "reboot" in a replay is come
upon again at every boot (`BootEnds`); and a double step that lands within a line's
length of the log's last cell reads on into the mark and, around the chip, the
settings (`NothingInvented`). `TypeOK` and `TreeConsistent` have no exception.

### Modem

What the modem sends is a sequence of parts: "OK", an answer to one AT command
that nothing else can be taken for, the notice `+QMTSTAT: 1,1`, or half of a
request, because the switch of the UART or a pause can tear a request. `route`
is who gets a byte. `SendCom` and `Poll` are `sendcom` with `Call_back_set`
before and after it; `flag` is that function's static variable. `Accepted` is what
`sendcom` is told to look for: "OK" for `AT`, the set-up commands in `OkSteps` and
`AT+QMTSUB`, so that a late "OK" to one of them, or the "OK" that precedes another
command's answer, serves whichever of them waits. `Proceed` is what follows a
command: `Register` repeats a failed step, `link_thingsBoard` ignores failures,
`mqttopen` sets `Link_s`. `TimerISR` counts quiet ticks and, at `FreeTime`, does
what `Receive_data` does: the first request found goes to the mailbox, the notice
lowers `Link_s`, the buffer is emptied. The pattern for a request ends at the last
quote received, so that the beginning of a torn one may match by itself (`Torn`):
`Received` then may put `Cut` into the mailbox, over a request that waits there.
`CopyRequest` and `ClearRequest` are the two halves of `GetRxbuf`; a document
that was cut short is not closed, its parse fails, and no command comes of it.

The modem may carry out a command or not, answer late, or not at all; a command
it gets while busy may be ignored. Refusals are not looked at by the code and
are no parts. `Poll`'s 100 ms delay outlasts the quiet ticks (50 ms), which is
the guard `timer => getstring = <<>>`. The fifo is kept as the set of parts that
somebody looks for.

## 3 The checks

All runs finish in minutes on two workers. Deadlock is checked except in the two
modem runs, where the modem may stay silent for good.

| run | question | result |
|---|---|---|
| `lora_single` | One task, any number of LoRa commands to two slaves, with lost, damaged and late answers and two queue slots | `TypeOK`, `FrameIsCommand`, `SuccessIsAnswered`, `SuccessIsGenuine`, `QueueDrains` hold |
| `rs485_shared` | Both tasks, two RS485 commands, one of each task or two of one, that overlap at every delay and wait | `FlagHasWaiter`, `FrameIsCommand`, `SuccessIsGenuine` hold, and every command ends (`CommandEnds`) |
| `rs485_two_digits` | Is the slave set that an RS485 command names in two digits? | no, see 5 |
| `lora_late_answer` | Is every "ok" a write that happened? | no, see 5 |
| `lora_overlap` | Is it so for commands begun on a quiet, noiseless line? | no, when two tasks overlap |
| `pool` | Every sequence of calls on a pool, among them those of whole requests from the cloud, with memory running out or the text ending at any node | `TypeOK`, `NoOverlap`, `TableExact`, `NoFalseRefusal`, `RequestTypeOK` hold, the pool implements `PoolSpec` (`Promise`), requests call it as `MemPool` allows (`WithinContract`), leave nothing behind (`RequestFreesAll`), execute their last command (`LastWins`) and end (`RequestEnds`) |
| `drivers` | Writes to a flash over three sectors with a power failure at any point; a console whose fifo overflows, with a byte between any two steps | `FlashTypeOK`, `StoresBytes` (implements `ByteStore`), `WriteEnds`; `ConsoleTypeOK`, `ServesLines` (implements `LineSource`), `LineServed` hold |
| `store` | Device commands, settings in three forms, restarts, a power failure between any two bytes, the first boot's too; a log that outgrows its cells; replays of whatever a line or its rest says | `TypeOK`, `NamesStored`, `LogKept`, `NothingInvented`, `TreeConsistent`, `TornSaveKeepsEarlier`, `BootEnds` hold |
| `store_replay` | Does the replay rebuild the tree? | no, see 5 |
| `store_longest_name` | Is every accepted name read back? | no, see 5 |
| `modem` | Two lost links, two requests, torn or whole, a command that times out, late answers, among them an "OK" that serves another command | `TypeOK`, `CallbackOn`, `NotSpliced`, `LossAccounted`, `InOrderOnce`, `LossNoticed`, `RequestServed` hold |
| `modem_dead_link` | Is a lost link always noticed? | no, see 5 |

`FrameIsCommand`, `SuccessIsAnswered` and `SuccessIsGenuine` speak of commands
that have the bus to themselves (`alone`), the last one of those that also began
with no earlier answer about (`quiet`). The two LoRa violation runs show that neither
condition can be dropped, and `rs485_two_digits` that the exception of words that
are read wrongly (`ReadRight`) cannot.

Bounds, and why they are enough:

* BusHost: two slaves whose identifiers differ in every byte (a torn one is
  nobody's); two slots, so that a wrong slot can be taken; two or three
  answer parts in the air and in the buffer, so that one answer can be whole
  while the next is partial; one or two polls and quiet ticks, so that answers
  come before, between and after them. With one task commands are unbounded
  (`MaxCmds = 0`); with two tasks on RS485 two commands meet at every pair of
  steps that the delays allow, or follow one another in one task; on LoRa three
  let one task be overtaken by two commands of the other. The theorems of section 4
  hold for any number of tasks and commands. On RS485 one slave is named in two
  digits that are read rightly (10), the other in two that are not (11).
* MemPool and CloudRequests: eleven units of two bytes; sizes of nothing, less
  than, exactly and more than a unit, the whole pool and more than it; two blocks
  of others (`MaxOthers`), one of which may be held over a request (`MaxHeld`),
  leave gaps on both sides. Six documents: parameters with one and with both
  keys, two parameters of which both make commands, members before and after
  "deviceId", "params" that is no array, a method nobody knows and none. The
  largest has nine nodes and just fits into the empty pool, so that a held block
  makes memory run out in the middle.
* FlashWrite: three sectors of two pages of two bytes; five writes: over two
  sectors from the last byte of one on, one byte, a whole sector, a write with
  erased bytes in it that ends in the next sector, and an empty one; one power failure.
* Console: a fifo of five and seven bytes typed out of an alphabet of CR, LF
  and two others: two lines fit, with an empty one among them, and the fifo can
  overflow at every step of `read_data`.
* GatewayStore: one bus, devices that have the names of reserved words, memory nodes
  that have the names of what follows "set"; lines of five to nine cells, among
  them lines with blanks in front, so that a double step lands behind the blanks
  and the rest is a command, and lines longer than `LineMax`. `Base` is 8 and
  the chip has 32 cells, of which 18 are the log's: three saved lines cross
  multiples of `Base`, outgrow the cells, and wrap the length around when a power
  failure has left it at its highest. Names of one, of the longest believed and
  of the longest accepted length; one power failure at any byte, one command that
  writes settings.
* Modem: two Register steps stand for seven (each is the same loop), one that
  looks for an answer of its own and one for which "OK" is enough, as for `init`
  before and for `AT+QMTSUB` after it; one further poll for fifty; four parts in
  the air let a notice stand between the halves of requests; one failure gives one
  late answer, which another command may take; two losses exercise reconnection and
  with it `Call_back_set` entered with its variable already set.

Fairness, and what justifies it:

* BusHost: strong fairness of each task's steps. `EC20_task` blocks for at
  least 100 ms in each round and 10 ms in each poll, so `LOGIC_task` becomes
  enabled again and again, and FreeRTOS runs it then. Interrupts and slaves
  are not assumed to do anything.
* GatewayStore: weak fairness of boot and byte writes: before the scheduler
  starts nothing else runs. The rest may never happen. (Power failures are
  bounded, without which no boot need ever end.)
* CloudRequests: weak fairness of what EC20_task has begun, which has the highest
  priority. No request need ever come.
* FlashWrite: weak fairness of the write that was begun: the calling task goes on,
  unless it waits for itself, which is what `WriteEnds` excludes.
* Console: weak fairness of LOGIC_task's steps: EC20_task, above it, sleeps in
  every round. Nothing is assumed of the one who types.
* Modem: weak fairness of the task, which has the highest priority, and of the
  two interrupts. Nothing is assumed of modem, network and broker: they may fall silent.

Every property of a passing run has a mutant in `PROJECT.json`: a definition of
the model changed as a bug in that code would change it, for which the run finds
the property violated. The changed forms stand in the modules, next to what
they replace, and are called faulty variants.

## 4 The proofs

TLAPS proves, for every value of the constants that the modules' assumptions
admit (`BusAssumption`, `WordAssumption`, `PoolAssumption`, `DocumentAssumption`,
`ModemAssumption`, `ConsoleAssumption`, `FlashAssumption`, `RequestAssumption`,
`TreeAssumption`, `StoreAssumption`):

| theorem | property |
|---|---|
| `BusHostProofs!TypeCorrect` | `TypeOK` |
| `BusHostProofs!FlagNeverOrphaned` | `FlagHasWaiter` |
| `BusHostProofs!FrameIsAlwaysCommand` | `FrameIsCommand` |
| `BusHostProofs!SuccessIsAlwaysAnswered` | `SuccessIsAnswered` |
| `BusHostProofs!SuccessIsAlwaysGenuine` | `SuccessIsGenuine` |
| `BusHostProofs!QueueAlwaysDrains` | `QueueDrains` (with one task) |
| `MemPoolProofs!PoolTypeCorrect` | `TypeOK` |
| `MemPoolProofs!PoolNeverOverlaps` | `NoOverlap` |
| `MemPoolProofs!PoolTableExact` | `TableExact` |
| `MemPoolProofs!PoolNeverRefusesFalsely` | `NoFalseRefusal` |
| `MemPoolProofs!PoolKeepsPromise` | `Promise` |
| `CloudRequestsProofs!RequestsWithinContract` | `WithinContract` |
| `CloudRequestsProofs!RequestsKeepPromise` | `NoOverlap`, `TableExact`, `Promise` in the composition |
| `CloudRequestsProofs!RequestsTypeCorrect` | `RequestTypeOK` |
| `CloudRequestsProofs!RequestsFreeAll` | `RequestFreesAll` |
| `CloudRequestsProofs!RequestsLastWins` | `LastWins` |
| `ModemProofs!ModemTypeCorrect` | `TypeOK` |
| `ModemProofs!CallbackAlwaysOn` | `CallbackOn` |
| `ModemProofs!NeverSpliced` | `NotSpliced` |
| `ModemProofs!RequestsInOrder` | `InOrderOnce` |
| `ModemProofs!LossesAccounted` | `LossAccounted` |
| `ConsoleProofs!ConsoleTypes` | `ConsoleTypeOK` |
| `ConsoleProofs!ConsoleServesLines` | `ServesLines` |
| `FlashProofs!FlashTypes` | `FlashTypeOK` |
| `FlashProofs!FlashStoresBytes` | `StoresBytes` |
| `StoreProofs!TreeStaysConsistent` | `TreeConsistent` |
| `StoreProofs!StoreTypes` | `TypeOK` |
| `StoreProofs!LogAlwaysKept` | `LogKept` |
| `StoreProofs!NamesAlwaysStored` | `NamesStored` |
| `StoreProofs!TornSavesKeepEarlier` | `TornSaveKeepsEarlier` |
| `StoreProofs!NothingMadeUp` | `NothingInvented` |

These are all the safety and action properties that the passing runs check.
What the assumptions say beyond the constants' types: of a document, that its
nodes are in the order of cJSON's recursive descent, each behind the one it is
below and what is below it before its next sibling (cJSON.c makes an item, then
its child, then the next); of the log's cells, that CR is not LF, that neither
is a word and neither is what an erased cell reads as (0xFF), and that the chip's
size divides the range of a 16-bit length (32768 and 65536); of an identifier's
word, that it has two digits for each byte on LoRa and one or two on RS485, the
lengths `Gateway::Command` insists on.

**BusHost.** `TypeOK` is not inductive: that `SetId` indexes within the
identifier, that a slot number is one, that `sendbuf` is not empty when it is
appended to and `out` not when its head is taken, depend on where the task
stands. `PointOK` says for each label what it knows of its task's variables;
`TInv == TypeOK /\ \A t : PointOK(t)` is inductive. `FlagHasWaiter` is inductive
relative to `TInv`. For the commands that have the bus to themselves the
argument has two layers. `Solitary`: as long as a command is `alone`, every
other task is idle, so whoever moves is that command. Then `AloneOK` follows it:
the queue holds exactly its value (`AloneQueue`), the identifier, buffer and
frame are its own as far as they are written (`AloneFrame`), a lowered
`send_flag` has an answer behind it (`AloneAnswered`), and on a quiet line no
answer can be there unless the slave has executed the write (`QuietAnswers`). What
ties the last two to the command is that the identifier read from the word is the one
it means, which holds for `LoraId` and for the words in `ReadRight` only.
The last is what makes "ok" true, and needs `quiet`, because without it an older
answer is as good. `QueueDrains` needs less: with one task every command is
alone, and the only slot in use is the one it filled and releases.

**MemPool.** `PInv` describes the table at every point of every loop: while
searching, that the `cmemb` entries above `offset` are free, the one above them
is used, and no long enough run starts higher (`ScanOK`); while marking, that
the found run is free or marked and everything else exact (`MarkOK`); while
clearing, that it is one block in use, or nothing, that is being cleared
(`ClearOK`). Between "mark"s, a pointer that was freed since the last block was
handed out points at a free entry: therefore a repeated free clears nothing.
The refinement shows `HandOut` without an old block to be `Allocate`, `Freed` to be
`Free` or a stutter, and everything else a stutter.

**CloudRequests.** The pool's theorems speak of `Spec`, in which `Free` may be
called only with blocks in use and pointers freed since the last block was
handed out. `CInv` shows that requests keep to that: while a document is parsed
every node is in use (`Handed`); from the first deletion on, every node is in
use or was freed without anything having been handed out since (`Known`), since
neither `unwind` nor `handle` allocates. From this and `PInv` every step of
`RequestSpec` is a step of `Spec` or leaves the pool alone.

`RequestFreesAll` needs to know what the deletions in `todo` will still come to,
which is a recursion over the document. The invariant goes round it: a set of
nodes is `Swept` when it holds what each deletion in `todo` starts with (its node
and the siblings behind) and, with a node, those below it. `FreeOK` says that every
node still in use lies in *every* such set, or has a free of its own in `todo`, or
is being cleared. A deletion that is taken apart leaves the same sets swept;
a free takes its node out of use; that `Getdatacheck` deletes some nodes twice does
not matter to it, because it speaks only of nodes in use. When `todo` is empty, the
empty set is swept, so nothing is in use but what was before the request:
`OwnOK` says that each block in use is a node's or one of `others`, never both.

`LastWins` follows the walk through "params". `WalkOK` says that `todo` has at most
one item to go on with and before it one child (`Orderly`), that these name an
item of "params" and a member of the item before it, and that `cmd` is the last of the
commands before all of them (`LastOf(SeenTo(Ahead))`). That the walk meets the
commands in the order of the document, in two loops, for items and for members,
is where `DocumentAssumption`'s order is used (`NodeOrder`). The walk goes on over
records that it has freed, whose links still stand because nothing is handed out
before the request is over (`Known`). `RequestTypeOK` follows from both invariants.

**Modem.** Five invariants, each on top of the ones before. `TInv` adds to the
types where the task can be with which step and what parts are on their way.
`SInv` says what the two flags of `Call_back_set` hold: inside `sendcom`'s loop
the UART is at the fifo and the static variable remembers that it belongs to the
call-back; outside, it is back (`SwitchOK`), and the link steps of `Register` lie
behind every point at which the task serves the link (`BroughtUp`). `NInv` says
that neighbours fit: wherever one request begins and the next part ends one, it
is the same one, in the air, in `getstring` and where the two meet (`Joined`), and
that a reply of the modem, one part or two, disturbs none of it (`Replies`).
The last is preserved by the switch because `getstring` is empty again before
`sendcom` switches back. `OInv` follows the numbers of requests from the air
through `getstring`, the mailbox, `str` and `cmd` to the last one executed: what
is still on its way was made later than anything ahead of it; a text that was cut
short has no number and goes no further than `str` (`Whole`). `AInv` follows the
notice of a lost link: behind every answer to `AT+QMTOPEN` on its way comes the
notice if the broker has closed the connection meanwhile (`Followed`), so that
when `Link_s` is raised on a dead link the notice is in the fifo, in the air or
in `getstring`, and if a command's `sendcom` takes it, `eaten` says so.

**Console.** `Found` is what read_data knows while nothing is spoilt: the end it
found first is still the first end (`EndKept`: a byte behind it changes
nothing), and what it copied is the fifo up to there. From that, `Substr` hands
over the first line, what `Erase` and `Shorten` leave is what stayed unread
(`Moved`, `PartAppended`), and a step that spoils is `Fault`.

**FlashWrite.** `Target(s)` is what sector s is to hold at the call's end. While
write stands in a sector, earlier ones have come to their target and later ones
are as before the call (`Around`); the one in work is untouched, or erased and
filled up to `addr` (`Rewritten`), or filled up to `addr` where it was blank
(`Filled`). `Place` ties the loop's counters to the call: how many bytes are
done is how far the sector is from the call's first one. The refinement's
state changes only at `Return` and `PowerFails`.

**Store.** `TreeOK` says that the tree is one and consistent; since a command that
is accepted finds what it names or does not find what it adds (`DeviceFound`,
`MemFound`), each command keeps it, and nothing else that a replayed line may say
touches the tree, whatever words it reads.

`TypeOK` is proved by itself, with `cmd_length` and `cmd_len` wrapping around
(`CounterTypes`) and addresses taken modulo the chip's size, so that it holds
whatever the log has run over (`TypeNext`).

`NamesStored` and `LogKept` speak of the moments between commands and are far from
inductive: while a list of writes is worked off, the EEPROM holds neither the
old nor the new. The argument is about what a list *leaves*: `Leaves(e, w, a, v)`
says that the writes w, begun on the memory e, end with v in cell a, because
the last write to a is v's, or there is none and v is there already. The first
write of a list takes nothing from that (`FirstWritten`), so it is kept at every
byte; each command has to show it only once, for the list that it starts with
(`SetMqttWrites`, `SaveWrites`, `FormatWrites`, `SetServerWrites`, `SaveCmdWrites`:
the fields do not overlap, and the second byte of `save_config`'s length is
overwritten by the name, unless there is none). `SInv` is then: with the power
on, `todo` leaves the names, the log and its length that RAM holds (`Promised`;
the names not where a replayed "set" has put others); without, the log is what it
should be, or longer than its cells, or a boot will empty it (`Booting`). `SInv`
holds until the log has been longer than its cells: `AllInv` is `TypeOK`, `TreeOK`
and `~beyond => SInv`, and `beyond` stays (`BeyondStays`). That a line fits and
so touches neither the mark nor, around the chip, the settings is `LineFits`.

For `TornSaveKeepsEarlier`, `Saving` says what a line's writes never do: they
touch no cell of the lines saved before, and each of the length's two bytes is
always one of the old length or of the new. If the high byte is the same in
both, so is the length a power failure leaves, old or new (`TornLength`);
otherwise it can be neither, which is the exception the property makes.

`NothingInvented` is about a reader that may stand anywhere: `run_cmd` adds the
length of a line that succeeded twice, so `read_next_cmd` can begin in the middle of
a line, and, since it reads `LineMax` cells whatever `cmd_length` says, run over the log's
end into what an older and longer log has left there. So the invariant is about
all cells behind `LogAt`. They are `Tidy` when at each CR LF in them there ends a
line that was saved, or the rest of one, and between it and the end before there
is nothing but LF (`Rest`): an LF can be left over where a new log's end has cut an
old one between CR and LF. A line written behind another leaves
the log tidy (`LineWritten`), wherever it ends in the old one. While a line is being
written the cells are not tidy, but are so once the whole line is put in
(`TidyThen`, over `Written`). `save_cmd` writes the two bytes of the length
first and the line after them (`Order`): if the power fails while a piece of the
line is there, the stored length has changed, so that `torn` records it. From a
tidy log every line that a replay reads is a suffix of a saved one (`NothingNew`),
word by word (`WordsSuffix`), or empty (`NothingRead`), as long as what is read ends
within the log's cells.

**Only model-checked.** Liveness (`CommandEnds`, `BootEnds`, `LossNoticed`,
`RequestServed`, `RequestEnds`, `WriteEnds`, `LineServed`) is out of the prover's
reach: it needs ENABLED for the fairness, and well-founded induction over what is left
to do.

## 5 Disagreements found

1. **A late answer confirms a later command** (`lora_late_answer`). An answer that
   comes after its timeout stays in the receive buffer, and the timer interrupt
   judges it once the next request to the same slave has raised `send_flag`. The
   reply says "lora send ok" for a write that nobody executed.
2. **Two commands share one host** (`lora_overlap`). `LOGIC_task` and
   `EC20_task` overlap in `Gateway::Command`; one reports ok on the strength of the
   other's frame or answer.
3. **The replay skips commands** (`store_replay`). `read_next_cmd` moves `cmd_len`
   over the line and `run_cmd` moves it again by the same length if the command
   succeeded.
4. **36 characters are accepted and not believed** (`store_longest_name`).
   `set mqtt` takes names up to 36 characters, `inital` believes lengths below 36
   and otherwise resets all names and empties the log.
5. **A lost link can go unseen** (`modem_dead_link`). The notice is read only by
   the call-back; if it comes while an AT command after `AT+QMTOPEN` has switched
   the UART away, `sendcom` drops it, and `link_thingsBoard` looks at no result.

6. **RS485 slaves are not reached by two digits** (`rs485_two_digits`). The help says
   `485 send <00> <0> <1>`; the parse (Gateway.cpp:295-308) reads `value[i*2]`, that
   is the first digit and then the terminating zero, and so sends "11" and "12" to
   0x10 and "05" to 0x00. The command answers ok when that slave answers.

## 6 What is not modelled

By far the most lines of the repository are third-party code: FreeRTOS, lwIP
1.4.1, FATFS with its code page tables, the ST libraries (FWLIB, CORE, USB),
picosha2, startup and project files; of cJSON what Getdatacheck uses is modelled.
Their behaviour is assumed where the models use it.

Of the repository's own code:

* drivers that keep no state between calls (ADC, DAC, DS18B20, RTC, displays,
  printers and so on);
* the gateway's `output`, `read` and `help` lines and the parsing of lines, apart
  from the words they consist of and the digits of identifiers;
* what `main.cpp` does not start: the TCP, UDP and MQTT clients over Ethernet and
  DHCP, whose behaviour is mostly that of lwIP's call-backs, the DW_LCD text
  display, SD and the FAT glue, USB storage. W25QXX is not started either, but
  modelled: its write is an algorithm that stands on its own;
* functions nothing calls: the single-register requests and the slave half of
  modbus, publishing and the firmware update of ThingsBoard, the settings'
  `set_*` functions, further `read_data` functions and DMA of the UART.

Limits of what is modelled: interrupts are atomic but for what the fifo shows;
a string's append or clear that an interrupt of higher priority cuts in two
(modbus.cpp:432) is left out, and so is an append to the console's fifo that makes
`std::string` move its bytes while `read_data`'s `substr` copies them; heap other
than the JSON pool is not counted.

## 7 Plan

Done, the most important first: `BusHost`; `PoolSpec`, `MemPool`; `DeviceTree`,
`GatewayStore`; `Modem`; `CloudRequests`; `Console` with `LineSource`;
`FlashWrite` with `ByteStore`; their runs and proofs.

Open:

1. The CRC comparison of `Host_16_uncoding` at 8 bits against a reference
   definition; so far its outcome is a free choice.
2. `TextDisplay`, `TcpClient`, `Dhcp`, `Mqtt`, should the program come to start them.

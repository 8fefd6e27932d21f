----------------------------- MODULE GatewayStore -----------------------------
(***************************************************************************)
(* What the gateway keeps over a restart.  Its EEPROM (FM24Cxx) holds the  *)
(* server, three names (client, user, password) and a log of the device    *)
(* commands that succeeded; Gateway::inital reads the settings at boot and *)
(* Gateway::run_cmd replays the log to rebuild the device tree.            *)
(*                                                                         *)
(* FM24Cxx::write writes one byte and then waits 10 ms.  A command's       *)
(* writes are a list that is worked off byte by byte, and power can fail   *)
(* between any two of them.  Only the debug console's task writes here:    *)
(* the cloud's commands (output, lora, 485) store nothing.                 *)
(*                                                                         *)
(* The layout is Gateway.h's with smaller fields: the server (ip, port) in *)
(* two cells, a length and NameMax cells for each name, two cells for      *)
(* cmd_length, then the log; the chip's last cell holds the mark of        *)
(* FM24Cxx::check.  A line of the log has a cell for each word or blank    *)
(* and two for its end, "\r\n"; Base plays 256.  The chip decodes an       *)
(* address modulo its size, and nothing in save_cmd keeps the log below    *)
(* the mark, or cmd_length from wrapping around: "beyond" notes when it    *)
(* has got there.                                                          *)
(***************************************************************************)
EXTENDS DeviceTree

CONSTANTS
  Cells,        \* what a cell may hold
  Code,         \* the byte that a cell reads as
  Cr, Lf,       \* the end of a line
  Base,         \* values of a byte, 256
  Size,         \* cells of the chip, 32768
  Mark,         \* what its last cell holds, 0xAA
  NameMax,      \* cells for a name, 36
  LineMax,      \* what read_next_cmd reads of a line at most, 64
  Typed,        \* device commands as typed, blanks included
  set, save, reboot, init, server_word, mqtt, \* words of the other commands
  Servers,      \* pairs <<ip, port>>
  BadIp,        \* what a "set server" line with a bad last part leaves in ip
  NameSets,     \* the three names of a "set mqtt" line
  DefaultNames, \* "Kokirika", "XCSZ", "admin"
  DefaultServer,\* 192.168.1.1:1883, set by "init"
  MaxSaves,     \* bound: lines saved in all
  MaxCrashes,   \* bound: power failures
  MaxSets       \* bound: commands that write settings

Ops      == {add_node, del_node, add_mem, del_mem}
Reserved == {set, save, reboot, init}

ASSUME StoreAssumption ==
  /\ Base \in Nat /\ Base > 2
  /\ NameMax \in Nat \ {0} /\ NameMax < Base - 1
  /\ Size \in Nat /\ 3 * NameMax + 7 < Size /\ Size <= (Base - 1) * Base
  /\ (Base * Base) % Size = 0
  /\ LineMax \in Nat /\ MaxSaves \in Nat /\ MaxCrashes \in Nat /\ MaxSets \in Nat
  /\ 0..(Base - 1) \subseteq Cells /\ {Cr, Lf, BadIp, Mark} \subseteq Cells
  /\ Code \in [Cells -> 0..(Base - 1)] /\ \A n \in 0..(Base - 1) : Code[n] = n
  /\ Typed \subseteq Seq(Cells \ {Cr, Lf}) /\ Ops \cap Reserved = {}
  /\ DefaultServer \in Cells \X Cells /\ Servers \subseteq Cells \X Cells
  /\ \A s \in NameSets \cup {DefaultNames} :
       /\ s \in Seq(Seq(Cells)) /\ Len(s) = 3
       /\ \A k \in 1..3 : Len(s[k]) \in 1..NameMax
  /\ Cr # Lf /\ Base - 1 \notin {Cr, Lf}   \* 0x0D, 0x0A and an erased cell's 0xFF

VARIABLES
  ee,        \* the EEPROM
  todo,      \* the byte writes of the command in progress, in order
  job,       \* what they store: "none", "log", "names", "reset", "format", "replay"
  pc,        \* "boot" (power is on), "run" (run_cmd), "idle", "write"
  server, names, cmd_length, cmd_len, tree,     \* RAM
  \* history, for the properties only:
  text,      \* what the log should hold
  saving,    \* the line being saved
  built,     \* the tree that the saved commands built
  typed,     \* the lines ever saved
  torn,      \* a power failure has left a piece of a line among the log's cells
  beyond,    \* the log has been longer than its cells
  obeyed,    \* the reserved words that replays have executed
  used       \* how far the bounds are used up

ram  == <<server, names, cmd_length, cmd_len, tree>>
hist == <<text, saving, built, typed, torn, beyond, obeyed>>
vars == <<ee, todo, job, pc, ram, hist, used>>

-----------------------------------------------------------------------------
Erased    == Base - 1
NameAt(k) == 2 + (k - 1) * (NameMax + 1)
LengthAt  == NameAt(4)
LogAt     == LengthAt + 2
CheckAt   == Size - 1
LogMax    == CheckAt - LogAt
NoNames   == <<<<>>, <<>>, <<>>>>

Cell(a)     == ee[a % Size]
LogCells(n) == [i \in 1..n |-> Cell(LogAt + i - 1)]

\* uint16_t as the bytes the processor keeps it in.
Bytes(n) == <<n % Base, n \div Base>>
StoredLength == Code[ee[LengthAt]] + Base * Code[ee[LengthAt + 1]]

\* write(at, pBuffer, Num): one write per byte, in order.
Put(at, s) == [i \in 1..Len(s) |-> [at |-> (at + i - 1) % Size, val |-> s[i]]]

\* inital's and "set mqtt"'s way to store a name, and save_config's, whose
\* two-byte length lies over the name's first cell until the name is written.
PutName(k, n)  == Put(NameAt(k), <<Len(n)>>) \o Put(NameAt(k) + 1, n)
\* The faulty variant writes the name before its length.
SaveNameFirst(k, n) == Put(NameAt(k) + 1, n) \o Put(NameAt(k), Bytes(Len(n)))
SaveName(k, n) == Put(NameAt(k), Bytes(Len(n))) \o Put(NameAt(k) + 1, n)

\* inital reads a name back; a length it does not believe makes it empty.
ReadName(k) == LET len == Code[ee[NameAt(k)]] IN
               IF len < NameMax THEN [i \in 1..len |-> ee[NameAt(k) + i]] ELSE <<>>

SaveConfig(s, ns) == Put(0, s) \o SaveName(1, ns[1]) \o SaveName(2, ns[2]) \o SaveName(3, ns[3])

\* cmd_length += len; the faulty variant forgets that it is a uint16_t.
LongerUnwrapped(len) == cmd_length + len
Longer(len) == (cmd_length + len) % (Base * Base)

\* Faulty variant of SaveCmd: the line goes to the start of the log.
SaveCmdFirst(line) ==
  Put(LengthAt, Bytes(Longer(Len(line)))) \o Put(LogAt, line)

\* save_cmd: the new length first, then the line behind the old end.
SaveCmd(line) ==
  Put(LengthAt, Bytes(Longer(Len(line)))) \o Put(LogAt + cmd_length, line)

Write == [at : 0..(Size - 1), val : Cells]

TypeOK ==
  /\ ee \in [0..(Size - 1) -> Cells]
  /\ todo \in Seq(Write)
  /\ job \in {"none", "log", "names", "reset", "format", "replay"}
  /\ pc \in {"boot", "run", "idle", "write"}
  /\ server \in Cells \X Cells
  /\ names \in Seq(Seq(Cells)) /\ Len(names) = 3 /\ \A k \in 1..3 : Len(names[k]) <= NameMax
  /\ cmd_length \in 0..(Base * Base - 1) /\ cmd_len \in 0..(Base * Base - 1)
  /\ tree \in Tree /\ built \in Tree
  /\ torn \in BOOLEAN /\ beyond \in BOOLEAN /\ obeyed \subseteq Reserved

Init ==
  /\ ee = [a \in 0..(Size - 1) |-> Erased]
  /\ todo = <<>> /\ job = "none" /\ pc = "boot"
  /\ server = <<0, 0>> /\ names = NoNames /\ cmd_length = 0 /\ cmd_len = 0
  /\ tree = EmptyTree
  /\ text = <<>> /\ saving = <<>> /\ built = EmptyTree /\ typed = {}
  /\ torn = FALSE /\ beyond = FALSE /\ obeyed = {}
  /\ used = [saves |-> 0, crashes |-> 0, sets |-> 0]

-----------------------------------------------------------------------------
(* Boot: inital, then run_cmd.                                             *)

Start(j, writes) == /\ todo' = writes
                    /\ job' = j
                    /\ pc' = "write"

\* A restart: what RAM held is gone.
Restarted ==
  /\ pc' = "boot" /\ todo' = <<>> /\ job' = "none"
  /\ server' = <<0, 0>> /\ names' = NoNames /\ cmd_length' = 0 /\ cmd_len' = 0
  /\ tree' = EmptyTree

\* check: the first boot of a chip, or one after the log has run over the mark.
Check ==
  /\ pc = "boot" /\ ee[CheckAt] # Mark
  /\ ee' = [ee EXCEPT ![CheckAt] = Mark]
  /\ UNCHANGED <<todo, job, pc, ram, hist, used>>

\* Settings that are not all there are replaced by the defaults and stored;
\* the log is emptied.
Boot ==
  /\ pc = "boot" /\ ee[CheckAt] = Mark
  /\ server' = <<ee[0], ee[1]>>
  /\ cmd_len' = 0
  /\ LET read == <<ReadName(1), ReadName(2), ReadName(3)>> IN
       IF \E k \in 1..3 : read[k] = <<>>
       THEN /\ names' = DefaultNames
            /\ cmd_length' = 0
            /\ Start("format", PutName(1, DefaultNames[1]) \o PutName(2, DefaultNames[2])
                                 \o PutName(3, DefaultNames[3]) \o Put(LengthAt, Bytes(0)))
            /\ UNCHANGED beyond
       ELSE /\ names' = read
            /\ cmd_length' = StoredLength
            /\ pc' = "run"
            /\ beyond' = (beyond \/ StoredLength > LogMax)
            /\ UNCHANGED <<todo, job>>
  /\ UNCHANGED <<ee, tree, text, saving, built, typed, torn, obeyed, used>>

\* Faulty variant of NextLine: up to the last "\r\n" within LineMax.
NextLineLast ==
  LET read == [i \in 1..LineMax |-> Cell(LogAt + cmd_len + i - 1)]
      ends == {i \in 2..LineMax : read[i - 1] = Cr /\ read[i] = Lf} IN
  IF ends = {} THEN <<>> ELSE SubSeq(read, 1, Max(ends))

\* read_next_cmd: the cells from cmd_len up to and including the next "\r\n",
\* nothing when there is none within LineMax.
NextLine ==
  LET read == [i \in 1..LineMax |-> Cell(LogAt + cmd_len + i - 1)]
      ends == {i \in 2..LineMax : read[i - 1] = Cr /\ read[i] = Lf} IN
  IF ends = {} THEN <<>> ELSE SubSeq(read, 1, First(ends))

\* What operator>> sees of a line: its cells without the white space, in order.
Words(line) ==
  LET kept == {i \in 1..Len(line) : line[i] \notin {Cr, Lf, Blank}}
      upTo(i) == {j \in kept : j <= i} IN
  [k \in 1..Cardinality(kept) |-> line[CHOOSE i \in kept : Cardinality(upTo(i)) = k]]

\* Where run_cmd stands after a line: read_next_cmd steps over it, and after a
\* success run_cmd steps over as many cells again.  The faulty variant of Stands
\* reads a line that fails again and again.
StandsIfDone(line, done) == (cmd_len + (IF done THEN 2 * Len(line) ELSE 0)) % (Base * Base)
Stands(line, done) == (cmd_len + (IF done THEN 2 ELSE 1) * Len(line)) % (Base * Base)

\* One round of run_cmd: Gateway::Command(cmd, false) executes what the line
\* says, reserved words included; "save" there only keeps it from storing.
Replaying(line) == pc = "run" /\ cmd_len < cmd_length /\ line # <<>>

RunDevice ==
  /\ \E line \in {NextLine} :
       /\ Replaying(line)
       /\ Word(Words(line), 1) \notin Reserved
       /\ tree' = TreeAfter(tree, Words(line))
       /\ cmd_len' = Stands(line, Accepted(tree, Words(line)))
  /\ UNCHANGED <<ee, todo, job, pc, server, names, cmd_length, hist, used>>

\* In RAM only: a server, with or without an error half way, names, or nothing
\* when the words behind do not make a command.
RunSet ==
  /\ \E line \in {NextLine} :
       /\ Replaying(line)
       /\ Word(Words(line), 1) = set
       /\ \/ /\ Word(Words(line), 2) = server_word
             /\ \/ server' \in Servers /\ cmd_len' = Stands(line, TRUE)
                \/ server' = <<BadIp, server[2]>> /\ cmd_len' = Stands(line, FALSE)
             /\ UNCHANGED names
          \/ /\ Word(Words(line), 2) = mqtt
             /\ names' \in NameSets
             /\ cmd_len' = Stands(line, TRUE)
             /\ UNCHANGED server
          \/ /\ cmd_len' = Stands(line, FALSE)
             /\ UNCHANGED <<server, names>>
  /\ obeyed' = obeyed \cup {set}
  /\ UNCHANGED <<ee, todo, job, pc, cmd_length, tree, text, saving, built, typed, torn, beyond, used>>

RunSave ==
  /\ \E line \in {NextLine} :
       /\ Replaying(line)
       /\ Word(Words(line), 1) = save
       /\ cmd_len' = Stands(line, FALSE)
  /\ Start("replay", SaveConfig(server, names))
  /\ obeyed' = obeyed \cup {save}
  /\ UNCHANGED <<ee, server, names, cmd_length, tree, text, saving, built, typed, torn, beyond, used>>

RunReboot ==
  /\ Replaying(NextLine) /\ Word(Words(NextLine), 1) = reboot
  /\ Restarted
  /\ obeyed' = obeyed \cup {reboot}
  /\ UNCHANGED <<ee, text, saving, built, typed, torn, beyond, used>>

\* "init" stores empty names and restarts, which brings back the defaults.
Reset ==
  /\ server' = DefaultServer
  /\ names' = NoNames
  /\ Start("reset", SaveConfig(DefaultServer, NoNames))

RunInit ==
  /\ \E line \in {NextLine} :
       /\ Replaying(line)
       /\ Word(Words(line), 1) = init
       /\ cmd_len' = Stands(line, FALSE)
  /\ Reset
  /\ obeyed' = obeyed \cup {init}
  /\ UNCHANGED <<ee, cmd_length, tree, text, saving, built, typed, torn, beyond, used>>

\* The end of the log, or no end of a line within LineMax.
RunEnds ==
  /\ pc = "run" /\ (cmd_len >= cmd_length \/ NextLine = <<>>)
  /\ pc' = "idle"
  /\ UNCHANGED <<ee, todo, job, ram, hist, used>>

-----------------------------------------------------------------------------
(* The console's commands.                                                 *)

\* A device command: executed, and saved when it succeeded.
DeviceCommand ==
  /\ pc = "idle" /\ used.saves < MaxSaves
  /\ \E c \in Typed :
       LET line == c \o <<Cr, Lf>> IN
       /\ Accepted(tree, Words(c))
       /\ tree' = TreeAfter(tree, Words(c))
       /\ cmd_length' = Longer(Len(line))
       /\ Start("log", SaveCmd(line))
       /\ saving' = line
       /\ typed' = typed \cup {line}
       /\ beyond' = (beyond \/ cmd_length + Len(line) > LogMax)
  /\ used' = [used EXCEPT !.saves = @ + 1]
  /\ UNCHANGED <<ee, server, names, cmd_len, text, built, torn, obeyed>>

\* A device command that fails leaves everything as it was.
Rejected ==
  /\ pc = "idle"
  /\ \E c \in Typed : ~Accepted(tree, Words(c)) /\ tree' = TreeAfter(tree, Words(c))
  /\ UNCHANGED <<ee, todo, job, pc, server, names, cmd_length, cmd_len, hist, used>>

CountSet == used.sets < MaxSets /\ used' = [used EXCEPT !.sets = @ + 1]

SetServer ==
  /\ pc = "idle" /\ CountSet
  /\ server' \in Servers
  /\ Start("names", Put(0, server'))
  /\ UNCHANGED <<ee, names, cmd_length, cmd_len, tree, hist>>

\* The parts of the address are stored as they are parsed: an error reply to
\* a bad one leaves the earlier parts changed in RAM.
SetServerBad ==
  /\ pc = "idle" /\ CountSet
  /\ server' = <<BadIp, server[2]>>
  /\ UNCHANGED <<ee, todo, job, pc, names, cmd_length, cmd_len, tree, hist>>

SetMqtt ==
  /\ pc = "idle" /\ CountSet
  /\ names' \in NameSets
  /\ Start("names", PutName(1, names'[1]) \o PutName(2, names'[2]) \o PutName(3, names'[3]))
  /\ UNCHANGED <<ee, server, cmd_length, cmd_len, tree, hist>>

Save ==
  /\ pc = "idle" /\ CountSet
  /\ Start("names", SaveConfig(server, names))
  /\ UNCHANGED <<ee, ram, hist>>

InitCommand ==
  /\ pc = "idle" /\ CountSet
  /\ Reset
  /\ UNCHANGED <<ee, cmd_length, cmd_len, tree, hist>>

-----------------------------------------------------------------------------
(* Storing, restarting, losing power.                                      *)

\* One byte; after the last one the command's next step.
WriteByte ==
  /\ pc = "write"
  /\ ee' = [ee EXCEPT ![todo[1].at] = todo[1].val]
  /\ \/ /\ Len(todo) > 1
        /\ todo' = Tail(todo)
        /\ UNCHANGED <<pc, job, ram, hist>>
     \/ /\ Len(todo) = 1 /\ job = "reset"
        /\ Restarted
        /\ UNCHANGED hist
     \/ /\ Len(todo) = 1 /\ job # "reset"
        /\ pc' = IF job \in {"format", "replay"} THEN "run" ELSE "idle"
        /\ todo' = <<>> /\ job' = "none"
        /\ text' = IF job = "format" THEN <<>> ELSE text \o saving
        /\ built' = IF job \in {"names", "replay"} THEN built ELSE tree
        /\ torn' = (torn /\ (job # "format" \/ typed # {}))
        /\ saving' = <<>>
        /\ UNCHANGED <<ram, typed, beyond, obeyed>>
  /\ UNCHANGED used

\* NVIC_SystemReset.
Reboot ==
  /\ pc = "idle"
  /\ Restarted
  /\ UNCHANGED <<ee, hist, used>>

\* The power fails.  From now on the log holds what it holds.
PowerFails ==
  /\ used.crashes < MaxCrashes
  /\ Restarted
  /\ text' = LogCells(StoredLength)
  /\ torn' = (torn \/ text' # text)
  /\ saving' = <<>>
  /\ used' = [used EXCEPT !.crashes = @ + 1]
  /\ UNCHANGED <<ee, built, typed, beyond, obeyed>>

Step ==
  \/ Check \/ Boot \/ WriteByte
  \/ RunDevice \/ RunSet \/ RunSave \/ RunReboot \/ RunInit \/ RunEnds

Next ==
  \/ Step \/ DeviceCommand \/ Rejected \/ SetServer \/ SetServerBad \/ SetMqtt
  \/ Save \/ InitCommand \/ Reboot \/ PowerFails

Spec == Init /\ [][Next]_vars

\* Before the scheduler starts nothing else runs, and during a command only
\* the task of the command can make its writes: both go on.
FairSpec == Spec /\ WF_vars(Step)

-----------------------------------------------------------------------------
\* A boot would read back the names the gateway works with, whichever commands
\* stored them and in which of the two formats, if all are of a length that
\* inital believes; power failures during a store included.  Not so once the log
\* has outgrown its cells, and not when a replay has come upon a "set": its
\* names are in RAM only.
NamesStored ==
  /\ pc = "idle" /\ ~beyond /\ set \notin obeyed
  /\ \A k \in 1..3 : Len(names[k]) \in 1..(NameMax - 1)
  => \A k \in 1..3 : ReadName(k) = names[k]

\* Between commands the log is the saved lines one after the other and its
\* stored length is the one in RAM: as long as the log fits its cells, storing
\* settings, in a replay too, does not touch it and a line never lands on
\* another one or on the settings.
LogKept ==
  pc = "idle" /\ ~beyond => /\ cmd_length = StoredLength
                            /\ LogCells(cmd_length) = text

\* Whatever run_cmd executes out of the log's cells is a saved line or the rest
\* of one: as long as no power failure tore the log and it fits its cells, a
\* replay makes nothing up.  Not so where a double step lands so near the end of
\* the cells that a line seems to end behind them, in the mark or the settings.
NothingInvented ==
  /\ pc = "run" /\ cmd_len < cmd_length /\ ~torn /\ ~beyond
  /\ cmd_len + Len(NextLine) <= LogMax
  => \E line \in typed : IsSuffix(Words(NextLine), Words(line))

\* The device tree stays consistent, in operation and when it is rebuilt from
\* a log that is torn, has run over the settings, or holds no commands at all.
TreeConsistent == Consistent(tree)

\* A power failure while a line is saved costs none of the lines saved before,
\* unless the length was crossing a multiple of Base: then its two bytes can
\* be from different lengths.
TornSaveKeepsEarlier ==
  [][PowerFails /\ job = "log" /\ ~beyond /\ Len(text) \div Base = cmd_length \div Base
       => IsPrefix(text, text')]_vars

\* Every boot ends, whatever settings and log it finds, with two exceptions: a
\* replay that comes upon the word "reboot" in the middle of a line, and one that
\* has come so far, to the end of 64K, that cmd_len may wrap around.
BootEnds ==
  \/ []<>(pc = "idle")
  \/ <>(reboot \in obeyed)
  \/ <>(cmd_len > Base * Base - 2 * LineMax)

\* Gateway::Command accepts names of up to 36 characters (Gateway.cpp:169) and
\* answers that they were set: then a boot reads them back.
AcceptedNamesSurvive ==
  pc = "idle" /\ (\A k \in 1..3 : Len(names[k]) > 0) =>
    \A k \in 1..3 : ReadName(k) = names[k]

\* run_cmd replays the log one command after the other (Gateway.cpp:366): if
\* no power failure tore the log, the tree is the one the commands built.
ReplayRebuilds == pc = "idle" /\ ~torn => tree = built
=============================================================================

---------------------------- MODULE MCGatewayStore ----------------------------
(* Names of one cell, of the longest length a boot believes and of the longest *)
(* a command accepts.  Devices and a memory node have the names of commands;   *)
(* of the lines with blanks in front, the rest behind five cells, where a      *)
(* double step over a short line lands, is such a command, and the longest are *)
(* longer than read_next_cmd reads.                                            *)
EXTENDS GatewayStore

CONSTANTS u, v, w, x

MCCells == 0..(Base - 1) \cup {u, v, w, x, BadIp, Mark, Cr, Lf, Blank, server_word, mqtt}
             \cup Ops \cup Reserved \cup Buses \cup Devices \cup Mems
MCCode  == [c \in MCCells |-> IF c \in 0..(Base - 1) THEN c
                              ELSE IF c \in {Cr, Lf} THEN 1 ELSE NameMax + 1]
MCPadded(c) == <<Blank, Blank, Blank>> \o c
MCShortLines == {<<op, b, set>> : op \in {add_node, del_node}, b \in Buses}
                  \cup {<<del_mem, b, set, mqtt>> : b \in Buses}
MCLongLines  == {MCPadded(<<add_node, b, d>>) : b \in Buses, d \in {reboot, init, save}}
                  \cup {MCPadded(<<add_mem, b, set, m>>) : b \in Buses, m \in Mems}
MCTyped    == MCShortLines \cup MCLongLines
MCServers  == {<<u, v>>}
MCDefaults == <<<<u>>, <<v>>, <<w>>>>
MCDefaultServer == <<x, x>>
MCShort    == {<<<<x>>, <<w>>, <<v>>>>}
MCLong     == {<<<<x>>, <<u, w>>, <<v>>>>}
MCNames    == MCShort \cup MCLong
=============================================================================

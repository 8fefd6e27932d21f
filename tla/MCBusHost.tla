------------------------------ MODULE MCBusHost ------------------------------
(* Small instances of BusHost: the two tasks of main.cpp.  The two LoRa      *)
(* slaves' identifiers differ in every byte, so that a torn one is nobody's. *)
(* On RS485 slave 10 is named in two digits, and 11 is a word that is read   *)
(* as 10.                                                                    *)
EXTENDS BusHost

MCPrio     == [t \in Tasks |-> IF t = "EC20" THEN 3 ELSE 2]

MCDevices2 == {<<18, 52>>, <<86, 120>>}
MCWords2   == {<<1, 2, 3, 4>>, <<5, 6, 7, 8>>}
MCInitId2  == <<0, 0>>

MCDevices1 == {<<16>>, <<17>>}
MCWords1   == {<<1, 0>>, <<1, 1>>}
MCInitId1  == <<1>>
=============================================================================

------------------------------ MODULE MCDrivers ------------------------------
(* One run for the flash driver and the console, which share nothing: the      *)
(* initial state says which of them runs, the other stands still.              *)
EXTENDS FlashWrite, Console

VARIABLE unit

W(s, o, d) == [sec |-> s, off |-> o, data |-> d]
MCRequests == {W(0, 3, <<"a", "b", "a", "a", "b", "b">>), W(0, 1, <<"b">>), W(1, 0, <<"a", "a", "b", "a">>),
               W(1, 2, <<"b", Erased, "a">>), W(2, 1, <<>>)}

MCInit == unit \in {"flash", "console"} /\ FlashInit /\ ConsoleInit

FlashRuns(A)   == unit = "flash" /\ A /\ UNCHANGED <<unit, consoleVars>>
ConsoleRuns(A) == unit = "console" /\ A /\ UNCHANGED <<unit, flashVars>>

everything == <<unit, flashVars, consoleVars>>

MCSpec == /\ MCInit /\ [][FlashRuns(FlashNext) \/ ConsoleRuns(ConsoleNext)]_everything
          /\ WF_everything(FlashRuns(WriteStep)) /\ WF_everything(ConsoleRuns(TaskStep))
=============================================================================

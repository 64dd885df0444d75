---------------------------- MODULE MCHbCmdPath ----------------------------
(* Two binary digits make the four words of a one-word address space, which   *)
(* is all this run needs of the bus: MCHbExecWb is about addresses.  Three     *)
(* digits in a row overflow a word.                                           *)
EXTENDS HbCmdPath

MCNibble == {"0", "1"}
MCWorth == [d \in MCNibble |-> IF d = "0" THEN 0 ELSE 1]
MCMapped == {0}
MCPowerUp == {0}
MCKeys == {"A", "R", "W", "S", "T", "0", "1", DEL, LF}
=============================================================================

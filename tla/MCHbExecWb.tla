---------------------------- MODULE MCHbExecWb ----------------------------
(* A bus of four addresses, two of them mapped: address 1 is an error between *)
(* two good ones and 3 is one that wraps to 0 when it is incremented.         *)
EXTENDS HbExecWb

MCMapped == {0, 2}

\* Set 0 and 3, set 2 without increment, and add 3 (that is, step back).
MCAddrWords == {0, 12, 9, 14}

MCWriteWords == {5, 6}
MCPowerUp == {0}
=============================================================================

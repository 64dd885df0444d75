----------------------------- MODULE SerialLine -----------------------------
(* What txuartlite.v and rxuartlite.v share: the clocks of one bit.  A byte   *)
(* is its eight bits, the first sent first.                                   *)
EXTENDS Integers, Sequences
VARIABLE CLOCKS_PER_BAUD     \* a parameter of the source
=============================================================================

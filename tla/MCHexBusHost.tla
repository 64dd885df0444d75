---------------------------- MODULE MCHexBusHost ----------------------------
(* Three addresses, the last unmapped.  A usage is a program that calls the   *)
(* class, and a line: MCUsages are those the class serves.                    *)
EXTENDS HexBusHost

MCGlyphs == <<"0", "1", "2", "3">>
MCMapped == 0 .. 1
MCAllMapped == 0 .. 2

Usage(pieces, writes, reads, errors, idles, interrupts) ==
    [pieces |-> pieces, writes |-> writes, reads |-> reads, errors |-> errors,
     idles |-> idles, ints |-> interrupts]

MCUsages == {Usage(TRUE, {FALSE}, {FALSE}, FALSE, 0, 0),
             Usage(FALSE, {FALSE}, {FALSE}, TRUE, 0, 1),
             Usage(FALSE, {FALSE}, BOOLEAN, FALSE, 1, 0),
             Usage(TRUE, {}, BOOLEAN, FALSE, 2, 0),
             Usage(TRUE, {}, {FALSE}, TRUE, 0, 1)}

ASSUME MCServed == \A u \in MCUsages : Served(u)

\* writei is called, and words arrive whole.
WriteiUsages == {Usage(FALSE, BOOLEAN, {FALSE}, FALSE, 0, 0)}

\* readi is called again after a bus error.
RetryUsages == {Usage(FALSE, {}, BOOLEAN, TRUE, 0, 0)}

\* writeio or writez, then readi, and words arrive in pieces.
PiecesUsages == {Usage(TRUE, {FALSE}, BOOLEAN, FALSE, 0, 0)}
=============================================================================

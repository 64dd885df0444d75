----------------------------- MODULE MCSimBoard -----------------------------
(* Bytes with many changes of the line and with few.                          *)
EXTENDS SimBoard
MCClients == 1 .. 2
MCBytes == {<<1, 0, 1, 0, 1, 0, 1, 0>>, <<0, 0, 0, 0, 0, 0, 0, 0>>}
Port(k, cpb, counts, in, out) ==
    [network |-> TRUE, clients |-> k, clocks |-> cpb, counts |-> counts, in |-> in, out |-> out]
Autotest(cpb, in, out) == [Port(1, cpb, cpb, in, out) EXCEPT !.network = FALSE]
\* Two clients, and one client both ways at once, with short bits; bytes on each
\* other's heels with the twenty-five clocks of the source, and with one more and one
\* less at one end.
MCSettings ==
    {Port(2, 4, 4, 2, 0), Port(2, 4, 4, 0, 2), Port(1, 4, 4, 1, 1),
     Autotest(8, 1, 3), Autotest(25, 0, 4)}
    \cup {Port(1, 25, counts, 2, 0) : counts \in 24 .. 26}
    \cup {Port(1, 25, counts, 0, 3) : counts \in 24 .. 26}
=============================================================================

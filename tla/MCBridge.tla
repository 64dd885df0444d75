------------------------------ MODULE MCBridge ------------------------------
(* Two clients with two commands each; every second byte ends a line, so that *)
(* lines end both ways.                                                       *)
EXTENDS Bridge
MCClients == 1 .. 2
MCSettings ==
    {[habit |-> <<"patient", "patient">>, fixed |-> TRUE,  unasked |-> 1],
     [habit |-> <<"hasty",   "patient">>, fixed |-> TRUE,  unasked |-> 1],
     [habit |-> <<"killed",  "hasty">>,   fixed |-> TRUE,  unasked |-> 0],
     [habit |-> <<"patient", "killed">>,  fixed |-> FALSE, unasked |-> 0]}
MCNewline(b) == b.n % 2 = 0
=============================================================================

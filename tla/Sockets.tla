------------------------------ MODULE Sockets -------------------------------
(* External: connections between clients and one listening server, as the     *)
(* system calls of llcomms.cpp and netuart.cpp show them on Linux.  Each      *)
(* client connects at most once.  Bytes are delivered in order and at once;   *)
(* a direction holds at most SockBuf of them.                                 *)
EXTENDS Integers, Sequences, SequencesExt

CONSTANTS Clients,   \* 1 .. the number of connections ever made
          SockBuf    \* bytes that fit into one direction

ASSUME SocketAssumption == SockBuf \in Nat \ {0} /\ Clients \subseteq Nat \ {0}

VARIABLE conn   \* by client: the two queues, who has shut down, who is gone
(* server   "none": not connected, "waiting": in the backlog, "accepted", or  *)
(*          "closed" by the server                                            *)
(* upfin    the client has shut down its sending side                         *)
(* gone     the client's end is closed                                        *)
(* reset    the server's end has received a reset                             *)
(* err      and has yet to report it                                          *)

Unconnected == [server |-> "none", up |-> <<>>, down |-> <<>>,
                upfin |-> FALSE, gone |-> FALSE, reset |-> FALSE, err |-> FALSE]

Waiting == {c \in Clients : conn[c].server = "waiting"}

\* The server's poll: POLLIN, and what else it may see beside it.
Readable(c) == conn[c].up # <<>> \/ conn[c].upfin \/ conn[c].reset
Hangs(c) == conn[c].upfin \/ conn[c].reset

\* The client's poll and read.
Answers(c)   == conn[c].down # <<>>
EndOfFile(c) == conn[c].server = "closed"

\* A process that ends closes its socket; unread bytes turn that into a reset.
Gone(k) ==
    LET hard == k.down # <<>>
    IN [k EXCEPT !.gone = TRUE, !.upfin = TRUE, !.down = <<>>,
                 !.reset = @ \/ hard, !.err = @ \/ hard]

\* What the server sends to a client that is gone comes back as a reset.
Sent(k, bytes) == IF k.gone THEN [k EXCEPT !.reset = TRUE, !.err = TRUE]
                  ELSE [k EXCEPT !.down = @ \o bytes]
Closed(k) == [k EXCEPT !.server = "closed", !.up = <<>>]
=============================================================================

------------------------------ MODULE LLComms -------------------------------
(* llcomms.cpp: a NETCOMMS in the hands of a command line tool (wbregs.cpp),  *)
(* one per client.  The tool sends commands and reads their answers, then     *)
(* deletes the object.  What HEXBUS makes of the bytes is in HexBusHost.      *)
(* A tool may also give up before it has its answers, when a call throws, or  *)
(* be killed: habits says which.                                              *)
EXTENDS Sockets, FiniteSets

CONSTANTS Commands,   \* commands a tool sends, one byte each
          Window,     \* most commands without their answer
          Backlog     \* connections that wait for accept

VARIABLES tool,    \* by client: where its program is
          wrote,   \* by client: bytes written
          taken,   \* by client: bytes read, by the tool or by close
          habit    \* by client: how it leaves

llvars == <<tool, wrote, taken, habit>>

\* The answers among the bytes read; mutant: all of them.
OursAny(c) == Len(taken[c])
Ours(c) == Cardinality({i \in DOMAIN taken[c] : taken[c][i].to # 0})
Outstanding(c) == wrote[c] - Ours(c)

LLInit ==
    /\ tool = [c \in Clients |-> "idle"]
    /\ wrote = [c \in Clients |-> 0]
    /\ taken = [c \in Clients |-> <<>>]
    /\ \A c \in Clients : habit[c] \in {"patient", "hasty", "killed"}

\* NETCOMMS::NETCOMMS: connect returns once the connection is in the backlog; if
\* nobody listens the program exits.
Connect(c, listening) ==
    /\ tool[c] = "idle"
    /\ IF listening
       THEN /\ Cardinality(Waiting) < Backlog
            /\ conn' = [conn EXCEPT ![c].server = "waiting"]
            /\ tool' = [tool EXCEPT ![c] = "runs"]
       ELSE tool' = [tool EXCEPT ![c] = "left"] /\ UNCHANGED conn
    /\ UNCHANGED <<wrote, taken, habit>>

\* LLCOMMSI::write, which blocks while the line is full and throws once it is cut.
Write(c) ==
    /\ tool[c] = "runs" /\ wrote[c] < Commands /\ Outstanding(c) < Window
    /\ IF EndOfFile(c)
       THEN tool' = [tool EXCEPT ![c] = "closing"] /\ UNCHANGED <<conn, wrote>>
       ELSE /\ Len(conn[c].up) < SockBuf
            /\ conn' = [conn EXCEPT ![c].up = Append(@, [to |-> c, n |-> wrote[c] + 1])]
            /\ wrote' = [wrote EXCEPT ![c] = @ + 1]
            /\ UNCHANGED tool
    /\ UNCHANGED <<taken, habit>>

\* LLCOMMSI::read, for HEXBUS one byte at a time; it throws at the end of the stream.
Read(c) ==
    /\ tool[c] = "runs" /\ Outstanding(c) > 0
    /\ \/ /\ Answers(c)
          /\ taken' = [taken EXCEPT ![c] = Append(@, Head(conn[c].down))]
          /\ conn' = [conn EXCEPT ![c].down = Tail(@)]
          /\ UNCHANGED tool
       \/ /\ ~Answers(c) /\ EndOfFile(c)
          /\ tool' = [tool EXCEPT ![c] = "closing"]
          /\ UNCHANGED <<taken, conn>>
    /\ UNCHANGED <<wrote, habit>>

\* A tool is done when it has its answers; a hasty one may leave once it has asked.
Done(c) == \/ wrote[c] = Commands /\ Outstanding(c) <= 0
           \/ habit[c] = "hasty" /\ wrote[c] > 0

\* NETCOMMS::close shuts down its sending side ...
Shutdown(c) ==
    /\ \/ tool[c] = "runs" /\ Done(c)
       \/ tool[c] = "closing" /\ ~conn[c].upfin
    /\ conn' = [conn EXCEPT ![c].upfin = TRUE]
    /\ tool' = [tool EXCEPT ![c] = "closing"]
    /\ UNCHANGED <<wrote, taken, habit>>

\* ... reads what still comes, and closes at the end of the stream.
Drain(c) ==
    /\ tool[c] = "closing" /\ conn[c].upfin
    /\ IF Answers(c)
       THEN /\ taken' = [taken EXCEPT ![c] = @ \o conn[c].down]
            /\ conn' = [conn EXCEPT ![c].down = <<>>]
            /\ UNCHANGED tool
       ELSE /\ EndOfFile(c)
            /\ conn' = [conn EXCEPT ![c] = Gone(@)]
            /\ tool' = [tool EXCEPT ![c] = "left"]
            /\ UNCHANGED taken
    /\ UNCHANGED <<wrote, habit>>

\* The process is killed, and the system closes its socket.
Killed(c) ==
    /\ habit[c] = "killed" /\ tool[c] \in {"runs", "closing"}
    /\ conn' = [conn EXCEPT ![c] = Gone(@)]
    /\ tool' = [tool EXCEPT ![c] = "left"]
    /\ UNCHANGED <<wrote, taken, habit>>

ToolStep(c, listening) ==
    \/ Connect(c, listening) \/ Write(c) \/ Read(c) \/ Shutdown(c) \/ Drain(c)
=============================================================================

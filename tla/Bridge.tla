------------------------------- MODULE Bridge -------------------------------
(* Tools on the network, netuart between them and the TTY, and the device     *)
(* behind it, which answers each command it hears, in order and in its own    *)
(* time, and now and then says something unasked (an interrupt, an idle word).*)
(* What a byte says is left out: a command is [to, n], the n-th of client to, *)
(* its answer is the same record, and what is said unasked has to = 0.        *)
EXTENDS LLComms, NetUart

CONSTANT Settings   \* [habit, fixed, unasked]: how each tool leaves, whether the TTY
                    \* stays plugged in, how many bytes the device says unasked

ASSUME BridgeAssumption ==
    /\ Commands \in Nat
    /\ Settings \subseteq [habit : [Clients -> {"patient", "hasty", "killed"}],
                           fixed : BOOLEAN, unasked : Nat]

VARIABLES heard, said,  \* history: bytes the device has heard and said
          answered,     \* how many of those heard it has answered
          told,         \* how many bytes it has said unasked
          fixed, unasked,   \* the setting
          accepted_at,  \* history: how much was said when a client was accepted,
          served_from   \* and how much of it was gone when its service began

history == <<accepted_at, served_from>>
vars == <<conn, llvars, nuvars, heard, said, answered, told, fixed, unasked, history>>

Init ==
    /\ conn = [c \in Clients |-> Unconnected]
    /\ \E s \in Settings : habit = s.habit /\ fixed = s.fixed /\ unasked = s.unasked
    /\ LLInit /\ NuInit
    /\ heard = <<>> /\ said = <<>> /\ answered = 0 /\ told = 0
    /\ accepted_at = [c \in Clients |-> 0] /\ served_from = [c \in Clients |-> 0]

Hear ==
    /\ tty.up /\ tty.out # <<>>
    /\ heard' = Append(heard, Head(tty.out))
    /\ tty' = [tty EXCEPT !.out = Tail(@)]
    /\ UNCHANGED <<said, answered, told>>

Say(b) == said' = Append(said, b) /\ tty' = [tty EXCEPT !.in = Append(@, b)]

Answer ==
    /\ tty.up /\ answered < Len(heard)
    /\ Say(heard[answered + 1]) /\ answered' = answered + 1
    /\ UNCHANGED <<heard, told>>

Tell ==
    /\ tty.up /\ told < unasked
    /\ Say([to |-> 0, n |-> told + 1]) /\ told' = told + 1
    /\ UNCHANGED <<heard, answered>>

Unplug ==
    /\ ~fixed /\ tty.up
    /\ tty' = [up |-> FALSE, in |-> <<>>, out |-> <<>>]
    /\ UNCHANGED <<heard, said, answered, told>>

Device ==
    /\ Hear \/ Answer \/ Tell \/ Unplug
    /\ UNCHANGED <<conn, llvars, pc, con, confd, m_connected, revents, m_buf, m_ilen,
                   m_olen, fixed, unasked, history>>

NetUart ==
    /\ NuStep
    /\ accepted_at' = IF pc = "accept" /\ con' # 0
                      THEN [accepted_at EXCEPT ![con'] = Len(said)] ELSE accepted_at
    /\ served_from' = IF confd = 0 /\ confd' # 0
                      THEN [served_from EXCEPT ![confd'] = Len(said) - Len(tty.in)]
                      ELSE served_from
    /\ UNCHANGED <<llvars, heard, said, answered, told, fixed, unasked>>

Tool(c) ==
    /\ ToolStep(c, pc # "exited") \/ Killed(c)
    /\ UNCHANGED <<nuvars, heard, said, answered, told, fixed, unasked, history>>

Next == Device \/ NetUart \/ \E c \in Clients : Tool(c)

Spec == Init /\ [][Next]_vars

\* The device hears and answers, netuart runs, and so do the tools.
FairSpec ==
    /\ Spec
    /\ WF_vars(Device /\ (Hear \/ Answer))
    /\ WF_vars(NetUart)
    /\ \A c \in Clients : WF_vars(Tool(c) /\ ToolStep(c, pc # "exited"))

-----------------------------------------------------------------------------
Byte == [to : Clients \cup {0}, n : 1 .. Commands + unasked]

TypeOK ==
    /\ pc \in {"start", "accept", "poll", "tty", "send", "skt", "write", "exited"}
    /\ {con, confd} \subseteq Clients \cup {0}
    /\ m_connected \in BOOLEAN /\ revents \in [tty : BOOLEAN, skt : BOOLEAN]
    /\ m_ilen \in 0 .. LineSize - 2 /\ m_olen \in 0 .. LineSize - 2
    /\ {Len(m_buf)} \subseteq 0 .. Chunk /\ ToSet(m_buf) \subseteq Byte
    /\ ToSet(tty.in) \cup ToSet(tty.out) \subseteq Byte /\ Len(tty.out) <= TtyBuf
    /\ \A c \in Clients :
         /\ Len(conn[c].up) <= SockBuf /\ Len(conn[c].down) <= SockBuf
         /\ tool[c] \in {"idle", "runs", "closing", "left"}
         /\ wrote[c] \in 0 .. Commands
    /\ answered \in 0 .. Len(heard) /\ told \in 0 .. unasked

\* What a client has received, is about to and will next is the device's words
\* from the moment its service began: none lost, doubled, reordered or kept back
\* (check_incoming's first half, netuart.cpp:153-196).
Received(c) == taken[c] \o conn[c].down
Underway(c) == (IF pc = "send" THEN m_buf ELSE <<>>) \o tty.in

AnswersWhole ==
    \A c \in Clients :
      LET due == SubSeq(said, served_from[c] + 1, Len(said))
      IN IF confd = c /\ ~conn[c].gone /\ tty.up /\ pc # "exited"
         THEN Received(c) \o Underway(c) = due
         ELSE conn[c].server # "none" /\ Received(c) # <<>> => IsPrefix(Received(c), due)

\* What the device hears of a client is what the client wrote, from the first byte
\* on, and nothing of another client comes between (the loop at netuart.cpp:219-239).
Heard == heard \o tty.out \o (IF pc = "write" /\ tty.up THEN m_buf ELSE <<>>)

Hears(c, place, len) ==
    /\ {i \in DOMAIN Heard : Heard[i].to = c} = place + 1 .. place + len
    /\ \A k \in 1 .. len : Heard[place + k].n = k
Rest(c, len) == [k \in 1 .. wrote[c] - len |-> [to |-> c, n |-> len + k]]

CommandsWhole ==
    \A c \in Clients : \E place \in 0 .. Len(Heard), len \in 0 .. wrote[c] :
      /\ Hears(c, place, len)
      /\ conn[c].server = "closed" \/ pc = "exited" \/ ~tty.up \/ conn[c].up = Rest(c, len)

\* A tool that closes its connection in good order has had its commands delivered,
\* all of them (netuart.cpp:204-213 reads to the end before it closes).
NoCommandDropped ==
    \A c \in Clients :
      tool[c] \in {"closing", "left"} /\ conn[c].server = "closed" /\ habit[c] # "killed"
        /\ fixed
      => \A k \in 1 .. wrote[c] : \E i \in DOMAIN Heard : Heard[i] = [to |-> c, n |-> k]

\* The flush (netuart.cpp:422-424): what the device had said before a client was
\* accepted does not reach it.
FlushedBefore ==
    \A c \in Clients : confd = c \/ taken[c] # <<>> => served_from[c] >= accepted_at[c]

\* If every tool waits for its answers, no tool reads the answer to another's
\* command, although the flush looks only once.
OwnAnswers ==
    (\A c \in Clients : habit[c] = "patient")
      => \A c \in Clients : \A i \in DOMAIN Received(c) : Received(c)[i].to \in {0, c}

\* netuart only ends when the TTY is gone: no way of leaving takes it down.
KeepsServing == fixed => pc # "exited"

\* Every tool gets through: neither the other's behaviour, nor full buffers, nor a
\* reset keep its close from returning.
EveryToolLeaves == \A c \in Clients : tool[c] # "idle" ~> tool[c] = "left"

\* A patient tool behind patient tools leaves with all of its answers.
PatientAnswered ==
    fixed /\ (\A d \in Clients : habit[d] = "patient")
      => \A c \in Clients : tool[c] = "left" =>
           \A k \in 1 .. Commands : \E i \in DOMAIN taken[c] : taken[c][i] = [to |-> c, n |-> k]
=============================================================================

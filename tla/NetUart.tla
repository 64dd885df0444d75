------------------------------ MODULE NetUart -------------------------------
(* netuart.cpp: one client at a time is connected to the TTY.  check_incoming *)
(* polls both sides once, then handles the TTY, then the client.  It is four  *)
(* steps here, one for each system call in which it can wait while others go  *)
(* on, so that what poll said may be old when it is acted upon.               *)
EXTENDS Sockets

CONSTANTS Chunk,      \* bytes one read returns: 256 in the source
          TtyBuf,     \* bytes the TTY takes before it says EAGAIN
          LineSize,   \* sizeof m_iline and m_oline: 512 in the source
          Newline(_)  \* bytes that end a line

ASSUME NetUartAssumption == Chunk \in Nat \ {0} /\ TtyBuf \in Nat \ {0} /\ LineSize \in Nat \ {0, 1}
                          /\ Chunk <= SockBuf

VARIABLES
    pc,           \* where the process is
    con,          \* the client that main has accepted; 0 is -1
    confd,        \* the argument of check_incoming: con, or 0 in the flush loop
    m_connected,
    revents,      \* what poll said: [tty, skt]
    m_buf,        \* bytes read and not yet written
    m_ilen, m_olen,   \* characters in the line buffers
    tty           \* [up, in, out]: the device file

nuvars == <<pc, con, confd, m_connected, revents, m_buf, m_ilen, m_olen, tty>>

NuInit ==
    /\ pc = "start" /\ con = 0 /\ confd = 0 /\ m_connected = FALSE
    /\ revents = [tty |-> FALSE, skt |-> FALSE] /\ m_buf = <<>>
    /\ m_ilen = 0 /\ m_olen = 0
    /\ tty = [up |-> TRUE, in |-> <<>>, out |-> <<>>]

\* A line buffer after one more byte; mutant: its last place is taken for a character.
LineAfterFull(len, b) == IF Newline(b) \/ len + 1 > LineSize - 1 THEN 0 ELSE len + 1
LineAfter(len, b) == IF Newline(b) \/ len + 1 >= LineSize - 1 THEN 0 ELSE len + 1
LinesAfter(len, bytes) ==
    LET after[i \in 0 .. Len(bytes)] ==
          IF i = 0 THEN len ELSE LineAfter(after[i - 1], bytes[i])
    IN  after[Len(bytes)]

\* What a read returns of a queue; of the client's, mutant: nothing once it has hung up.
First(queue) == SubSeq(queue, 1, IF Len(queue) < Chunk THEN Len(queue) ELSE Chunk)
FromClientHung(c) == IF Hangs(c) THEN <<>> ELSE First(conn[c].up)
FromClient(c) == First(conn[c].up)

\* exit: the system closes every socket.
Exit ==
    /\ pc' = "exited"
    /\ conn' = [c \in Clients |-> IF conn[c].server \in {"waiting", "accepted"}
                                  THEN Closed(conn[c]) ELSE conn[c]]

\* Opening the listener and the TTY, which may be absent.
Start ==
    /\ pc = "start"
    /\ IF tty.up THEN pc' = "accept" /\ UNCHANGED conn ELSE Exit
    /\ UNCHANGED <<con, confd, m_connected, revents, m_buf, m_ilen, m_olen, tty>>

\* myaccept, which gives up after 50 ms; then the flush loop.
Accept ==
    /\ pc = "accept"
    /\ \/ \E c \in Waiting : /\ con' = c /\ m_connected' = TRUE
                             /\ conn' = [conn EXCEPT ![c].server = "accepted"]
       \/ Waiting = {} /\ con' = 0 /\ UNCHANGED <<m_connected, conn>>
    /\ confd' = 0 /\ pc' = "poll"
    /\ UNCHANGED <<revents, m_buf, m_ilen, m_olen, tty>>

TtyEvent == tty.in # <<>> \/ ~tty.up

\* poll: without time-out for a client, and with none at all to flush.
Poll ==
    /\ pc = "poll"
    /\ confd # 0 => TtyEvent \/ Readable(confd)
    /\ revents' = [tty |-> TtyEvent, skt |-> confd # 0 /\ Readable(confd)]
    /\ pc' = "tty"
    /\ UNCHANGED <<con, confd, m_connected, m_buf, m_ilen, m_olen, tty, conn>>

\* Mutants: the flush is no loop; the flush is inside the loop that serves.
ReturnFlushOnce(event, connected) ==
    /\ m_connected' = connected
    /\ IF connected THEN pc' = "poll" /\ confd' = con ELSE pc' = "accept" /\ UNCHANGED confd
ReturnFlushAlways(event, connected) ==
    /\ m_connected' = connected
    /\ IF confd = 0 /\ event THEN pc' = "poll" /\ UNCHANGED confd
       ELSE IF connected THEN pc' = "poll" /\ confd' = IF confd = 0 THEN con ELSE 0
       ELSE pc' = "accept" /\ UNCHANGED confd

\* check_incoming returns: main flushes on, serves its client, or accepts.
Return(event, connected) ==
    /\ m_connected' = connected
    /\ IF confd = 0 /\ event THEN pc' = "poll" /\ UNCHANGED confd
       ELSE IF connected THEN pc' = "poll" /\ confd' = con
       ELSE pc' = "accept" /\ UNCHANGED confd

\* close(confd).  Mutants: the assertion that once stood there; no close.
HangUpExits == Exit /\ UNCHANGED <<confd, m_connected>>
HangUpOpen == UNCHANGED conn /\ Return(TRUE, FALSE)
HangUp == conn' = [conn EXCEPT ![confd] = Closed(@)] /\ Return(TRUE, FALSE)

\* The TTY's half: read; flushed bytes go no further.
ReadTty ==
    /\ pc = "tty"
    /\ LET bytes == First(tty.in)
       IN IF ~revents.tty
          THEN /\ IF confd # 0 THEN pc' = "skt" /\ UNCHANGED <<confd, m_connected>>
                  ELSE Return(FALSE, m_connected)
               /\ UNCHANGED <<m_buf, m_ilen, tty, conn>>
          ELSE IF bytes = <<>>
          THEN Exit /\ UNCHANGED <<confd, m_connected, m_buf, m_ilen, tty>>
          ELSE /\ tty' = [tty EXCEPT !.in = SubSeq(@, Len(bytes) + 1, Len(@))]
               /\ m_ilen' = LinesAfter(m_ilen, bytes)
               /\ IF confd # 0
                  THEN pc' = "send" /\ m_buf' = bytes /\ UNCHANGED <<confd, m_connected>>
                  ELSE Return(TRUE, m_connected) /\ UNCHANGED m_buf
               /\ UNCHANGED conn
    /\ UNCHANGED <<con, revents, m_olen>>

\* write to the client, which waits for room; a failure ends the connection and
\* what the client still had to say.
SendClient ==
    /\ pc = "send"
    /\ IF conn[confd].reset
       THEN HangUp
       ELSE /\ Len(conn[confd].down) + Len(m_buf) <= SockBuf
            /\ conn' = [conn EXCEPT ![confd] = Sent(@, m_buf)]
            /\ pc' = "skt" /\ UNCHANGED <<confd, m_connected>>
    /\ m_buf' = <<>>
    /\ UNCHANGED <<con, revents, m_ilen, m_olen, tty>>

\* The client's half: read.  Zero bytes are the end of the connection, an error
\* is left to the next call.
ReadClient ==
    /\ pc = "skt"
    /\ LET bytes == FromClient(confd)
       IN IF revents.skt /\ bytes # <<>>
          THEN /\ m_buf' = bytes
               /\ conn' = [conn EXCEPT ![confd].up = SubSeq(@, Len(bytes) + 1, Len(@))]
               /\ pc' = "write" /\ UNCHANGED <<confd, m_connected, m_olen>>
          ELSE IF revents.skt /\ ~conn[confd].err
          THEN HangUp /\ m_olen' = 0 /\ UNCHANGED m_buf
          ELSE /\ conn' = [conn EXCEPT ![confd].err = IF revents.skt THEN FALSE ELSE @]
               /\ Return(TRUE, m_connected) /\ UNCHANGED <<m_buf, m_olen>>
    /\ UNCHANGED <<con, revents, m_ilen, tty>>

\* Is the loop over after a write of nw?  Mutant: always.
WrittenOnce(nw) == TRUE
Written(nw) == nw = Len(m_buf)

\* The loop that writes to the TTY as much as it takes, and again after EAGAIN.
\* (The source fills the line buffer when all is written; piece by piece comes to the same.)
WriteTty ==
    /\ pc = "write"
    /\ IF ~tty.up
       THEN Exit /\ UNCHANGED <<confd, m_connected, m_buf, m_olen, tty>>
       ELSE \E nw \in 1 .. Len(m_buf) :
              /\ Len(tty.out) + nw <= TtyBuf
              /\ tty' = [tty EXCEPT !.out = @ \o SubSeq(m_buf, 1, nw)]
              /\ m_buf' = SubSeq(m_buf, nw + 1, Len(m_buf))
              /\ m_olen' = LinesAfter(m_olen, SubSeq(m_buf, 1, nw))
              /\ IF Written(nw) THEN Return(TRUE, m_connected)
                 ELSE UNCHANGED <<pc, confd, m_connected>>
              /\ UNCHANGED conn
    /\ UNCHANGED <<con, revents, m_ilen>>

NuStep == \/ Start \/ Accept \/ Poll \/ ReadTty \/ SendClient \/ ReadClient \/ WriteTty
=============================================================================

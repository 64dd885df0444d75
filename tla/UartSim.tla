------------------------------ MODULE UartSim -------------------------------
(* uartsim.cpp: the far end of the board's serial line in a simulation.  It   *)
(* serves one connection of its port at a time, or the standard input and     *)
(* output, which are a connection that is there from the start and stays.     *)
(* Eight data bits, no parity, one stop bit; a byte is its bits, the first    *)
(* sent first, and m_rx_busy and m_tx_busy, which hold a one for every bit,   *)
(* are told by their number of ones.                                          *)
EXTENDS Sockets

CONSTANT None   \* no file descriptor

VARIABLES network,           \* does it listen (m_skt >= 0)
          con,               \* m_conrd and m_conwr
          m_baud_counts,
          m_rx_state, m_rx_baudcounter, m_rx_data, m_rx_changectr, m_last_tx,
          m_tx_state, m_tx_baudcounter, m_tx_data, m_tx_busy,
          taken,             \* history: the bytes read from connections
          passed             \* history: the bytes received from the board

sim_rx == <<m_rx_state, m_rx_baudcounter, m_rx_data, m_rx_changectr, m_last_tx>>
sim_tx == <<m_tx_state, m_tx_baudcounter, m_tx_data, m_tx_busy>>
sim_vars == <<con, sim_rx, sim_tx, taken, passed>>

m_nbits == 8
m_nstop == 1

SimInit ==
    /\ m_rx_state = "RXIDLE" /\ m_rx_baudcounter = 0 /\ m_rx_data = <<>>
    /\ m_rx_changectr = 0 /\ m_last_tx = 1
    /\ m_tx_state = "TXIDLE" /\ m_tx_baudcounter = 0 /\ m_tx_busy = 0
    /\ m_tx_data = [i \in 1 .. 10 |-> 1]
    /\ taken = <<>> /\ passed = <<>>

\* A tick goes through three states of [conn, con]: as it is when a connection has
\* been accepted, when a byte has been passed on, and when one has been read.
Hung(s) == [conn |-> [s.conn EXCEPT ![s.con] = Closed(@)], con |-> None]

check_for_new_connections ==
    IF network /\ con = None /\ Waiting # {}
    THEN {[conn |-> [conn EXCEPT ![c].server = "accepted"], con |-> c] : c \in Waiting}
    ELSE {[conn |-> conn, con |-> con]}

\* A byte from the board goes to the connection there is; send fails on a reset one.
Pass(s, byte) ==
    IF s.con = None THEN s
    ELSE IF s.conn[s.con].reset THEN Hung(s)
    ELSE [s EXCEPT !.conn[s.con] = Sent(@, <<byte>>)]

-----------------------------------------------------------------------------
(* The half that listens to the board.                                        *)

\* The ticks since the line last fell; it tells nothing while the line is high.
SinceFall(i_tx) ==
    m_rx_changectr' = IF i_tx = 1 \/ m_last_tx = 1 THEN 0 ELSE m_rx_changectr + 1

\* Mutant: one bit too many.
FullLate == Len(m_rx_data) > m_nbits + m_nstop
\* m_rx_busy >= 1<<(nbits + nstop - 1): every bit is in.
Full == Len(m_rx_data) >= m_nbits + m_nstop
Received == SubSeq(m_rx_data, 1, m_nbits)

\* Mutant: a start bit is taken to begin when it is first looked at.
FirstSampleLate == m_baud_counts + (m_baud_counts \div 2) - 1
\* The middle of the first data bit, from a start bit that may have begun while the
\* stop bit before it was still being waited for.
FirstSample == m_baud_counts + (m_baud_counts \div 2) - 1 - m_rx_changectr'

Receive(i_tx) ==
    \/ /\ m_rx_state = "RXIDLE" /\ i_tx = 0
       /\ m_rx_state' = "RXDATA" /\ m_rx_data' = <<>> /\ m_rx_baudcounter' = FirstSample
       /\ UNCHANGED passed
    \/ /\ m_rx_state = "RXIDLE" /\ i_tx = 1
       /\ UNCHANGED <<m_rx_state, m_rx_data, m_rx_baudcounter, passed>>
    \/ /\ m_rx_state = "RXDATA" /\ m_rx_baudcounter <= 0 /\ Full
       /\ m_rx_state' = "RXIDLE" /\ passed' = Append(passed, Received)
       /\ m_rx_data' = <<>> /\ m_rx_baudcounter' = m_baud_counts - 1
    \/ /\ m_rx_state = "RXDATA" /\ m_rx_baudcounter <= 0 /\ ~Full
       /\ m_rx_data' = Append(m_rx_data, i_tx) /\ m_rx_baudcounter' = m_baud_counts - 1
       /\ UNCHANGED <<m_rx_state, passed>>
    \/ /\ m_rx_state = "RXDATA" /\ m_rx_baudcounter > 0
       /\ m_rx_baudcounter' = m_rx_baudcounter - 1
       /\ UNCHANGED <<m_rx_state, m_rx_data, passed>>

AfterReceive(s) ==
    IF m_rx_state = "RXDATA" /\ m_rx_baudcounter <= 0 /\ Full THEN Pass(s, Received) ELSE s

-----------------------------------------------------------------------------
(* The half that talks to the board.                                          *)

Looks(s) == m_tx_state = "TXIDLE" /\ s.con # None
Reads(s) == Looks(s) /\ s.conn[s.con].up # <<>>
AtEnd(s) == Looks(s) /\ ~Reads(s) /\ (s.conn[s.con].upfin \/ s.conn[s.con].reset)

\* One bit: m_tx_data is shifted, and it is over when m_tx_busy has run out.
NextBit ==
    /\ m_tx_data' = Append(Tail(m_tx_data), 1)
    /\ m_tx_busy' = m_tx_busy - 1
    /\ IF m_tx_busy = 1 THEN m_tx_state' = "TXIDLE" /\ UNCHANGED m_tx_baudcounter
       ELSE m_tx_baudcounter' = m_baud_counts - 1 /\ UNCHANGED m_tx_state

Transmit(s) ==
    \/ /\ Reads(s)
       /\ LET byte == Head(s.conn[s.con].up)
          IN m_tx_data' = <<0>> \o byte \o <<1>> /\ taken' = Append(taken, byte)
       /\ m_tx_busy' = m_nbits + m_nstop + 1 /\ m_tx_state' = "TXDATA"
       /\ m_tx_baudcounter' = m_baud_counts - 1
    \/ m_tx_state = "TXIDLE" /\ ~Reads(s) /\ UNCHANGED <<sim_tx, taken>>
    \/ m_tx_state = "TXDATA" /\ m_tx_baudcounter <= 0 /\ NextBit /\ UNCHANGED taken
    \/ /\ m_tx_state = "TXDATA" /\ m_tx_baudcounter > 0
       /\ m_tx_baudcounter' = m_tx_baudcounter - 1
       /\ UNCHANGED <<m_tx_state, m_tx_data, m_tx_busy, taken>>

\* Mutant: a connection is closed by an error only.
AfterTransmitOpen(s) ==
    IF Reads(s) THEN [s EXCEPT !.conn[s.con].up = Tail(@)]
    ELSE IF AtEnd(s) /\ s.conn[s.con].reset THEN Hung(s) ELSE s
\* The end of a connection, or an error of it, closes it.
AfterTransmit(s) ==
    IF Reads(s) THEN [s EXCEPT !.conn[s.con].up = Tail(@)]
    ELSE IF AtEnd(s) THEN Hung(s) ELSE s

\* rawtick's answer, the line to the board.
o_rx == IF m_tx_state = "TXIDLE" /\ m_tx_state' = "TXIDLE" THEN 1 ELSE Head(m_tx_data')

RawTick(i_tx) ==
    \E s \in check_for_new_connections :
        LET t == AfterReceive(s)
            u == AfterTransmit(t)
        IN /\ SinceFall(i_tx) /\ m_last_tx' = i_tx
           /\ Receive(i_tx) /\ Transmit(t)
           /\ conn' = u.conn /\ con' = u.con
=============================================================================

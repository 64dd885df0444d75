------------------------------ MODULE SimBoard ------------------------------
(* A simulation of the board: testbus_tb, which serves its serial line on a   *)
(* port, and autotest, which has it on its standard input and output.  A tick *)
(* gives the line of the board to UARTSIM, its answer to the board, and the   *)
(* board a clock.  Of the board there are the two ends of the line; what it   *)
(* says, and when, is open.                                                   *)
EXTENDS UartSim, RxUartLite, TxUartLite

CONSTANTS Settings,  \* [network, clients, clocks, counts, in, out]: a port or the standard
                     \* input; how many clients there are; CLOCKS_PER_BAUD, m_baud_counts;
                     \* how many bytes each client sends, and the board
          Bytes      \* the bytes that are sent

VARIABLES m_ticks,         \* ticks of autotest, until it gives UARTSIM the line
          to_send,         \* bytes that each client has yet to send
          to_say,          \* and the board
          said, heard      \* history: the bytes that the board has sent, and received

settings == <<network, m_baud_counts, CLOCKS_PER_BAUD>>
board_vars == <<tx_vars, rx_vars, m_ticks, to_say, said, heard>>
vars == <<conn, sim_vars, settings, board_vars, to_send>>

StandardInput == 1     \* the connection of autotest, which is there already

ASSUME SettingsAssumption ==
    /\ Settings \subseteq [network : BOOLEAN, clients : Nat, clocks : Nat, counts : Nat,
                           in : Nat, out : Nat]
    /\ Bytes \subseteq [1 .. 8 -> {0, 1}] /\ StandardInput \in Clients

Init ==
    /\ \E s \in Settings :
          /\ network = s.network /\ CLOCKS_PER_BAUD = s.clocks /\ m_baud_counts = s.counts
          /\ to_send = [c \in Clients |-> IF c <= s.clients THEN s.in ELSE 0]
          /\ to_say = s.out
          /\ conn = [c \in Clients |->
                        IF c <= s.clients /\ ~network
                        THEN [Unconnected EXCEPT !.server = "accepted"]
                        ELSE [Unconnected EXCEPT !.gone = (c > s.clients)]]
    /\ con = IF network THEN None ELSE StandardInput
    /\ SimInit /\ RxInit /\ TxInit
    /\ m_ticks = 0 /\ said = <<>> /\ heard = <<>>

-----------------------------------------------------------------------------
(* The clients.                                                               *)

Connect(c) ==
    /\ network /\ conn[c].server = "none" /\ ~conn[c].gone
    /\ conn' = [conn EXCEPT ![c].server = "waiting"]
    /\ UNCHANGED to_send

Send(c, byte) ==
    /\ conn[c].server \in {"waiting", "accepted"} /\ ~conn[c].upfin
    /\ to_send[c] > 0 /\ Len(conn[c].up) < SockBuf
    /\ conn' = [conn EXCEPT ![c].up = Append(@, byte)]
    /\ to_send' = [to_send EXCEPT ![c] = @ - 1]

\* A client leaves when it has read what there is, or it is killed.
Leave(c) ==
    /\ network /\ conn[c].server # "none" /\ ~conn[c].gone
    /\ \/ conn' = [conn EXCEPT ![c] = Gone([@ EXCEPT !.down = <<>>])]
       \/ conn' = [conn EXCEPT ![c] = Gone(@)]
    /\ UNCHANGED to_send

Client ==
    /\ \E c \in Clients : Connect(c) \/ Leave(c) \/ \E byte \in Bytes : Send(c, byte)
    /\ UNCHANGED <<sim_vars, settings, board_vars>>

-----------------------------------------------------------------------------
(* A tick.                                                                    *)

\* autotest keeps the line high for the first twenty baud intervals.
WarmUp == 20 * CLOCKS_PER_BAUD
Quiet == ~network /\ m_ticks + 1 < WarmUp

\* At power up the port says "T", carriage return and line feed without a pause; its
\* registers take less than half a baud interval.
Greeting == 3
MustSay == /\ ~network /\ Len(said) < Greeting
           /\ said # <<>> \/ m_ticks >= CLOCKS_PER_BAUD \div 2

Board(i_uart, i_wr, byte) ==
    /\ RxTick(i_uart) /\ TxTick(i_wr, byte)
    /\ IF Takes(i_wr) THEN said' = Append(said, byte) /\ to_say' = to_say - 1
       ELSE UNCHANGED <<said, to_say>>
    /\ heard' = IF o_wr THEN Append(heard, o_data) ELSE heard

Tick ==
    /\ \E i_wr \in BOOLEAN, byte \in Bytes :
          /\ MustSay => i_wr
          /\ i_wr => to_say > 0
          /\ IF Quiet THEN UNCHANGED <<conn, sim_vars>> /\ Board(1, i_wr, byte)
             ELSE RawTick(o_uart_tx) /\ Board(o_rx, i_wr, byte)
    /\ m_ticks' = IF Quiet THEN m_ticks + 1 ELSE m_ticks
    /\ UNCHANGED <<settings, to_send>>

Next == Client \/ Tick
Spec == Init /\ [][Next]_vars

\* The simulation goes on, and clients leave some time.
Leaves(c) == Leave(c) /\ UNCHANGED <<sim_vars, settings, board_vars>>
FairSpec == Spec /\ WF_vars(Tick) /\ \A c \in Clients : WF_vars(Leaves(c))

-----------------------------------------------------------------------------

TypeOK ==
    /\ {q_uart, qq_uart, ck_uart, o_uart_tx, m_last_tx} \subseteq {0, 1}
    /\ rx_state \in 0 .. RXUL_WAIT \cup {RXUL_IDLE} /\ tx_state \in 0 .. 9 \cup {TXUL_IDLE}
    /\ {rx_baud_counter, tx_baud_counter, chg_counter} \subseteq 0 .. CLOCKS_PER_BAUD
    /\ Len(m_rx_data) <= m_nbits + m_nstop /\ m_tx_busy \in 0 .. Len(m_tx_data)
    /\ m_rx_baudcounter \in 0 .. 2 * m_baud_counts /\ m_tx_baudcounter \in 0 .. m_baud_counts
    /\ con \in Clients \cup {None}

\* What the board says and UARTSIM has the line for.
Said == IF network THEN said ELSE SubSeq(said, Greeting, Len(said))

\* Both ways bytes arrive whole, in order and once, at whatever ticks they are sent and
\* however close they follow each other, and when the baud intervals of the two ends
\* differ as the settings say: the board hears what UARTSIM has read, UARTSIM what the
\* board has sent (rxuartlite.v:150, uartsim.cpp:180-189).
BytesInOrder == IsPrefix(heard, taken) /\ IsPrefix(passed, Said)

\* Each byte arrives in the end, and each client is accepted when those before it have
\* left (uartsim.cpp:151, :266).
AllServed ==
    /\ <>[](heard = taken /\ passed = Said)
    /\ \A c \in Clients : conn[c].server = "waiting" ~> conn[c].server # "waiting"
=============================================================================

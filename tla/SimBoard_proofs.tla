---------------------------- MODULE SimBoard_proofs ----------------------------
(* Proofs about the serial line: bytes arrive, both ways, for every baud        *)
(* interval and every difference between the two ends that the receivers bear.  *)
EXTENDS SimBoard, DataLemmas

-----------------------------------------------------------------------------
(* The two receivers.  A byte is sent as the bits 0, the start bit, to 9, the *)
(* stop bit; a time counts from the fall of the line at its start.            *)

\* When UARTSIM, counting to b, samples bit n + 1, and when rxuartlite.v, counting to c,
\* has recognised a start bit.
Sample(b, n) == (n + 1) * b + (b \div 2)
Catch(c) == (c \div 2) + 1

\* What the receivers bear.  UARTSIM takes each data bit in the middle and looks for the
\* next start bit while it lasts.  rxuartlite.v sees a start bit for long enough, takes
\* each data bit, two clocks late or three, in its time, and the stop bit twice before
\* the line can fall again.  With fewer than four clocks it does not see one at all
\* (rxuartlite.v:135).
Agree(c, b) ==
    /\ c >= 4 /\ b >= 2
    /\ \A n \in 0 .. 7 : (n + 1) * c <= Sample(b, n) /\ Sample(b, n) < (n + 2) * c
    /\ 9 * c <= Sample(b, 9) + 1 /\ Sample(b, 9) + 1 < 11 * c
    /\ Catch(c) <= b + 1
    /\ \A n \in 0 .. 7 : /\ (n + 1) * b < Catch(c) + (n + 1) * c
                         /\ Catch(c) + (n + 1) * c <= (n + 2) * b
    /\ 9 * b + 2 <= Catch(c) + 9 * c /\ Catch(c) + 9 * c <= 10 * b + 1

-----------------------------------------------------------------------------
(* What is on the line.                                                       *)

Octet == [1 .. 8 -> {0, 1}]
Latest(s) == s[Len(s)]
Bit(byte, k) == IF k = 0 THEN 0 ELSE IF k <= 8 THEN byte[k] ELSE 1
Prefix(s, t) == Len(s) <= Len(t) /\ \A i \in 1 .. Len(s) : s[i] = t[i]

Conns == [server : {"none", "waiting", "accepted", "closed"}, up : Seq(Octet), down : Seq(Octet),
          upfin : BOOLEAN, gone : BOOLEAN, reset : BOOLEAN, err : BOOLEAN]
Kinds ==
    /\ \E s \in Settings : /\ network = s.network /\ CLOCKS_PER_BAUD = s.clocks
                           /\ m_baud_counts = s.counts
    /\ said \in Seq(Octet) /\ heard \in Seq(Octet)
    /\ taken \in Seq(Octet) /\ passed \in Seq(Octet)
    /\ con \in Clients \cup {None} /\ m_ticks \in Nat /\ conn \in [Clients -> Conns]

\* The ticks since the latest byte began; when the transmitter is idle it may be more.
TxAge == IF tx_state <= TXUL_STOP
         THEN tx_state * CLOCKS_PER_BAUD + (CLOCKS_PER_BAUD - 1 - tx_baud_counter)
         ELSE IF tx_state = TXUL_IDLE THEN 10 * CLOCKS_PER_BAUD - 1
         ELSE 9 * CLOCKS_PER_BAUD + (CLOCKS_PER_BAUD - 2 - tx_baud_counter)
TxShape ==
    /\ tx_zero_baud_counter <=> tx_baud_counter = 0
    /\ \/ tx_state = TXUL_IDLE /\ tx_baud_counter = 0
       \/ /\ tx_state \in 0 .. TXUL_STOP /\ tx_baud_counter \in 0 .. CLOCKS_PER_BAUD - 1
          /\ r_busy /\ said # <<>>
       \/ /\ tx_state = 9 /\ tx_baud_counter \in 0 .. CLOCKS_PER_BAUD - 2
          /\ r_busy /\ said # <<>>
    /\ r_busy \in BOOLEAN /\ (tx_state = TXUL_IDLE /\ r_busy => said = <<>> /\ m_ticks = 0)
    /\ o_uart_tx = Bit(Latest(said), tx_state)
    /\ lcl_data \in Seq({0, 1}) /\ Len(lcl_data) = 8
    /\ \A i \in 1 .. 8 : lcl_data[i] = Bit(Latest(said), tx_state + i)

SimAge == IF m_tx_state = "TXIDLE" THEN 10 * m_baud_counts
          ELSE (10 - m_tx_busy) * m_baud_counts + (m_baud_counts - 1 - m_tx_baudcounter)
SimShape ==
    /\ \/ m_tx_state = "TXIDLE" /\ m_tx_busy = 0
       \/ m_tx_state = "TXDATA" /\ m_tx_busy \in 1 .. 10 /\ taken # <<>>
    /\ m_tx_baudcounter \in 0 .. m_baud_counts - 1
    /\ m_tx_data \in Seq({0, 1}) /\ Len(m_tx_data) = 10
    /\ \A i \in 1 .. 10 : m_tx_data[i] = Bit(Latest(taken), 10 - m_tx_busy + i - 1)

-----------------------------------------------------------------------------
(* From the board to UARTSIM.                                                 *)

\* m_rx_changectr counts a start bit from its fall.
Fallen == TxAge < CLOCKS_PER_BAUD =>
    IF TxAge = 0 THEN m_last_tx = 1 ELSE m_last_tx = 0 /\ m_rx_changectr = TxAge - 1

\* The ticks until UARTSIM has done with the byte it receives.
Rest == m_rx_baudcounter + (9 - Len(m_rx_data)) * m_baud_counts
Behind == Len(Said) - Len(passed)

Listens ==
    /\ Prefix(passed, Said)
    /\ m_rx_state \in {"RXIDLE", "RXDATA"} /\ m_rx_changectr \in Nat /\ m_last_tx \in {0, 1}
    /\ m_rx_baudcounter \in 0 .. 2 * m_baud_counts
    /\ m_rx_data \in Seq({0, 1}) /\ Len(m_rx_data) <= 9
    /\ m_rx_state = "RXIDLE" => \/ Behind = 0 /\ TxAge >= 9 * CLOCKS_PER_BAUD
                                \/ Behind = 1 /\ TxAge < CLOCKS_PER_BAUD
    /\ m_rx_state = "RXDATA" =>
         /\ \/ /\ Behind = 1 /\ TxAge >= 1
               /\ \/ Rest = Sample(m_baud_counts, 9) - TxAge
                  \/ /\ TxAge = 10 * CLOCKS_PER_BAUD - 1 /\ Len(m_rx_data) >= 8
                     /\ Rest <= Sample(m_baud_counts, 9) - TxAge
            \/ /\ Behind = 2 /\ Len(m_rx_data) >= 8
               /\ Rest <= Sample(m_baud_counts, 9) - 10 * CLOCKS_PER_BAUD - TxAge
         /\ \A i \in 1 .. Len(m_rx_data) : i <= 8 => m_rx_data[i] = Said[Len(passed) + 1][i]

\* autotest: the two characters before the third, while UARTSIM has not got the line.
WarmsUp ==
    /\ m_rx_state = "RXIDLE" /\ m_rx_baudcounter = 0 /\ m_rx_data = <<>>
    /\ m_rx_changectr = 0 /\ m_last_tx = 1 /\ passed = <<>>
    /\ m_tx_state = "TXIDLE" /\ taken = <<>>
    /\ \/ said = <<>> /\ m_ticks <= CLOCKS_PER_BAUD \div 2
       \/ /\ Len(said) \in 1 .. 2
          /\ LET begun == m_ticks - TxAge - 1 - (Len(said) - 1) * 10 * CLOCKS_PER_BAUD
             IN 0 <= begun /\ begun <= CLOCKS_PER_BAUD \div 2
    /\ m_ticks + 1 < WarmUp

FromBoard == IF Quiet THEN WarmsUp
             ELSE Listens /\ Fallen /\ (~network => Len(said) >= 2 /\ m_ticks < WarmUp)

-----------------------------------------------------------------------------
(* From UARTSIM to the board.                                                 *)

\* A register shows the line as it was at an age of a byte whose bits last b ticks.
Shows(v, age, b, byte) ==
    /\ v \in {0, 1}
    /\ age < 0 \/ age >= 9 * b => v = 1
    /\ \A k \in 0 .. 8 : k * b <= age /\ age < (k + 1) * b => v = Bit(byte, k)

Synchronized ==
    /\ Shows(q_uart, SimAge, m_baud_counts, Latest(taken))
    /\ Shows(qq_uart, SimAge - 1, m_baud_counts, Latest(taken))
    /\ Shows(ck_uart, SimAge - 2, m_baud_counts, Latest(taken))
    /\ chg_counter \in 0 .. ChangeMax /\ half_baud_time \in BOOLEAN
    /\ SimAge \in 2 .. Catch(CLOCKS_PER_BAUD) =>
         /\ chg_counter = SimAge - 2
         /\ half_baud_time <=> SimAge = Catch(CLOCKS_PER_BAUD)

\* The age of the byte that the board receives.
RxAge == Catch(CLOCKS_PER_BAUD) + 1 +
         IF rx_state = RXUL_WAIT THEN 9 * CLOCKS_PER_BAUD
         ELSE rx_state * CLOCKS_PER_BAUD + (CLOCKS_PER_BAUD - 1 - rx_baud_counter)
Missing == Len(taken) - Len(heard)

RxShape ==
    /\ rx_zero_baud_counter <=> rx_baud_counter = 0
    /\ \/ rx_state \in 0 .. RXUL_STOP /\ rx_baud_counter \in 0 .. CLOCKS_PER_BAUD - 1 /\ ~o_wr
       \/ rx_state = RXUL_WAIT /\ rx_baud_counter = 0 /\ o_wr
       \/ rx_state = RXUL_IDLE /\ rx_baud_counter = 0 /\ ~o_wr
    /\ data_reg \in Seq({0, 1}) /\ Len(data_reg) = 8

Catches ==
    /\ Prefix(heard, taken)
    /\ rx_state = RXUL_IDLE => \/ Missing = 0 /\ SimAge - 2 >= 9 * m_baud_counts
                               \/ Missing = 1 /\ SimAge <= Catch(CLOCKS_PER_BAUD)
    /\ rx_state # RXUL_IDLE =>
         \/ Missing = 1 /\ RxAge = SimAge
         \/ Missing = 1 /\ SimAge = 10 * m_baud_counts /\ RxAge >= SimAge
         \/ Missing = 2 /\ RxAge >= 10 * m_baud_counts + 1 + SimAge
    /\ rx_state \in 0 .. RXUL_STOP =>
         \A i \in 1 .. rx_state : data_reg[8 - rx_state + i] = taken[Len(heard) + 1][i]
    /\ o_wr => o_data = taken[Len(heard) + 1]

ToBoard == Synchronized /\ RxShape /\ Catches
SInv == Kinds /\ TxShape /\ SimShape /\ FromBoard /\ ToBoard

-----------------------------------------------------------------------------
(* Numbers and bits.                                                          *)

LEMMA Times ==
    ASSUME NEW c \in Nat, NEW a \in Nat, NEW b \in Nat, a <= b
    PROVE  a * c <= b * c
<1>1. PICK d \in Nat : b = a + d
  OBVIOUS
<1>2. b * c = a * c + d * c /\ d * c \in Nat /\ a * c \in Nat
  BY <1>1
<1> QED BY <1>2

\* Bits last c ticks: a time is in one of them only.
LEMMA SameBit ==
    ASSUME NEW c \in Nat \ {0}, NEW k \in Nat, NEW m \in Nat, NEW x \in Int,
           k * c <= x, x < (k + 1) * c, m * c <= x, x < (m + 1) * c
    PROVE  k = m
<1>1. CASE k < m
  <2>1. (k + 1) * c <= m * c
    BY <1>1, Times
  <2>2. (k + 1) * c \in Int /\ m * c \in Int
    OBVIOUS
  <2> QED BY <2>1, <2>2
<1>2. CASE m < k
  <2>1. (m + 1) * c <= k * c
    BY <1>2, Times
  <2>2. (m + 1) * c \in Int /\ k * c \in Int
    OBVIOUS
  <2> QED BY <2>1, <2>2
<1> QED BY <1>1, <1>2

LEMMA OctetIsSeq ==
    ASSUME NEW b \in Octet
    PROVE  b \in Seq({0, 1}) /\ Len(b) = 8
<1>1. b \in Seq({0, 1})
  BY SeqDef DEF Octet
<1> QED BY <1>1, LenProperties DEF Octet

LEMMA BitType ==
    ASSUME NEW b, NEW k \in Nat, k \in 1 .. 8 => b \in Octet
    PROVE  Bit(b, k) \in {0, 1}
BY DEF Bit, Octet

LEMMA Filled ==
    ASSUME NEW s, Len(s) # 0
    PROVE  s # <<>>
<1>1. Len(<<>>) = 0
  BY EmptySeq
<1>2. s = <<>> => Len(s) = Len(<<>>)
  OBVIOUS
<1> QED BY <1>1, <1>2, Zenon

LEMMA Shifted ==
    ASSUME NEW S, NEW s \in Seq(S), s # <<>>, NEW x \in S
    PROVE  /\ Append(Tail(s), x) \in Seq(S) /\ Len(Append(Tail(s), x)) = Len(s)
           /\ \A i \in 1 .. Len(s) : Append(Tail(s), x)[i] = IF i = Len(s) THEN x ELSE s[i + 1]
           /\ Head(s) = s[1]
<1> DEFINE n == Len(s)
<1>1. n \in Nat \ {0}
  BY EmptySeq
<1>2. /\ Head(s) = s[1] /\ Tail(s) \in Seq(S) /\ Len(Tail(s)) = n - 1
      /\ \A i \in 1 .. n - 1 : Tail(s)[i] = s[i + 1]
  BY HeadTailProperties
<1> DEFINE t == Tail(s)
<1> HIDE DEF n
<1>3. n \in Nat \ {0} /\ t \in Seq(S) /\ Len(t) = n - 1 /\ \A i \in 1 .. n - 1 : t[i] = s[i + 1]
  BY <1>1, <1>2
<1> HIDE DEF t
<1>4. /\ Append(t, x) \in Seq(S) /\ Len(Append(t, x)) = n
      /\ \A i \in 1 .. n - 1 : Append(t, x)[i] = t[i]
      /\ Append(t, x)[n] = x
  BY <1>3, AppendProperties
<1>5. ASSUME NEW i \in 1 .. n PROVE Append(t, x)[i] = IF i = n THEN x ELSE s[i + 1]
  <2>1. CASE i = n
    BY <2>1, <1>4
  <2>2. CASE i # n
    <3>1. i \in 1 .. n - 1
      BY <2>2, <1>1
    <3> QED BY <3>1, <2>2, <1>3, <1>4
  <2> QED BY <2>1, <2>2
<1> QED BY <1>2, <1>4, <1>5 DEF t, n

LEMMA Longer ==
    ASSUME NEW S, NEW s \in Seq(S), NEW b \in S
    PROVE  /\ Append(s, b) \in Seq(S) /\ Len(Append(s, b)) = Len(s) + 1 /\ Append(s, b) # <<>>
           /\ Latest(Append(s, b)) = b /\ Append(s, b)[Len(s) + 1] = b
           /\ \A i \in 1 .. Len(s) : Append(s, b)[i] = s[i]
           /\ Len(s) \in Nat /\ (s # <<>> <=> Len(s) > 0)
<1>1. Len(s) \in Nat /\ (s # <<>> <=> Len(s) > 0)
  BY LenProperties, EmptySeq
<1>2. /\ Append(s, b) \in Seq(S) /\ Len(Append(s, b)) = Len(s) + 1
      /\ Append(s, b)[Len(s) + 1] = b /\ \A i \in 1 .. Len(s) : Append(s, b)[i] = s[i]
  BY AppendProperties
<1>3. Append(s, b) # <<>>
  BY AppendSome
<1> QED BY <1>1, <1>2, <1>3 DEF Latest

-----------------------------------------------------------------------------
(* The transmitter of the board.                                              *)

\* What the transmitter's registers say together: how old its byte is, and so which bit
\* is on the line.
LEMMA TxLine ==
    ASSUME Kinds, TxShape, CLOCKS_PER_BAUD \in Nat, CLOCKS_PER_BAUD >= 3
    PROVE  /\ TxAge \in 0 .. 10 * CLOCKS_PER_BAUD - 1
           /\ TxAge = 10 * CLOCKS_PER_BAUD - 1 <=> tx_state = TXUL_IDLE
           /\ TxAge < 10 * CLOCKS_PER_BAUD - 1 => said # <<>>
           /\ TxAge >= 9 * CLOCKS_PER_BAUD => o_uart_tx = 1
           /\ \A k \in 0 .. 8 :
                 k * CLOCKS_PER_BAUD <= TxAge /\ TxAge < (k + 1) * CLOCKS_PER_BAUD
                   => o_uart_tx = Bit(Latest(said), k)
           /\ o_uart_tx \in {0, 1}
<1> DEFINE C == CLOCKS_PER_BAUD
<1> DEFINE k == tx_state
<1>1. CASE tx_state = TXUL_IDLE
  <2>1. TxAge = 10 * C - 1 /\ o_uart_tx = 1
    BY <1>1 DEF TxAge, TxShape, Bit, TXUL_IDLE, TXUL_STOP
  <2>2. \A m \in 0 .. 8 : (m + 1) * C <= 9 * C
    BY Times
  <2> QED BY <1>1, <2>1, <2>2
<1>2. CASE k = 9 /\ tx_baud_counter \in 0 .. C - 2 /\ said # <<>>
  <2>1. TxAge = 9 * C + (C - 2 - tx_baud_counter) /\ o_uart_tx = 1 /\ tx_state # TXUL_IDLE
    BY <1>2 DEF TxAge, TxShape, Bit, TXUL_IDLE, TXUL_STOP
  <2>2. \A m \in 0 .. 8 : (m + 1) * C <= 9 * C
    BY Times
  <2> QED BY <1>2, <2>1, <2>2
<1>3. CASE k \in 0 .. 8 /\ tx_baud_counter \in 0 .. C - 1 /\ said # <<>>
  <2>1. TxAge = k * C + (C - 1 - tx_baud_counter) /\ o_uart_tx = Bit(Latest(said), k)
        /\ tx_state # TXUL_IDLE
    BY <1>3 DEF TxAge, TxShape, TXUL_IDLE, TXUL_STOP
  <2>2. k * C \in Nat /\ (k + 1) * C = k * C + C /\ k * C <= 8 * C
    BY <1>3, Times
  <2>3. TxAge \in 0 .. 9 * C - 1 /\ k * C <= TxAge /\ TxAge < (k + 1) * C
    BY <2>1, <2>2, <1>3
  <2>4. ASSUME NEW m \in 0 .. 8, m * C <= TxAge, TxAge < (m + 1) * C
        PROVE  m = k
    BY <2>3, <2>4, <1>3, SameBit
  <2>5. Latest(said) \in Octet
    BY <1>3, EmptySeq, ElementOfSeq DEF Kinds, Latest
  <2>6. o_uart_tx \in {0, 1}
    BY <2>1, <2>5, <1>3, BitType
  <2> QED BY <2>1, <2>3, <2>4, <2>6, <1>3
<1> QED BY <1>1, <1>2, <1>3 DEF TxShape, TXUL_STOP

LEMMA TxStep ==
    ASSUME Kinds, TxShape, CLOCKS_PER_BAUD \in Nat, CLOCKS_PER_BAUD >= 3, UNCHANGED CLOCKS_PER_BAUD,
           NEW i_wr \in BOOLEAN, NEW byte \in Octet, TxTick(i_wr, byte),
           said' = IF Takes(i_wr) THEN Append(said, byte) ELSE said
    PROVE  /\ TxShape'
           /\ Takes(i_wr) => TxAge = 10 * CLOCKS_PER_BAUD - 1 /\ TxAge' = 0
           /\ ~Takes(i_wr) => TxAge' = IF TxAge = 10 * CLOCKS_PER_BAUD - 1 THEN TxAge ELSE TxAge + 1
           /\ tx_state' = TXUL_IDLE => ~r_busy'
<1> DEFINE C == CLOCKS_PER_BAUD
<1>1. said \in Seq(Octet) /\ C \in Nat /\ C >= 3 /\ C' = C
  BY DEF Kinds
<1> DEFINE next == Append(Tail(lcl_data), 1)
<1>2. /\ next \in Seq({0, 1}) /\ Len(next) = 8
      /\ \A i \in 1 .. 8 : next[i] = IF i = 8 THEN 1 ELSE lcl_data[i + 1]
      /\ Head(lcl_data) = lcl_data[1]
  <2> DEFINE Bits == {0, 1}
  <2>1. lcl_data \in Seq(Bits) /\ Len(lcl_data) = 8 /\ 1 \in Bits
    BY DEF TxShape
  <2> HIDE DEF Bits
  <2>2. lcl_data # <<>>
    <3>1. Len(lcl_data) # 0
      BY <2>1
    <3> QED BY <3>1, Filled, Zenon
  <2>3. /\ next \in Seq(Bits) /\ Len(next) = Len(lcl_data)
        /\ \A i \in 1 .. Len(lcl_data) :
              next[i] = IF i = Len(lcl_data) THEN 1 ELSE lcl_data[i + 1]
        /\ Head(lcl_data) = lcl_data[1]
    BY <2>1, <2>2, Shifted, Zenon
  <2> HIDE DEF next
  <2> QED BY <2>1, <2>3 DEF Bits
<1>5. /\ lcl_data' = IF Takes(i_wr) THEN byte ELSE IF tx_zero_baud_counter THEN next ELSE lcl_data
      /\ o_uart_tx' = IF Takes(i_wr) THEN 0
                      ELSE IF tx_zero_baud_counter THEN lcl_data[1] ELSE o_uart_tx
  BY <1>2 DEF TxTick, Shift
<1>6. Takes(i_wr) \in BOOLEAN /\ r_busy \in BOOLEAN /\ TxState(i_wr) /\ TxBaud(i_wr)
  BY DEF Takes, TxShape, TxTick
<1> HIDE DEF next
\* A byte begins.
<1>3. CASE Takes(i_wr)
  <2>1. tx_state = TXUL_IDLE /\ tx_baud_counter = 0 /\ tx_zero_baud_counter
    BY <1>3 DEF Takes, TxShape
  <2>2. /\ r_busy' = TRUE /\ tx_state' = 0 /\ lcl_data' = byte /\ o_uart_tx' = 0
        /\ tx_baud_counter' = C - 1 /\ tx_zero_baud_counter' = FALSE
    BY <1>3, <1>5, <1>6, <2>1 DEF TxState, TxBaud, TXUL_IDLE, TXUL_STOP, TXUL_BIT_ZERO
  <2>3. Latest(said)' = byte /\ said' # <<>>
    BY <1>1, <1>3, Longer DEF Latest
  <2>4. lcl_data' \in Seq({0, 1}) /\ Len(lcl_data') = 8
    BY <2>2, OctetIsSeq
  <2>5. \A i \in 1 .. 8 : lcl_data'[i] = Bit(Latest(said)', tx_state' + i)
    BY <2>2, <2>3 DEF Bit
  <2>6. o_uart_tx' = Bit(Latest(said)', tx_state')
    BY <2>2 DEF Bit
  <2>7. TxShape'
    BY <2>2, <2>3, <2>4, <2>5, <2>6, <1>1 DEF TxShape, TXUL_IDLE, TXUL_STOP
  <2>8. TxAge = 10 * C - 1 /\ TxAge' = 0
    BY <2>1, <2>2, <1>1 DEF TxAge, TXUL_IDLE, TXUL_STOP
  <2> QED BY <1>3, <2>7, <2>8, <2>2 DEF TXUL_IDLE
<1>4. CASE ~Takes(i_wr)
  <2>1. said' = said /\ Latest(said)' = Latest(said)
    BY <1>4 DEF Latest
  \* It waits.
  <2>2. CASE tx_state = TXUL_IDLE
    <3>1. tx_zero_baud_counter /\ tx_baud_counter = 0
      BY <2>2 DEF TxShape, TXUL_IDLE, TXUL_STOP
    <3>2. /\ r_busy' = FALSE /\ tx_state' = TXUL_IDLE /\ o_uart_tx' = lcl_data[1]
          /\ lcl_data' = next
          /\ tx_baud_counter' = 0 /\ tx_zero_baud_counter' = TRUE
      BY <1>5, <1>6, <1>4, <2>2, <3>1 DEF TxState, TxBaud, TXUL_IDLE, TXUL_STOP
    <3>3. \A i \in 1 .. 8 : lcl_data[i] = 1
      BY <2>2 DEF TxShape, Bit, TXUL_IDLE
    <3>4. \A i \in 1 .. 8 : lcl_data'[i] = Bit(Latest(said)', tx_state' + i)
      BY <1>2, <3>2, <3>3 DEF Bit, TXUL_IDLE
    <3>5. o_uart_tx' = Bit(Latest(said)', tx_state')
      BY <3>2, <3>3 DEF Bit, TXUL_IDLE
    <3>6. TxShape'
      BY <1>2, <3>2, <3>4, <3>5 DEF TxShape
    <3>7. TxAge = 10 * C - 1 /\ TxAge' = 10 * C - 1
      BY <2>2, <3>2, <1>1 DEF TxAge, TXUL_IDLE, TXUL_STOP
    <3> QED BY <1>4, <3>2, <3>6, <3>7
  \* It is within a bit.
  <2>3. CASE tx_state # TXUL_IDLE /\ ~tx_zero_baud_counter
    <3>1. tx_state \in 0 .. 9 /\ tx_baud_counter \in 1 .. C - 1 /\ r_busy /\ said # <<>>
          /\ (tx_state = 9 => tx_baud_counter <= C - 2)
      <4>1. tx_baud_counter # 0
        BY <2>3 DEF TxShape
      <4>2. CASE tx_state \in 0 .. 8 /\ tx_baud_counter \in 0 .. C - 1 /\ r_busy /\ said # <<>>
        BY <4>1, <4>2, <1>1
      <4>3. CASE tx_state = 9 /\ tx_baud_counter \in 0 .. C - 2 /\ r_busy /\ said # <<>>
        BY <4>1, <4>3, <1>1
      <4> QED BY <2>3, <4>2, <4>3 DEF TxShape, TXUL_STOP
    <3>2. /\ r_busy' = TRUE /\ UNCHANGED <<tx_state, o_uart_tx, lcl_data>>
          /\ tx_baud_counter' = tx_baud_counter - 1
          /\ tx_zero_baud_counter' = (tx_baud_counter = 1)
      BY <1>4, <1>5, <1>6, <2>3 DEF TxState, TxBaud
    <3>3. TxShape'
      <4>1. tx_zero_baud_counter' <=> tx_baud_counter' = 0
        <5>1. tx_zero_baud_counter' = (tx_baud_counter = 1)
          BY <3>2
        <5>2. tx_baud_counter = 1 <=> tx_baud_counter' = 0
          BY <3>1, <3>2, <1>1
        <5> QED BY <5>1, <5>2, Zenon
      <4>2. \/ tx_state' \in 0 .. 8 /\ tx_baud_counter' \in 0 .. C' - 1
            \/ tx_state' = 9 /\ tx_baud_counter' \in 0 .. C' - 2
        BY <3>1, <3>2, <1>1
      <4>3. tx_state' # TXUL_IDLE
        BY <2>3, <3>2
      <4>4. /\ o_uart_tx' = Bit(Latest(said)', tx_state')
            /\ \A i \in 1 .. 8 : lcl_data'[i] = Bit(Latest(said)', tx_state' + i)
        BY <2>1, <3>2 DEF TxShape
      <4>5. lcl_data' \in Seq({0, 1}) /\ Len(lcl_data') = 8
        BY <3>2 DEF TxShape
      <4> QED BY <2>1, <3>1, <3>2, <4>1, <4>2, <4>3, <4>4, <4>5 DEF TxShape, TXUL_STOP
    <3>4. tx_state * C \in Nat
      BY <3>1, <1>1
    <3>5. TxAge' = TxAge + 1 /\ TxAge # 10 * C - 1
      <4>1. CASE tx_state = 9
        BY <4>1, <3>1, <3>2, <1>1 DEF TxAge, TXUL_STOP, TXUL_IDLE
      <4>2. CASE tx_state \in 0 .. 8
        <5>1. /\ TxAge = tx_state * C + (C - 1 - tx_baud_counter)
              /\ TxAge' = tx_state * C + (C - 1 - (tx_baud_counter - 1))
          BY <4>2, <3>2, <1>1 DEF TxAge, TXUL_STOP, TXUL_IDLE
        <5>2. tx_state * C <= 8 * C
          BY <4>2, Times
        <5> QED BY <5>1, <5>2, <3>1, <3>4, <1>1
      <4> QED BY <3>1, <4>1, <4>2
    <3> QED BY <1>4, <2>3, <3>2, <3>3, <3>5
  \* A bit begins.
  <2>4. CASE tx_state \in 0 .. 8 /\ tx_zero_baud_counter
    <3>1. tx_baud_counter = 0 /\ r_busy /\ said # <<>>
      BY <2>4 DEF TxShape, TXUL_STOP, TXUL_IDLE
    <3>2. /\ r_busy' = TRUE /\ tx_state' = tx_state + 1
          /\ o_uart_tx' = lcl_data[1] /\ lcl_data' = next
          /\ tx_zero_baud_counter' = FALSE
          /\ tx_baud_counter' = IF tx_state = 8 THEN C - 2 ELSE C - 1
      BY <1>5, <1>6, <1>4, <2>4, <3>1 DEF TxState, TxBaud, StopCount, TXUL_IDLE, TXUL_STOP
    <3>3. \A i \in 1 .. 8 : lcl_data[i] = Bit(Latest(said), tx_state + i)
      BY DEF TxShape
    <3>4. o_uart_tx' = Bit(Latest(said)', tx_state')
      BY <3>2, <3>3, <2>1
    <3>5. ASSUME NEW i \in 1 .. 8
          PROVE  lcl_data'[i] = Bit(Latest(said)', tx_state' + i)
      <4>1. CASE i = 8
        BY <4>1, <3>2, <1>2, <2>4 DEF Bit
      <4>2. CASE i # 8
        <5>1. i + 1 \in 1 .. 8 /\ tx_state + (i + 1) = tx_state' + i
          BY <4>2, <3>2, <2>4
        <5>2. lcl_data'[i] = lcl_data[i + 1]
          BY <4>2, <3>2, <1>2
        <5> QED BY <5>1, <5>2, <3>3, <2>1
      <4> QED BY <4>1, <4>2
    <3>6. TxShape'
      <4>1. tx_state' \in 0 .. 8 \/ tx_state' = 9
        BY <2>4, <3>2
      <4> QED BY <1>1, <1>2, <2>1, <2>4, <3>1, <3>2, <3>4, <3>5, <4>1 DEF TxShape, TXUL_STOP, TXUL_IDLE
    <3>7. TxAge = tx_state * C + C - 1
      BY <2>4, <3>1, <1>1 DEF TxAge, TXUL_STOP, TXUL_IDLE
    <3>8. tx_state * C \in Nat /\ (tx_state + 1) * C = tx_state * C + C /\ tx_state * C <= 8 * C
      BY <2>4, <1>1, Times
    <3>9. TxAge' = TxAge + 1
      <4>1. CASE tx_state = 8
        BY <4>1, <3>2, <3>7, <1>1 DEF TxAge, TXUL_STOP, TXUL_IDLE
      <4>2. CASE tx_state \in 0 .. 7
        <5>1. TxAge' = (tx_state + 1) * C + (C - 1 - (C - 1))
          BY <4>2, <3>2, <1>1 DEF TxAge, TXUL_STOP, TXUL_IDLE
        <5> QED BY <5>1, <3>7, <3>8, <1>1
      <4> QED BY <2>4, <4>1, <4>2
    <3>10. TxAge # 10 * C - 1
      BY <3>7, <3>8, <1>1
    <3>11. tx_state' # TXUL_IDLE
      BY <2>4, <3>2 DEF TXUL_IDLE
    <3> QED BY <1>4, <3>6, <3>9, <3>10, <3>11
  \* The stop bit ends.
  <2>5. CASE tx_state = 9 /\ tx_zero_baud_counter
    <3>1. tx_baud_counter = 0 /\ r_busy /\ said # <<>>
      BY <2>5 DEF TxShape, TXUL_STOP, TXUL_IDLE
    <3>2. /\ r_busy' = FALSE /\ tx_state' = TXUL_IDLE
          /\ o_uart_tx' = lcl_data[1] /\ lcl_data' = next
          /\ tx_zero_baud_counter' = TRUE /\ tx_baud_counter' = 0
      BY <1>5, <1>6, <1>4, <2>5, <3>1 DEF TxState, TxBaud, TXUL_IDLE, TXUL_STOP
    <3>3. \A i \in 1 .. 8 : lcl_data[i] = 1
      BY <2>5 DEF TxShape, Bit
    <3>4. /\ o_uart_tx' = Bit(Latest(said)', tx_state')
          /\ \A i \in 1 .. 8 : lcl_data'[i] = Bit(Latest(said)', tx_state' + i)
      BY <1>2, <3>2, <3>3 DEF Bit, TXUL_IDLE
    <3>5. TxShape'
      BY <1>2, <3>2, <3>4 DEF TxShape
    <3>6. TxAge = 10 * C - 2 /\ TxAge' = 10 * C - 1
      BY <2>5, <3>1, <3>2, <1>1 DEF TxAge, TXUL_IDLE, TXUL_STOP
    <3> QED BY <1>4, <3>2, <3>5, <3>6, <1>1
  <2>6. tx_state = TXUL_IDLE \/ tx_state \in 0 .. 8 \/ tx_state = 9
    BY DEF TxShape, TXUL_STOP
  <2> QED BY <2>2, <2>3, <2>4, <2>5, <2>6
<1> QED BY <1>3, <1>4

-----------------------------------------------------------------------------
(* The transmitter of UARTSIM.                                                *)

\* With busy bits to go and counter ticks of this one, the age of a byte.
LEMMA AgeOf ==
    ASSUME NEW b \in Nat, b >= 2, NEW busy \in 0 .. 10, NEW counter \in 0 .. b - 1, NEW age,
           age = IF busy = 0 THEN 10 * b ELSE (10 - busy) * b + (b - 1 - counter)
    PROVE  /\ age \in 0 .. 10 * b /\ (age = 10 * b <=> busy = 0)
           /\ \A k \in 0 .. 8 : k * b <= age /\ age < (k + 1) * b => k = 10 - busy
           /\ age >= 9 * b => busy <= 1
<1>1. CASE busy = 0
  <2>1. \A k \in 0 .. 8 : (k + 1) * b <= 9 * b
    BY Times
  <2> QED BY <1>1, <2>1
<1>2. CASE busy # 0
  <2> DEFINE n == 10 - busy
  <2>1. n \in 0 .. 9 /\ busy = 10 - n
    BY <1>2
  <2>2. age = n * b + (b - 1 - counter)
    BY <1>2
  <2>3. n * b \in Nat /\ (n + 1) * b = n * b + b /\ n * b <= 9 * b
    BY <2>1, Times
  <2>4. n * b <= age /\ age < (n + 1) * b /\ age \in Nat
    BY <2>2, <2>3
  <2>5. ASSUME NEW k \in 0 .. 8, k * b <= age, age < (k + 1) * b
        PROVE  k = n
    BY <2>1, <2>4, <2>5, SameBit
  <2>6. n < 9 => age < 9 * b
    <3>1. n < 9 => (n + 1) * b <= 9 * b
      BY <2>1, Times
    <3> QED BY <2>3, <2>4, <3>1
  <2> HIDE DEF n
  <2>7. age < 10 * b
    BY <2>3, <2>4
  <2> QED BY <1>2, <2>1, <2>4, <2>5, <2>6, <2>7 DEF n
<1> QED BY <1>1, <1>2

\* What Transmit does, whatever the connection.
Loads(byte) ==
    /\ m_tx_state = "TXIDLE"
    /\ m_tx_data' = <<0>> \o byte \o <<1>> /\ taken' = Append(taken, byte)
    /\ m_tx_busy' = 10 /\ m_tx_state' = "TXDATA" /\ m_tx_baudcounter' = m_baud_counts - 1
Transmits ==
    \/ m_tx_state = "TXIDLE" /\ UNCHANGED <<sim_tx, taken>>
    \/ m_tx_state = "TXDATA" /\ m_tx_baudcounter <= 0 /\ NextBit /\ UNCHANGED taken
    \/ /\ m_tx_state = "TXDATA" /\ m_tx_baudcounter > 0
       /\ m_tx_baudcounter' = m_tx_baudcounter - 1
       /\ UNCHANGED <<m_tx_state, m_tx_data, m_tx_busy, taken>>

LEMMA SimAges ==
    ASSUME SimShape, m_baud_counts \in Nat, m_baud_counts >= 2
    PROVE  /\ SimAge \in 0 .. 10 * m_baud_counts
           /\ SimAge = 10 * m_baud_counts <=> m_tx_state = "TXIDLE"
           /\ SimAge < 10 * m_baud_counts => taken # <<>>
<1>1. m_tx_busy \in 0 .. 10 /\ m_tx_baudcounter \in 0 .. m_baud_counts - 1
      /\ (m_tx_busy = 0 <=> m_tx_state = "TXIDLE") /\ (m_tx_state # "TXIDLE" => taken # <<>>)
  BY DEF SimShape
<1>2. SimAge = IF m_tx_busy = 0 THEN 10 * m_baud_counts
               ELSE (10 - m_tx_busy) * m_baud_counts + (m_baud_counts - 1 - m_tx_baudcounter)
  BY <1>1 DEF SimAge
<1> DEFINE age == SimAge
<1> HIDE DEF age
<1>3. /\ age \in 0 .. 10 * m_baud_counts
      /\ age = 10 * m_baud_counts <=> m_tx_busy = 0
  BY <1>1, <1>2, AgeOf DEF age
<1> QED BY <1>1, <1>3 DEF age

LEMMA SimStep ==
    ASSUME Kinds, SimShape, m_baud_counts \in Nat, m_baud_counts >= 2, UNCHANGED m_baud_counts,
           (\E byte \in Octet : Loads(byte)) \/ Transmits
    PROVE  /\ SimShape' /\ SimAge' \in Int
           /\ \/ SimAge = 10 * m_baud_counts /\ SimAge' = 0
                 /\ \E byte \in Octet : taken' = Append(taken, byte)
              \/ /\ taken' = taken
                 /\ SimAge' = IF SimAge = 10 * m_baud_counts THEN SimAge ELSE SimAge + 1
           /\ o_rx = Bit(Latest(taken)', 10 - m_tx_busy')
<1> DEFINE B == m_baud_counts
<1>1. taken \in Seq(Octet) /\ B \in Nat /\ B >= 2 /\ B' = B
  BY DEF Kinds
<1>2. CASE \E byte \in Octet : Loads(byte)
  <2>1. PICK byte \in Octet : Loads(byte)
    BY <1>2
  <2>2. Latest(taken)' = byte /\ taken' # <<>>
    BY <1>1, <2>1, Longer DEF Latest, Loads
  <2> DEFINE frame == <<0>> \o byte \o <<1>>
  <2>3. frame \in Seq({0, 1}) /\ Len(frame) = 10 /\ \A i \in 1 .. 10 : frame[i] = Bit(byte, i - 1)
    <3> DEFINE Bits == {0, 1}
    <3> DEFINE zero == <<0>>
    <3> DEFINE one == <<1>>
    <3>1. byte \in Seq(Bits) /\ Len(byte) = 8
      BY OctetIsSeq
    <3>2. zero \in Seq(Bits) /\ Len(zero) = 1 /\ zero[1] = 0
          /\ one \in Seq(Bits) /\ Len(one) = 1 /\ one[1] = 1
      OBVIOUS
    <3> HIDE DEF Bits, zero, one
    <3> DEFINE front == zero \o byte
    <3>3. front \in Seq(Bits) /\ Len(front) = 9 /\ front[1] = 0 /\ \A i \in 1 .. 8 : front[1 + i] = byte[i]
      <4>1. /\ front \in Seq(Bits) /\ Len(front) = Len(zero) + Len(byte)
            /\ \A i \in 1 .. Len(zero) + Len(byte) :
                  front[i] = IF i <= Len(zero) THEN zero[i] ELSE byte[i - Len(zero)]
        BY <3>1, <3>2, ConcatProperties, Zenon
      <4> HIDE DEF front
      <4>2. \A i \in 1 .. 9 : front[i] = IF i <= 1 THEN zero[i] ELSE byte[i - 1]
        BY <4>1, <3>1, <3>2
      <4> QED BY <4>1, <4>2, <3>1, <3>2
    <3> HIDE DEF front
    <3> DEFINE whole == front \o one
    <3>4. whole \in Seq(Bits) /\ Len(whole) = 10 /\ (\A i \in 1 .. 9 : whole[i] = front[i])
          /\ whole[10] = 1
      <4>1. /\ whole \in Seq(Bits) /\ Len(whole) = Len(front) + Len(one)
            /\ \A i \in 1 .. Len(front) + Len(one) :
                  whole[i] = IF i <= Len(front) THEN front[i] ELSE one[i - Len(front)]
        BY <3>2, <3>3, ConcatProperties, Zenon
      <4> HIDE DEF whole
      <4>2. \A i \in 1 .. 10 : whole[i] = IF i <= 9 THEN front[i] ELSE one[i - 9]
        BY <4>1, <3>2, <3>3
      <4> QED BY <4>1, <4>2, <3>2, <3>3
    <3> HIDE DEF whole
    <3>5. ASSUME NEW i \in 1 .. 10 PROVE whole[i] = Bit(byte, i - 1)
      <4>1. CASE i = 1
        BY <4>1, <3>3, <3>4 DEF Bit
      <4>2. CASE i \in 2 .. 9
        <5>1. i - 1 \in 1 .. 8 /\ 1 + (i - 1) = i
          BY <4>2
        <5>2. front[1 + (i - 1)] = byte[i - 1]
          BY <5>1, <3>3
        <5> QED BY <5>1, <5>2, <4>2, <3>4 DEF Bit
      <4>3. CASE i = 10
        BY <4>3, <3>4 DEF Bit
      <4> QED BY <4>1, <4>2, <4>3
    <3> QED BY <3>4, <3>5 DEF whole, front, zero, one, Bits
  <2>4. /\ m_tx_data' = frame /\ taken' = Append(taken, byte) /\ m_tx_state = "TXIDLE"
        /\ m_tx_busy' = 10 /\ m_tx_state' = "TXDATA" /\ m_tx_baudcounter' = B - 1
    BY <2>1 DEF Loads
  <2> HIDE DEF frame
  <2>5. \A i \in 1 .. 10 : m_tx_data'[i] = Bit(Latest(taken)', 10 - m_tx_busy' + i - 1)
    BY <2>2, <2>3, <2>4
  <2>6. SimShape'
    BY <1>1, <2>2, <2>3, <2>4, <2>5 DEF SimShape
  <2>7. SimAge = 10 * B /\ SimAge' = 0
    BY <1>1, <2>4 DEF SimAge
  <2>8. o_rx = Bit(Latest(taken)', 10 - m_tx_busy')
    <3>1. o_rx = Head(m_tx_data')
      BY <2>4 DEF o_rx
    <3>2. Head(m_tx_data') = m_tx_data'[1]
      BY <2>3, <2>4
    <3> QED BY <3>1, <3>2, <2>5, <2>4
  <2> QED BY <2>4, <2>6, <2>7, <2>8
<1>3. CASE Transmits
  <2>1. taken' = taken /\ Latest(taken)' = Latest(taken)
    BY <1>3 DEF Transmits, Latest
  <2>2. m_tx_busy \in 0 .. 10 /\ m_tx_baudcounter \in 0 .. B - 1
    BY DEF SimShape
  <2>3. CASE m_tx_state = "TXIDLE"
    <3>1. UNCHANGED <<m_tx_state, m_tx_baudcounter, m_tx_data, m_tx_busy>>
      BY <1>3, <2>3 DEF Transmits, sim_tx
    <3>2. SimShape'
      BY <1>1, <2>1, <3>1 DEF SimShape
    <3>3. SimAge = 10 * B /\ SimAge' = 10 * B
      BY <1>1, <2>3, <3>1 DEF SimAge
    <3>4. o_rx = 1 /\ m_tx_busy' = 0
      BY <2>3, <3>1 DEF o_rx, SimShape
    <3> QED BY <2>1, <3>2, <3>3, <3>4, <1>1 DEF Bit
  <2>4. CASE m_tx_state = "TXDATA" /\ m_tx_baudcounter > 0
    <3>1. m_tx_baudcounter' = m_tx_baudcounter - 1 /\ UNCHANGED <<m_tx_state, m_tx_data, m_tx_busy>>
      BY <1>3, <2>2, <2>4 DEF Transmits
    <3>2. SimShape'
      BY <1>1, <2>1, <2>2, <2>4, <3>1 DEF SimShape
    <3>3. (10 - m_tx_busy) * B \in Nat /\ m_tx_busy \in 1 .. 10
      BY <1>1, <2>2, <2>4 DEF SimShape
    <3>4. SimAge' = SimAge + 1 /\ SimAge \in Int
      BY <1>1, <2>2, <2>4, <3>1, <3>3 DEF SimAge
    <3>5. SimAge # 10 * B
      BY <1>1, <2>4, SimAges
    <3>6. o_rx = Bit(Latest(taken)', 10 - m_tx_busy')
      <4>1. o_rx = Head(m_tx_data')
        BY <2>4 DEF o_rx
      <4>2. Len(m_tx_data') = 10 /\ m_tx_data' \in Seq({0, 1})
            /\ m_tx_data'[1] = Bit(Latest(taken)', 10 - m_tx_busy' + 1 - 1)
        BY <3>2 DEF SimShape
      <4>3. Head(m_tx_data') = m_tx_data'[1]
        BY <4>2
      <4> QED BY <4>1, <4>2, <4>3, <3>1, <2>2
    <3> QED BY <2>1, <3>2, <3>4, <3>5, <3>6
  <2>5. CASE m_tx_state = "TXDATA" /\ m_tx_baudcounter = 0
    <3> DEFINE next == Append(Tail(m_tx_data), 1)
    <3>1. /\ next \in Seq({0, 1}) /\ Len(next) = 10
          /\ \A i \in 1 .. 10 : next[i] = IF i = 10 THEN 1 ELSE m_tx_data[i + 1]
      <4> DEFINE Bits == {0, 1}
      <4>1. m_tx_data \in Seq(Bits) /\ Len(m_tx_data) = 10 /\ 1 \in Bits
        BY DEF SimShape
      <4> HIDE DEF Bits
      <4>2. m_tx_data # <<>>
        <5>1. Len(m_tx_data) # 0
          BY <4>1
        <5> QED BY <5>1, Filled, Zenon
      <4>3. /\ next \in Seq(Bits) /\ Len(next) = Len(m_tx_data)
            /\ \A i \in 1 .. Len(m_tx_data) :
                  next[i] = IF i = Len(m_tx_data) THEN 1 ELSE m_tx_data[i + 1]
            /\ Head(m_tx_data) = m_tx_data[1]
        BY <4>1, <4>2, Shifted, Zenon
      <4> HIDE DEF next
      <4> QED BY <4>1, <4>3 DEF Bits
    <3>2. /\ m_tx_data' = next /\ m_tx_busy' = m_tx_busy - 1
          /\ m_tx_state' = IF m_tx_busy = 1 THEN "TXIDLE" ELSE "TXDATA"
          /\ m_tx_baudcounter' = IF m_tx_busy = 1 THEN m_tx_baudcounter ELSE B - 1
      BY <1>3, <2>5 DEF Transmits, NextBit
    <3> HIDE DEF next
    <3>3. m_tx_busy \in 1 .. 10 /\ taken # <<>>
          /\ \A i \in 1 .. 10 : m_tx_data[i] = Bit(Latest(taken), 10 - m_tx_busy + i - 1)
      BY <2>5 DEF SimShape
    <3>4. ASSUME NEW i \in 1 .. 10
          PROVE  m_tx_data'[i] = Bit(Latest(taken)', 10 - m_tx_busy' + i - 1)
      <4>1. CASE i = 10
        BY <4>1, <3>1, <3>2, <3>3 DEF Bit
      <4>2. CASE i # 10
        <5>1. i + 1 \in 1 .. 10 /\ 10 - m_tx_busy + (i + 1) - 1 = 10 - m_tx_busy' + i - 1
          BY <4>2, <3>2, <3>3
        <5>2. m_tx_data'[i] = m_tx_data[i + 1]
          BY <4>2, <3>1, <3>2
        <5> QED BY <5>1, <5>2, <3>3, <2>1
      <4> QED BY <4>1, <4>2
    <3>5. SimShape'
      <4>1. \/ m_tx_state' = "TXIDLE" /\ m_tx_busy' = 0
            \/ m_tx_state' = "TXDATA" /\ m_tx_busy' \in 1 .. 10 /\ taken' # <<>>
        BY <2>1, <3>2, <3>3
      <4>2. m_tx_baudcounter' \in 0 .. B' - 1
        BY <1>1, <2>5, <3>2
      <4> QED BY <3>1, <3>2, <3>4, <4>1, <4>2 DEF SimShape
    <3>6. SimAge' = SimAge + 1 /\ SimAge \in Int
      <4> DEFINE n == 10 - m_tx_busy
      <4>1. n \in 0 .. 9 /\ n * B \in Nat /\ (n + 1) * B = n * B + B
        BY <1>1, <3>3
      <4>2. SimAge = n * B + (B - 1)
        BY <1>1, <2>5 DEF SimAge
      <4>3. CASE m_tx_busy = 1
        BY <1>1, <3>2, <4>1, <4>2, <4>3 DEF SimAge
      <4>4. CASE m_tx_busy # 1
        <5>1. 10 - m_tx_busy' = n + 1
          BY <3>2, <3>3
        <5>2. SimAge' = (n + 1) * B + (B - 1 - (B - 1))
          BY <1>1, <3>2, <4>4, <5>1 DEF SimAge
        <5> HIDE DEF n
        <5> QED BY <1>1, <4>1, <4>2, <5>2
      <4> QED BY <4>3, <4>4
    <3>7. SimAge # 10 * B
      BY <1>1, <2>5, SimAges
    <3>8. o_rx = Bit(Latest(taken)', 10 - m_tx_busy')
      <4>1. o_rx = Head(m_tx_data')
        BY <2>5 DEF o_rx
      <4>2. m_tx_data'[1] = Bit(Latest(taken)', 10 - m_tx_busy' + 1 - 1)
        BY <3>4
      <4>3. Head(m_tx_data') = m_tx_data'[1]
        BY <3>1, <3>2
      <4> QED BY <4>1, <4>2, <4>3, <3>2, <3>3
    <3> QED BY <2>1, <3>5, <3>6, <3>7, <3>8
  <2>6. m_tx_state = "TXIDLE" \/ m_tx_state = "TXDATA"
    BY DEF SimShape
  <2> QED BY <2>2, <2>3, <2>4, <2>5, <2>6
<1> QED BY <1>2, <1>3

-----------------------------------------------------------------------------
(* A tick.                                                                    *)

LEMMA ConnTypes ==
    ASSUME NEW k \in Conns
    PROVE  /\ Closed(k) \in Conns /\ Gone(k) \in Conns
           /\ \A byte \in Octet : Sent(k, <<byte>>) \in Conns
           /\ \A byte \in Octet : [k EXCEPT !.up = Append(@, byte)] \in Conns
           /\ [k EXCEPT !.server = "accepted"] \in Conns /\ [k EXCEPT !.server = "waiting"] \in Conns
           /\ [k EXCEPT !.down = <<>>] \in Conns
           /\ k.up # <<>> => Head(k.up) \in Octet /\ [k EXCEPT !.up = Tail(@)] \in Conns
<1>1. <<>> \in Seq(Octet) /\ k.up \in Seq(Octet) /\ k.down \in Seq(Octet)
  BY EmptySeq DEF Conns
<1>2. Closed(k) \in Conns
  BY <1>1 DEF Closed, Conns
<1>3. Gone(k) \in Conns
  <2>1. (k.down # <<>>) \in BOOLEAN /\ (k.reset \/ k.down # <<>>) \in BOOLEAN
        /\ (k.err \/ k.down # <<>>) \in BOOLEAN
    OBVIOUS
  <2> QED BY <1>1, <2>1 DEF Gone, Conns
<1>4. ASSUME NEW byte \in Octet PROVE Sent(k, <<byte>>) \in Conns
  <2> DEFINE one == <<byte>>
  <2>1. one \in Seq(Octet)
    OBVIOUS
  <2> HIDE DEF one
  <2> DEFINE more == k.down \o one
  <2>2. more \in Seq(Octet)
    BY <1>1, <2>1, ConcatProperties
  <2> HIDE DEF more
  <2>3. [k EXCEPT !.reset = TRUE, !.err = TRUE] \in Conns /\ [k EXCEPT !.down = more] \in Conns
    BY <2>2 DEF Conns
  <2> QED BY <2>3 DEF Sent, more, one
<1>5. ASSUME NEW byte \in Octet PROVE [k EXCEPT !.up = Append(@, byte)] \in Conns
  <2>1. Append(k.up, byte) \in Seq(Octet)
    BY <1>1, AppendProperties
  <2> QED BY <2>1 DEF Conns
<1>6. /\ [k EXCEPT !.server = "accepted"] \in Conns /\ [k EXCEPT !.server = "waiting"] \in Conns
      /\ [k EXCEPT !.down = <<>>] \in Conns
  BY <1>1 DEF Conns
<1>7. ASSUME k.up # <<>> PROVE Head(k.up) \in Octet /\ [k EXCEPT !.up = Tail(@)] \in Conns
  <2>1. Head(k.up) \in Octet /\ Tail(k.up) \in Seq(Octet)
    BY <1>1, <1>7, HeadTailProperties
  <2> QED BY <2>1 DEF Conns
<1> QED BY <1>2, <1>3, <1>4, <1>5, <1>6, <1>7

States == [conn : [Clients -> Conns], con : Clients \cup {None}]

LEMMA HungType ==
    ASSUME NEW s \in States, s.con # None
    PROVE  Hung(s) \in States
<1>1. s.con \in Clients /\ s.conn \in [Clients -> Conns] /\ Closed(s.conn[s.con]) \in Conns
  BY ConnTypes DEF States
<1>2. [s.conn EXCEPT ![s.con] = Closed(@)] \in [Clients -> Conns]
  BY <1>1
<1> QED BY <1>2 DEF Hung, States

LEMMA PassType ==
    ASSUME NEW s \in States, NEW byte \in Octet
    PROVE  Pass(s, byte) \in States
<1>1. CASE s.con = None
  BY <1>1 DEF Pass
<1>2. CASE s.con # None /\ s.conn[s.con].reset
  BY <1>2, HungType DEF Pass
<1>3. CASE s.con # None /\ ~s.conn[s.con].reset
  <2>1. s.con \in Clients /\ s.conn \in [Clients -> Conns]
        /\ Sent(s.conn[s.con], <<byte>>) \in Conns
    BY <1>3, ConnTypes DEF States
  <2> DEFINE later == [s.conn EXCEPT ![s.con] = Sent(@, <<byte>>)]
  <2>2. later \in [Clients -> Conns]
    BY <2>1
  <2>3. Pass(s, byte) = [s EXCEPT !.conn = later]
    BY <1>3, <2>1 DEF Pass, States
  <2> HIDE DEF later
  <2> QED BY <2>2, <2>3 DEF States
<1> QED BY <1>1, <1>2, <1>3

\* RawTick, but for the connection: what it takes from there is a byte.
LEMMA RawParts ==
    ASSUME Kinds, m_rx_data \in Seq({0, 1}), NEW i_tx, RawTick(i_tx)
    PROVE  /\ SinceFall(i_tx) /\ m_last_tx' = i_tx /\ Receive(i_tx)
           /\ (\E byte \in Octet : Loads(byte)) \/ Transmits
           /\ conn' \in [Clients -> Conns] /\ con' \in Clients \cup {None}
<1>1. ASSUME NEW s \in check_for_new_connections
      PROVE  s \in States
  <2>1. [conn |-> conn, con |-> con] \in States
    BY DEF Kinds, States
  <2>2. ASSUME NEW c \in Waiting
        PROVE  [conn |-> [conn EXCEPT ![c].server = "accepted"], con |-> c] \in States
    <3>1. c \in Clients /\ conn \in [Clients -> Conns]
      BY DEF Waiting, Kinds
    <3>2. [conn[c] EXCEPT !.server = "accepted"] \in Conns
      BY <3>1, ConnTypes
    <3>3. [conn EXCEPT ![c].server = "accepted"] \in [Clients -> Conns]
      BY <3>1, <3>2
    <3> QED BY <3>1, <3>3 DEF States
  <2> QED BY <2>1, <2>2 DEF check_for_new_connections
<1>2. PICK s \in check_for_new_connections :
        LET t == AfterReceive(s)
            u == AfterTransmit(t)
        IN /\ SinceFall(i_tx) /\ m_last_tx' = i_tx
           /\ Receive(i_tx) /\ Transmit(t)
           /\ conn' = u.conn /\ con' = u.con
  BY DEF RawTick
<1> DEFINE t == AfterReceive(s)
<1>3. t \in States
  <2>1. Len(m_rx_data) >= 9 => Received \in Octet
    <3> SUFFICES ASSUME Len(m_rx_data) >= 9 PROVE Received \in Octet OBVIOUS
    <3>1. Len(m_rx_data) \in Nat /\ \A i \in 1 .. Len(m_rx_data) : m_rx_data[i] \in {0, 1}
      BY LenProperties, ElementOfSeq
    <3>2. \A i \in 1 .. 8 : m_rx_data[i] \in {0, 1}
      BY <3>1
    <3> DEFINE part == SubSeq(m_rx_data, 1, 8)
    <3>3. part = [i \in 1 .. 8 |-> m_rx_data[i]]
      BY <3>1
    <3> QED BY <3>2, <3>3 DEF Received, Octet, m_nbits
  <2>2. Full => Received \in Octet
    BY <2>1 DEF Full, m_nbits, m_nstop
  <2> QED BY <1>1, <2>2, PassType DEF AfterReceive
<1>4. Transmit(t) /\ conn' = AfterTransmit(t).conn /\ con' = AfterTransmit(t).con
  BY <1>2
<1> HIDE DEF t
<1>5. Reads(t) => /\ t.con \in Clients /\ t.conn[t.con] \in Conns /\ t.conn[t.con].up # <<>>
                  /\ Head(t.conn[t.con].up) \in Octet
  BY <1>3, ConnTypes DEF Reads, Looks, States
<1>6. (\E byte \in Octet : Loads(byte)) \/ Transmits
  <2>1. CASE Reads(t)
    <3>1. m_tx_state = "TXIDLE"
      BY <2>1 DEF Reads, Looks
    <3>2. Loads(Head(t.conn[t.con].up))
      <4> DEFINE byte == Head(t.conn[t.con].up)
      <4>1. /\ m_tx_data' = <<0>> \o byte \o <<1>> /\ taken' = Append(taken, byte)
            /\ m_tx_busy' = m_nbits + m_nstop + 1 /\ m_tx_state' = "TXDATA"
            /\ m_tx_baudcounter' = m_baud_counts - 1
        BY <1>4, <2>1, <3>1, Zenon DEF Transmit
      <4> HIDE DEF byte
      <4>2. m_nbits + m_nstop + 1 = 10
        BY DEF m_nbits, m_nstop
      <4>3. Loads(byte)
        BY <3>1, <4>1, <4>2 DEF Loads
      <4> QED BY <4>3 DEF byte
    <3> QED BY <1>5, <2>1, <3>2
  <2>2. CASE ~Reads(t)
    BY <1>4, <2>2 DEF Transmit, Transmits
  <2> QED BY <2>1, <2>2
<1>7. AfterTransmit(t) \in States
  <2>1. CASE Reads(t)
    <3> DEFINE c == t.con
    <3>1. c \in Clients /\ t.conn \in [Clients -> Conns]
          /\ [t.conn[c] EXCEPT !.up = Tail(@)] \in Conns
      BY <1>3, <1>5, <2>1, ConnTypes DEF States
    <3> DEFINE later == [t.conn EXCEPT ![c] = [t.conn[c] EXCEPT !.up = Tail(@)]]
    <3>2. later \in [Clients -> Conns]
      BY <3>1
    <3>3. AfterTransmit(t) = [t EXCEPT !.conn = later]
      BY <1>3, <2>1, <3>1 DEF AfterTransmit, States
    <3> HIDE DEF later, c
    <3> QED BY <1>3, <3>2, <3>3 DEF States
  <2>2. CASE ~Reads(t) /\ AtEnd(t)
    <3>1. t.con # None
      BY <2>2 DEF AtEnd, Looks
    <3> QED BY <1>3, <2>2, <3>1, HungType DEF AfterTransmit
  <2>3. CASE ~Reads(t) /\ ~AtEnd(t)
    BY <1>3, <2>3 DEF AfterTransmit
  <2> QED BY <2>1, <2>2, <2>3
<1>8. conn' \in [Clients -> Conns] /\ con' \in Clients \cup {None}
  BY <1>4, <1>7 DEF States
<1> QED BY <1>2, <1>6, <1>8

\* What a tick does: the board takes a byte or none, and unless autotest keeps the line
\* high, each side is given the line of the other.
LEMMA TickParts ==
    ASSUME Kinds, m_rx_data \in Seq({0, 1}), Tick
    PROVE  \E i_wr \in BOOLEAN, byte \in Octet :
              /\ MustSay => i_wr
              /\ TxTick(i_wr, byte)
              /\ said' = IF Takes(i_wr) THEN Append(said, byte) ELSE said
              /\ heard' = IF o_wr THEN Append(heard, o_data) ELSE heard
              /\ UNCHANGED settings
              /\ m_ticks' = IF Quiet THEN m_ticks + 1 ELSE m_ticks
              /\ Quiet => UNCHANGED <<conn, sim_vars>> /\ RxTick(1)
              /\ ~Quiet => /\ SinceFall(o_uart_tx) /\ m_last_tx' = o_uart_tx /\ Receive(o_uart_tx)
                           /\ (\E b \in Octet : Loads(b)) \/ Transmits
                           /\ conn' \in [Clients -> Conns] /\ con' \in Clients \cup {None}
                           /\ RxTick(o_rx)
<1>1. PICK i_wr \in BOOLEAN, byte \in Bytes :
        /\ MustSay => i_wr
        /\ IF Quiet THEN UNCHANGED <<conn, sim_vars>> /\ Board(1, i_wr, byte)
           ELSE RawTick(o_uart_tx) /\ Board(o_rx, i_wr, byte)
  BY Zenon DEF Tick
<1>2. /\ m_ticks' = IF Quiet THEN m_ticks + 1 ELSE m_ticks
      /\ UNCHANGED settings
  BY Zenon DEF Tick
<1>3. byte \in Octet
  BY SettingsAssumption DEF Octet
<1>4. /\ TxTick(i_wr, byte)
      /\ said' = IF Takes(i_wr) THEN Append(said, byte) ELSE said
      /\ heard' = IF o_wr THEN Append(heard, o_data) ELSE heard
  BY <1>1, Zenon DEF Board
<1>5. Quiet => UNCHANGED <<conn, sim_vars>> /\ RxTick(1)
  BY <1>1, Zenon DEF Board
<1>6. ASSUME ~Quiet
      PROVE  /\ SinceFall(o_uart_tx) /\ m_last_tx' = o_uart_tx /\ Receive(o_uart_tx)
             /\ (\E b \in Octet : Loads(b)) \/ Transmits
             /\ conn' \in [Clients -> Conns] /\ con' \in Clients \cup {None}
             /\ RxTick(o_rx)
  <2>1. RawTick(o_uart_tx) /\ Board(o_rx, i_wr, byte)
    BY <1>1, <1>6, Zenon
  <2>2. RxTick(o_rx)
    BY <2>1, Zenon DEF Board
  <2>3. /\ SinceFall(o_uart_tx) /\ m_last_tx' = o_uart_tx /\ Receive(o_uart_tx)
        /\ (\E b \in Octet : Loads(b)) \/ Transmits
        /\ conn' \in [Clients -> Conns] /\ con' \in Clients \cup {None}
    BY <2>1, RawParts, Zenon
  <2> QED BY <2>2, <2>3, Zenon
<1> QED BY <1>1, <1>2, <1>3, <1>4, <1>5, <1>6, Zenon

-----------------------------------------------------------------------------
(* From the board to UARTSIM.                                                 *)

LEMMA Numbers ==
    ASSUME Kinds
    PROVE  network \in BOOLEAN /\ CLOCKS_PER_BAUD \in Nat /\ m_baud_counts \in Nat
BY SettingsAssumption DEF Kinds

\* What UARTSIM hears, once the third byte comes, grows by what the board says.
LEMMA SaidStep ==
    ASSUME Kinds, UNCHANGED network, NEW takes \in BOOLEAN, NEW byte \in Octet,
           said' = IF takes THEN Append(said, byte) ELSE said,
           ~network => Len(said) >= 2
    PROVE  /\ Said \in Seq(Octet) /\ Said' = IF takes THEN Append(Said, byte) ELSE Said
           /\ Len(Said) >= 1 => Latest(said) = Said[Len(Said)]
<1>1. said \in Seq(Octet) /\ network \in BOOLEAN /\ Len(said) \in Nat
  BY Numbers, LenProperties DEF Kinds
<1>2. CASE network
  BY <1>1, <1>2, Zenon DEF Said, Latest
<1>3. CASE ~network
  <2> DEFINE n == Len(said)
  <2> DEFINE t == SubSeq(said, 2 + 1, n)
  <2>1. t \in Seq(Octet) /\ Len(t) = n - 2 /\ \A i \in 1 .. n - 2 : t[i] = said[2 + i]
    <3>1. 2 \in 0 .. Len(said)
      BY <1>1, <1>3
    <3> QED BY <1>1, <3>1, Cut
  <2>2. Said = t /\ n \in Nat /\ n >= 2
    BY <1>1, <1>3 DEF Said, Greeting
  <2> HIDE DEF n, t
  <2>3. Len(Said) >= 1 => Latest(said) = Said[Len(Said)]
    <3> SUFFICES ASSUME Len(Said) >= 1 PROVE Latest(said) = Said[Len(Said)] OBVIOUS
    <3>1. n - 2 \in 1 .. n - 2 /\ 2 + (n - 2) = n /\ Len(t) = n - 2
      BY <2>1, <2>2
    <3>2. t[n - 2] = said[n]
      BY <2>1, <3>1
    <3> QED BY <2>2, <3>1, <3>2 DEF Latest, n
  <2>4. CASE ~takes
    BY <1>1, <2>1, <2>2, <2>3, <2>4, Zenon DEF Said
  <2>5. CASE takes
    <3> DEFINE s == Append(said, byte)
    <3>1. s \in Seq(Octet) /\ Len(s) = n + 1 /\ s[n + 1] = byte
          /\ \A i \in 1 .. n : s[i] = said[i]
      BY <1>1, Longer DEF n
    <3> HIDE DEF s
    <3> DEFINE u == SubSeq(s, 2 + 1, Len(s))
    <3>2. u \in Seq(Octet) /\ Len(u) = n - 1 /\ \A i \in 1 .. n - 1 : u[i] = s[2 + i]
      <4>1. 2 \in 0 .. Len(s)
        BY <3>1, <2>2
      <4>2. u \in Seq(Octet) /\ Len(u) = Len(s) - 2 /\ \A i \in 1 .. Len(s) - 2 : u[i] = s[2 + i]
        BY <3>1, <4>1, Cut
      <4>3. Len(s) - 2 = n - 1
        BY <3>1, <2>2
      <4> QED BY <4>2, <4>3
    <3>3. Said' = u
      <4>1. said' = s
        BY <2>5 DEF s
      <4>2. Said' = SubSeq(said', Greeting, Len(said'))
        BY <1>3, Zenon DEF Said
      <4> QED BY <4>1, <4>2 DEF Greeting
    <3> HIDE DEF u
    <3> DEFINE v == Append(t, byte)
    <3>4. v \in Seq(Octet) /\ Len(v) = n - 1 /\ v[n - 1] = byte /\ \A i \in 1 .. n - 2 : v[i] = t[i]
      <4>1. Len(t) + 1 = n - 1
        BY <2>1, <2>2
      <4> QED BY <2>1, <4>1, Longer
    <3> HIDE DEF v
    <3>5. ASSUME NEW i \in 1 .. n - 1 PROVE u[i] = v[i]
      <4>1. CASE i = n - 1
        <5>1. 2 + i = n + 1
          BY <4>1, <2>2
        <5> QED BY <4>1, <5>1, <3>1, <3>2, <3>4
      <4>2. CASE i # n - 1
        <5>1. i \in 1 .. n - 2 /\ 2 + i \in 1 .. n
          BY <4>2, <2>2
        <5> QED BY <5>1, <3>1, <3>2, <3>4, <2>1
      <4> QED BY <4>1, <4>2
    <3>6. u = v
      BY <3>2, <3>4, <3>5, SeqEqual
    <3> QED BY <2>1, <2>2, <2>3, <2>5, <3>3, <3>6 DEF v
  <2> QED BY <2>4, <2>5
<1> QED BY <1>1, <1>2, <1>3

\* m_rx_changectr tells, at the first low tick, how long ago the line fell.
LEMMA FallenStep ==
    ASSUME Kinds, TxShape, Fallen, UNCHANGED settings, CLOCKS_PER_BAUD >= 3,
           NEW takes \in BOOLEAN,
           takes => TxAge = 10 * CLOCKS_PER_BAUD - 1 /\ TxAge' = 0,
           ~takes => TxAge' = IF TxAge = 10 * CLOCKS_PER_BAUD - 1 THEN TxAge ELSE TxAge + 1,
           SinceFall(o_uart_tx), m_last_tx' = o_uart_tx
    PROVE  /\ Fallen' /\ m_rx_changectr' \in {0, m_rx_changectr + 1}
           /\ TxAge < CLOCKS_PER_BAUD => m_rx_changectr' = TxAge
<1> DEFINE C == CLOCKS_PER_BAUD
<1> DEFINE a == TxAge
<1>1. C \in Nat /\ C >= 3 /\ C' = C
  BY Numbers DEF settings
<1>2. /\ a \in 0 .. 10 * C - 1 /\ (a >= 9 * C => o_uart_tx = 1)
      /\ (a < C => o_uart_tx = 0)
  <2>1. /\ a \in 0 .. 10 * C - 1 /\ (a >= 9 * C => o_uart_tx = 1)
        /\ \A k \in 0 .. 8 : k * C <= a /\ a < (k + 1) * C => o_uart_tx = Bit(Latest(said), k)
    BY <1>1, TxLine
  <2>2. a < C => o_uart_tx = Bit(Latest(said), 0)
    BY <1>1, <2>1
  <2> QED BY <2>1, <2>2 DEF Bit
<1>3. m_rx_changectr' = IF o_uart_tx = 1 \/ m_last_tx = 1 THEN 0 ELSE m_rx_changectr + 1
  BY DEF SinceFall
<1>4. a < C => IF a = 0 THEN m_last_tx = 1 ELSE m_last_tx = 0 /\ m_rx_changectr = a - 1
  BY DEF Fallen
<1>5. a < C => m_rx_changectr' = a
  BY <1>2, <1>3, <1>4
<1>6. Fallen'
  <2> SUFFICES ASSUME TxAge' < C
               PROVE  IF TxAge' = 0 THEN m_last_tx' = 1
                      ELSE m_last_tx' = 0 /\ m_rx_changectr' = TxAge' - 1
    BY <1>1 DEF Fallen
  <2> HIDE DEF a
  <2> DEFINE a2 == TxAge'
  <2>1. CASE takes
    <3>1. a2 = 0 /\ a = 10 * C - 1
      BY <2>1 DEF a
    <3> QED BY <1>1, <1>2, <3>1
  <2>2. CASE ~takes
    <3>1. a2 = IF a = 10 * C - 1 THEN a ELSE a + 1
      BY <2>2 DEF a
    <3>2. a2 = a + 1 /\ a < C
      BY <1>1, <1>2, <3>1
    <3> QED BY <1>1, <1>2, <1>5, <3>2 DEF a
  <2> QED BY <2>1, <2>2
<1> QED BY <1>3, <1>5, <1>6

\* The bits of a byte received, put together.
LEMMA Whole ==
    ASSUME m_rx_data \in Seq({0, 1}), Len(m_rx_data) = 9, NEW byte \in Octet,
           \A i \in 1 .. Len(m_rx_data) : i <= 8 => m_rx_data[i] = byte[i]
    PROVE  Received = byte
<1> DEFINE part == SubSeq(m_rx_data, 1, 8)
<1> DEFINE Bits == {0, 1}
<1>1. m_rx_data \in Seq(Bits) /\ 8 \in 0 .. Len(m_rx_data)
  OBVIOUS
<1>2. \A i \in 1 .. 8 : m_rx_data[i] = byte[i]
  OBVIOUS
<1> HIDE DEF Bits
<1>3. part \in Seq(Bits) /\ Len(part) = 8 /\ \A i \in 1 .. 8 : part[i] = m_rx_data[i]
  BY <1>1, Cut
<1>4. byte \in Seq(Bits) /\ Len(byte) = 8
  BY OctetIsSeq DEF Bits
<1>5. Received = part
  BY DEF Received, m_nbits
<1> HIDE DEF part
<1>6. part = byte
  <2>1. Len(part) = Len(byte) /\ \A i \in 1 .. Len(part) : part[i] = byte[i]
    BY <1>2, <1>3, <1>4
  <2> QED BY <2>1, <1>3, <1>4, SeqEqual
<1> QED BY <1>5, <1>6

\* Counting down: a tick, with the bits to come in R, of a byte of age a.
Counting(C, S, a, R, L, D) ==
    \/ /\ D = 1 /\ a >= 1
       /\ \/ R = S - a
          \/ a = 10 * C - 1 /\ L >= 8 /\ R <= S - a
    \/ D = 2 /\ L >= 8 /\ R <= S - 10 * C - a

LEMMA ListenStep ==
    ASSUME Kinds, TxShape, Listens, Fallen, UNCHANGED settings,
           Agree(CLOCKS_PER_BAUD, m_baud_counts), ~network => Len(said) >= 2,
           NEW takes \in BOOLEAN, NEW byte \in Octet,
           said' = IF takes THEN Append(said, byte) ELSE said,
           takes => TxAge = 10 * CLOCKS_PER_BAUD - 1 /\ TxAge' = 0,
           ~takes => TxAge' = IF TxAge = 10 * CLOCKS_PER_BAUD - 1 THEN TxAge ELSE TxAge + 1,
           SinceFall(o_uart_tx), m_last_tx' = o_uart_tx, Receive(o_uart_tx)
    PROVE  Listens' /\ Fallen' /\ passed' \in Seq(Octet)
<1> DEFINE C == CLOCKS_PER_BAUD
<1> DEFINE B == m_baud_counts
<1> DEFINE a == TxAge
<1> DEFINE S == Sample(B, 9)
<1> DEFINE L == Len(m_rx_data)
<1> DEFINE D == Behind
<1> DEFINE Bits == {0, 1}
<1>30. /\ m_rx_data \in Seq(Bits) /\ 0 \in Bits /\ 1 \in Bits
       /\ o_uart_tx \in {0, 1} => o_uart_tx \in Bits
  BY DEF Listens
<1> HIDE DEF Bits
<1>1. C \in Nat /\ C >= 3 /\ C' = C /\ B \in Nat /\ B >= 2 /\ B' = B /\ UNCHANGED network
  BY Numbers DEF settings, Agree
<1>2. /\ a \in 0 .. 10 * C - 1 /\ (a >= 9 * C => o_uart_tx = 1) /\ o_uart_tx \in {0, 1}
      /\ \A k \in 0 .. 8 : k * C <= a /\ a < (k + 1) * C => o_uart_tx = Bit(Latest(said), k)
  BY <1>1, TxLine
<1>3. a < C => o_uart_tx = 0
  <2>1. a < C => o_uart_tx = Bit(Latest(said), 0)
    BY <1>1, <1>2
  <2> QED BY <2>1 DEF Bit
<1>4. /\ Fallen' /\ m_rx_changectr' \in {0, m_rx_changectr + 1}
      /\ (a < C => m_rx_changectr' = a)
  BY <1>1, FallenStep
<1>5. m_rx_changectr' \in Nat /\ m_last_tx' \in {0, 1}
  BY <1>2, <1>4 DEF Listens
<1>6. /\ Said \in Seq(Octet) /\ Said' = IF takes THEN Append(Said, byte) ELSE Said
      /\ (Len(Said) >= 1 => Latest(said) = Said[Len(Said)])
  BY <1>1, SaidStep
<1>7. /\ Len(Said) \in Nat /\ Len(passed) \in Nat /\ passed \in Seq(Octet) /\ D = Len(Said) - Len(passed)
      /\ Len(Said)' = IF takes THEN Len(Said) + 1 ELSE Len(Said)
      /\ \A i \in 1 .. Len(Said) : Said'[i] = Said[i] /\ Said[i] \in Octet
  BY <1>6, LenProperties, AppendProperties, ElementOfSeq DEF Kinds, Behind
<1>8. /\ Len(passed) <= Len(Said) /\ \A i \in 1 .. Len(passed) : passed[i] = Said[i]
  BY DEF Listens, Prefix
<1>9. L \in 0 .. 9 /\ m_rx_baudcounter \in 0 .. 2 * B
  <2>1. L \in Nat
    BY <1>30, LenProperties
  <2>2. L <= 9 /\ m_rx_baudcounter \in 0 .. 2 * B
    BY DEF Listens
  <2> HIDE DEF L
  <2> QED BY <1>1, <2>1, <2>2
<1>10. takes => a = 10 * C - 1 /\ TxAge' = 0
  OBVIOUS
<1>11. ~takes => TxAge' = IF a = 10 * C - 1 THEN a ELSE a + 1
  OBVIOUS
<1>12. /\ B \div 2 \in Nat /\ B \div 2 <= B /\ S = 10 * B + (B \div 2)
  <2>1. B \div 2 \in Nat /\ B \div 2 <= B
    BY <1>1
  <2> QED BY <1>1, <2>1 DEF Sample
<1>13. /\ C <= B + (B \div 2) /\ S - 2 * B < 9 * C /\ 9 * C <= S + 1 /\ S + 1 < 11 * C
  <2>1. /\ (0 + 1) * C <= Sample(B, 0) /\ Sample(B, 7) < (7 + 2) * C
        /\ 9 * C <= S + 1 /\ S + 1 < 11 * C
    BY DEF Agree
  <2>2. Sample(B, 0) = B + (B \div 2) /\ Sample(B, 7) = S - 2 * B /\ (0 + 1) * C = C /\ (7 + 2) * C = 9 * C
    BY <1>1, <1>12 DEF Sample
  <2> QED BY <2>1, <2>2
<1>14. Prefix(passed, Said')
  BY <1>7, <1>8 DEF Prefix
<1>15. D >= 1 => /\ Said[Len(passed) + 1] \in Octet
                 /\ Said'[Len(passed) + 1] = Said[Len(passed) + 1]
  BY <1>7
<1>16. m_rx_state = "RXDATA" => Counting(C, S, a, Rest, L, D)
  BY DEF Listens, Counting
<1>17. /\ Rest \in Nat /\ Rest = m_rx_baudcounter + (9 - L) * B
       /\ (L <= 7 => Rest >= 2 * B) /\ (9 - L) * B \in Nat
       /\ (L < 9 => (9 - (L + 1)) * B = (9 - L) * B - B)
  <2> DEFINE m == 9 - L
  <2>1. m \in Nat /\ L = 9 - m
    <3> HIDE DEF L
    <3> QED BY <1>9
  <2> HIDE DEF m
  <2>2. m * B \in Nat /\ (m >= 2 => 2 * B <= m * B) /\ (m - 1) * B = m * B - B
    BY <1>1, <2>1, Times
  <2>3. m = 9 - L /\ (9 - (L + 1)) = m - 1 /\ (L <= 7 => m >= 2)
    BY <2>1, <1>9 DEF m
  <2> QED BY <1>1, <1>9, <2>2, <2>3 DEF Rest
<1>18. Len(Said') = IF takes THEN Len(Said) + 1 ELSE Len(Said)
  BY <1>7
<1> HIDE DEF S
<1>19. S \in Nat
  BY <1>1, <1>12
<1>20. m_rx_state = "RXDATA" =>
         /\ \A L2 \in {L, L + 1} :
               Counting(C, S, TxAge', Rest - 1, L2, IF takes THEN D + 1 ELSE D)
         /\ D \in Int /\ D >= 1
  <2> SUFFICES ASSUME m_rx_state = "RXDATA"
               PROVE  /\ \A L2 \in {L, L + 1} :
                            Counting(C, S, TxAge', Rest - 1, L2, IF takes THEN D + 1 ELSE D)
                      /\ D \in Int /\ D >= 1
    OBVIOUS
  <2>1. D \in Int /\ Counting(C, S, a, Rest, L, D)
    BY <1>7, <1>16
  <2>2. D >= 1
    BY <2>1 DEF Counting
  <2>3. TxAge' \in Int
    BY <1>2, <1>10, <1>11
  <2> DEFINE R == Rest
  <2> DEFINE a2 == TxAge'
  <2> HIDE DEF a, D, L, R, a2
  <2>4. /\ C \in Nat /\ B \in Nat /\ S \in Nat /\ a \in 0 .. 10 * C - 1 /\ a2 \in Int
        /\ R \in Nat /\ L \in 0 .. 9 /\ D \in Int /\ Counting(C, S, a, R, L, D)
        /\ C >= 3 /\ S + 1 < 11 * C /\ S - 2 * B < 9 * C /\ (L <= 7 => R >= 2 * B)
    BY <1>1, <1>2, <1>9, <1>13, <1>17, <1>19, <2>1, <2>3 DEF a, D, L, R, a2
  <2>5. /\ takes => a = 10 * C - 1 /\ a2 = 0
        /\ ~takes => a2 = IF a = 10 * C - 1 THEN a ELSE a + 1
    BY <1>10, <1>11 DEF a, a2
  <2>6. ASSUME NEW L2 \in {L, L + 1}
        PROVE  Counting(C, S, a2, R - 1, L2, IF takes THEN D + 1 ELSE D)
    <3> DEFINE D2 == IF takes THEN D + 1 ELSE D
    <3> SUFFICES Counting(C, S, a2, R - 1, L2, D2)
      OBVIOUS
    <3>1. CASE D = 1 /\ a >= 1 /\ R = S - a
      <4>1. a = 10 * C - 1 => L >= 8
        BY <2>4, <3>1
      <4>2. CASE takes
        BY <2>4, <2>5, <3>1, <4>1, <4>2 DEF Counting
      <4>3. CASE ~takes
        BY <2>4, <2>5, <3>1, <4>1, <4>3 DEF Counting
      <4> QED BY <4>2, <4>3
    <3>2. CASE D = 1 /\ a = 10 * C - 1 /\ L >= 8 /\ R <= S - a
      <4>1. CASE takes
        BY <2>4, <2>5, <3>2, <4>1 DEF Counting
      <4>2. CASE ~takes
        BY <2>4, <2>5, <3>2, <4>2 DEF Counting
      <4> QED BY <4>1, <4>2
    <3>3. CASE D = 2 /\ L >= 8 /\ R <= S - 10 * C - a
      <4>1. a < C
        BY <2>4, <3>3
      <4>2. ~takes /\ a2 = a + 1
        BY <2>4, <2>5, <4>1
      <4> QED BY <2>4, <3>3, <4>2 DEF Counting
    <3> QED BY <2>4, <3>1, <3>2, <3>3 DEF Counting
  <2> QED BY <2>2, <2>1, <2>6 DEF a2, R
<1> DEFINE D2 == IF takes THEN D + 1 ELSE D
<1> DEFINE Bytewise == passed' \in Seq(Octet) /\ Prefix(passed', Said')
<1> DEFINE Registers ==
      /\ m_rx_state' \in {"RXIDLE", "RXDATA"} /\ m_rx_baudcounter' \in 0 .. 2 * B
      /\ m_rx_data' \in Seq(Bits) /\ Len(m_rx_data') <= 9
<1> DEFINE Between == \/ Behind' = 0 /\ TxAge' >= 9 * C
                      \/ Behind' = 1 /\ TxAge' < C
<1> DEFINE Within ==
      /\ Counting(C, S, TxAge', Rest', Len(m_rx_data'), Behind')
      /\ \A i \in 1 .. Len(m_rx_data') : i <= 8 => m_rx_data'[i] = Said'[Len(passed') + 1][i]
<1>21. ASSUME Bytewise, Registers, m_rx_state' = "RXIDLE" => Between, m_rx_state' = "RXDATA" => Within
       PROVE  Listens' /\ Fallen' /\ passed' \in Seq(Octet)
  <2>1. /\ Prefix(passed', Said')
        /\ m_rx_state' \in {"RXIDLE", "RXDATA"} /\ m_rx_changectr' \in Nat /\ m_last_tx' \in {0, 1}
        /\ m_rx_baudcounter' \in 0 .. 2 * m_baud_counts'
        /\ m_rx_data' \in Seq({0, 1}) /\ Len(m_rx_data') <= 9
    BY <1>1, <1>5, <1>21 DEF Bits
  <2>2. m_rx_state' = "RXIDLE" => \/ Behind' = 0 /\ TxAge' >= 9 * CLOCKS_PER_BAUD'
                                  \/ Behind' = 1 /\ TxAge' < CLOCKS_PER_BAUD'
    BY <1>1, <1>21
  <2>3. m_rx_state' = "RXDATA" =>
         /\ \/ /\ Behind' = 1 /\ TxAge' >= 1
               /\ \/ Rest' = Sample(m_baud_counts', 9) - TxAge'
                  \/ /\ TxAge' = 10 * CLOCKS_PER_BAUD' - 1 /\ Len(m_rx_data') >= 8
                     /\ Rest' <= Sample(m_baud_counts', 9) - TxAge'
            \/ /\ Behind' = 2 /\ Len(m_rx_data') >= 8
               /\ Rest' <= Sample(m_baud_counts', 9) - 10 * CLOCKS_PER_BAUD' - TxAge'
         /\ \A i \in 1 .. Len(m_rx_data') : i <= 8 => m_rx_data'[i] = Said'[Len(passed') + 1][i]
    BY <1>1, <1>21 DEF Counting, S
  <2> QED BY <1>4, <1>21, <2>1, <2>2, <2>3 DEF Listens
<1>22. /\ Behind' = Len(Said') - Len(passed')
       /\ Rest' = m_rx_baudcounter' + (9 - Len(m_rx_data')) * B
  BY <1>1 DEF Behind, Rest
<1>23. passed' = passed => Bytewise /\ Behind' = D2
  <2> SUFFICES ASSUME passed' = passed PROVE Bytewise /\ Behind' = D2
    OBVIOUS
  <2>1. Bytewise
    BY <1>7, <1>14
  <2>2. Behind' = Len(Said') - Len(passed)
    BY <1>22
  <2> QED BY <1>7, <1>18, <2>1, <2>2
<1>24. CASE m_rx_state = "RXIDLE" /\ o_uart_tx = 0
  <2>1. /\ m_rx_state' = "RXDATA" /\ m_rx_data' = <<>> /\ passed' = passed
        /\ m_rx_baudcounter' = B + (B \div 2) - 1 - m_rx_changectr'
    BY <1>24 DEF Receive, FirstSample
  <2>2. a < C /\ D = 1
    BY <1>1, <1>2, <1>24 DEF Listens
  <2>3. m_rx_changectr' = a /\ ~takes /\ TxAge' = a + 1
    BY <1>1, <1>4, <1>10, <1>11, <2>2
  <2>4. m_rx_data' \in Seq(Bits) /\ Len(m_rx_data') = 0
    BY <2>1, EmptySeq
  <2>5. Registers
    BY <1>1, <1>2, <1>12, <1>13, <2>1, <2>2, <2>3, <2>4
  <2>6. Rest' = S - TxAge' /\ Behind' = 1 /\ TxAge' >= 1
    BY <1>1, <1>2, <1>12, <1>22, <1>23, <2>1, <2>2, <2>3, <2>4
  <2>7. Within
    BY <2>4, <2>6 DEF Counting
  <2> QED BY <1>21, <1>23, <2>1, <2>5, <2>7
<1>25. CASE m_rx_state = "RXIDLE" /\ o_uart_tx = 1
  <2>1. UNCHANGED <<m_rx_state, m_rx_data, m_rx_baudcounter, passed>>
    BY <1>25 DEF Receive
  <2>2. D = 0 /\ a >= 9 * C
    <3>1. (D = 0 /\ a >= 9 * C) \/ (D = 1 /\ a < C)
      BY <1>25 DEF Listens
    <3> QED BY <1>3, <1>25, <3>1
  <2>3. Registers
    <3>1. m_rx_data' \in Seq(Bits) /\ Len(m_rx_data') <= 9
      BY <1>30, <2>1 DEF Listens
    <3> QED BY <1>1, <1>9, <1>25, <2>1, <3>1
  <2>4. Between
    <3> HIDE DEF a, D
    <3>1. Behind' = D2 /\ a \in Int
      BY <1>2, <1>23, <2>1 DEF a
    <3>2. CASE takes
      BY <1>1, <1>10, <2>2, <3>1, <3>2
    <3>3. CASE ~takes
      BY <1>1, <1>11, <2>2, <3>1, <3>3 DEF a
    <3> QED BY <3>2, <3>3
  <2> QED BY <1>21, <1>23, <1>25, <2>1, <2>3, <2>4
<1>26. CASE m_rx_state = "RXDATA" /\ m_rx_baudcounter > 0
  <2>1. /\ m_rx_baudcounter' = m_rx_baudcounter - 1
        /\ UNCHANGED <<m_rx_state, m_rx_data, passed>>
    BY <1>9, <1>26 DEF Receive
  <2>2. Registers
    <3>1. m_rx_data' \in Seq(Bits) /\ Len(m_rx_data') <= 9
      BY <1>30, <2>1 DEF Listens
    <3> QED BY <1>1, <1>9, <1>26, <2>1, <3>1
  <2>3. Rest' = Rest - 1 /\ Len(m_rx_data') = L
    BY <1>1, <1>9, <1>17, <1>22, <2>1
  <2>4. Counting(C, S, TxAge', Rest', Len(m_rx_data'), Behind')
    BY <1>20, <1>23, <1>26, <2>1, <2>3
  <2>5. \A i \in 1 .. Len(m_rx_data') : i <= 8 => m_rx_data'[i] = Said'[Len(passed') + 1][i]
    <3>1. \A i \in 1 .. L : i <= 8 => m_rx_data[i] = Said[Len(passed) + 1][i]
      BY <1>26 DEF Listens
    <3>2. Said'[Len(passed) + 1] = Said[Len(passed) + 1]
      BY <1>15, <1>20, <1>26
    <3> QED BY <2>1, <3>1, <3>2
  <2> QED BY <1>21, <1>23, <1>26, <2>1, <2>2, <2>4, <2>5
<1>27. CASE m_rx_state = "RXDATA" /\ m_rx_baudcounter <= 0 /\ ~Full
  <2>1. /\ m_rx_data' = Append(m_rx_data, o_uart_tx) /\ m_rx_baudcounter' = B - 1
        /\ UNCHANGED <<m_rx_state, passed>> /\ m_rx_baudcounter = 0
    BY <1>9, <1>27 DEF Receive
  <2>2. L <= 8
    BY <1>9, <1>27 DEF Full, m_nbits, m_nstop
  <2>3. /\ m_rx_data' \in Seq(Bits) /\ Len(m_rx_data') = L + 1 /\ m_rx_data'[L + 1] = o_uart_tx
        /\ \A i \in 1 .. L : m_rx_data'[i] = m_rx_data[i]
    BY <1>2, <1>30, <2>1, Longer
  <2>4. Registers
    BY <1>1, <1>9, <1>27, <2>1, <2>2, <2>3
  <2>5. Rest' = Rest - 1
    <3>1. Rest' = B - 1 + (9 - (L + 1)) * B
      BY <1>22, <2>1, <2>3
    <3>2. Rest = (9 - L) * B /\ (9 - (L + 1)) * B = (9 - L) * B - B
      BY <1>9, <1>17, <2>1, <2>2
    <3> QED BY <1>1, <1>17, <3>1, <3>2
  <2>6. Counting(C, S, TxAge', Rest', Len(m_rx_data'), Behind')
    BY <1>20, <1>23, <1>27, <2>1, <2>3, <2>5
  <2>7. Said'[Len(passed) + 1] = Said[Len(passed) + 1]
    BY <1>15, <1>20, <1>27
  <2>8. ASSUME L <= 7
        PROVE  o_uart_tx = Said[Len(passed) + 1][L + 1]
    <3>1. D = 1 /\ Rest = S - a
      BY <1>16, <1>27, <2>8 DEF Counting
    <3>2. a = Sample(B, L)
      <4>1. Rest = (9 - L) * B
        BY <1>17, <2>1
      <4>2. (9 - L) * B = 9 * B - L * B /\ (L + 1) * B = L * B + B /\ L * B \in Nat
        BY <1>1, <1>9
      <4> QED BY <1>1, <1>2, <1>12, <3>1, <4>1, <4>2 DEF Sample
    <3>3. (L + 1) * C <= a /\ a < (L + 2) * C
      <4>1. L \in 0 .. 7
        <5> HIDE DEF L
        <5> QED BY <1>9, <2>8
      <4> QED BY <3>2, <4>1 DEF Agree
    <3>4. o_uart_tx = Bit(Latest(said), L + 1)
      <4>1. L + 1 \in 0 .. 8 /\ (L + 1) + 1 = L + 2
        BY <1>9, <2>8
      <4> QED BY <1>2, <3>3, <4>1
    <3>5. Latest(said) = Said[Len(passed) + 1]
      BY <1>6, <1>7, <3>1
    <3> QED BY <1>9, <2>8, <3>4, <3>5 DEF Bit
  <2>9. ASSUME NEW i \in 1 .. L + 1, i <= 8
        PROVE  m_rx_data'[i] = Said[Len(passed) + 1][i]
    <3>1. \A j \in 1 .. L : j <= 8 => m_rx_data[j] = Said[Len(passed) + 1][j]
      BY <1>27 DEF Listens
    <3>2. CASE i = L + 1
      BY <1>9, <2>3, <2>8, <2>9, <3>2
    <3>3. CASE i # L + 1
      <4>1. i \in 1 .. L
        BY <1>9, <3>3
      <4> QED BY <2>3, <2>9, <3>1, <4>1
    <3> QED BY <3>2, <3>3
  <2>10. Within
    BY <2>1, <2>3, <2>6, <2>7, <2>9
  <2> QED BY <1>21, <1>23, <1>27, <2>1, <2>4, <2>10
<1>28. CASE m_rx_state = "RXDATA" /\ m_rx_baudcounter <= 0 /\ Full
  <2>1. /\ m_rx_state' = "RXIDLE" /\ passed' = Append(passed, Received)
        /\ m_rx_data' = <<>> /\ m_rx_baudcounter' = B - 1 /\ m_rx_baudcounter = 0
    BY <1>9, <1>28 DEF Receive
  <2>2. L = 9
    <3>1. L >= 9
      BY <1>28 DEF Full, m_nbits, m_nstop
    <3> HIDE DEF L
    <3> QED BY <1>9, <3>1
  <2> DEFINE byte1 == Said[Len(passed) + 1]
  <2>3. D >= 1 /\ byte1 \in Octet /\ Said'[Len(passed) + 1] = byte1
    BY <1>15, <1>20, <1>28
  <2>4. Received = byte1
    <3>1. \A i \in 1 .. L : i <= 8 => m_rx_data[i] = byte1[i]
      BY <1>28 DEF Listens
    <3>2. m_rx_data \in Seq({0, 1})
      BY DEF Listens
    <3> HIDE DEF byte1
    <3> QED BY <2>2, <2>3, <3>1, <3>2, Whole
  <2> HIDE DEF byte1
  <2>5. /\ passed' \in Seq(Octet) /\ Len(passed') = Len(passed) + 1
        /\ passed'[Len(passed) + 1] = byte1 /\ \A i \in 1 .. Len(passed) : passed'[i] = passed[i]
    BY <1>7, <2>1, <2>3, <2>4, Longer
  <2>6. Prefix(passed', Said')
    <3>1. ASSUME NEW i \in 1 .. Len(passed) + 1 PROVE passed'[i] = Said'[i]
      <4>1. CASE i = Len(passed) + 1
        BY <4>1, <2>3, <2>5
      <4>2. CASE i # Len(passed) + 1
        <5>1. i \in 1 .. Len(passed) /\ i \in 1 .. Len(Said)
          BY <1>7, <1>8, <4>2
        <5> QED BY <5>1, <1>7, <1>8, <2>5
      <4> QED BY <4>1, <4>2
    <3>2. Len(passed') <= Len(Said')
      BY <1>7, <1>18, <2>3, <2>5
    <3> QED BY <2>5, <3>1, <3>2 DEF Prefix
  <2>7. Registers
    <3>1. m_rx_data' \in Seq(Bits) /\ Len(m_rx_data') = 0
      BY <2>1, EmptySeq
    <3> QED BY <1>1, <2>1, <3>1
  <2>8. Behind' = D2 - 1 /\ D \in Int
    BY <1>7, <1>18, <1>22, <2>5
  <2>9. Rest = 0
    BY <1>1, <1>17, <2>1, <2>2
  <2>10. Between
    <3> HIDE DEF a, D, D2
    <3> DEFINE a2 == TxAge'
    <3>1. /\ a \in 0 .. 10 * C - 1 /\ (takes => a = 10 * C - 1 /\ a2 = 0)
          /\ (~takes => a2 = IF a = 10 * C - 1 THEN a ELSE a + 1)
      BY <1>2, <1>10, <1>11 DEF a
    <3>2. Counting(C, S, a, 0, 9, D)
      BY <1>16, <1>28, <2>2, <2>9
    <3>3. D2 = IF takes THEN D + 1 ELSE D
      BY DEF D2
    <3> HIDE DEF a2
    <3>4. (Behind' = 0 /\ a2 >= 9 * C) \/ (Behind' = 1 /\ a2 < C)
      <4>1. CASE D = 1 /\ a + 1 >= 9 * C
        <5>1. CASE takes
          BY <1>1, <2>8, <3>1, <3>3, <4>1, <5>1
        <5>2. CASE ~takes
          BY <1>1, <2>8, <3>1, <3>3, <4>1, <5>2
        <5> QED BY <5>1, <5>2
      <4>2. CASE D = 2 /\ a <= S - 10 * C
        <5>1. a + 1 < C
          BY <1>1, <1>13, <1>19, <3>1, <4>2
        <5>2. ~takes /\ a2 = a + 1
          BY <1>1, <3>1, <5>1
        <5> QED BY <2>8, <3>3, <4>2, <5>1, <5>2
      <4>3. (D = 1 /\ a + 1 >= 9 * C) \/ (D = 2 /\ a <= S - 10 * C)
        BY <1>1, <1>13, <1>19, <3>1, <3>2 DEF Counting
      <4> QED BY <4>1, <4>2, <4>3
    <3> QED BY <3>4 DEF a2
  <2> QED BY <1>21, <2>1, <2>5, <2>6, <2>7, <2>10
<1> QED
  <2>1. m_rx_state \in {"RXIDLE", "RXDATA"}
    BY DEF Listens
  <2> QED BY <1>2, <1>9, <2>1, <1>24, <1>25, <1>26, <1>27, <1>28

LEMMA FromBoardStep ==
    ASSUME Kinds, TxShape, FromBoard, UNCHANGED settings, Agree(CLOCKS_PER_BAUD, m_baud_counts),
           NEW i_wr \in BOOLEAN, NEW byte \in Octet, MustSay => i_wr,
           said' = IF Takes(i_wr) THEN Append(said, byte) ELSE said,
           Takes(i_wr) => TxAge = 10 * CLOCKS_PER_BAUD - 1 /\ TxAge' = 0,
           ~Takes(i_wr) => TxAge' = IF TxAge = 10 * CLOCKS_PER_BAUD - 1 THEN TxAge ELSE TxAge + 1,
           m_ticks' = IF Quiet THEN m_ticks + 1 ELSE m_ticks,
           Quiet => UNCHANGED sim_vars,
           ~Quiet => SinceFall(o_uart_tx) /\ m_last_tx' = o_uart_tx /\ Receive(o_uart_tx)
    PROVE  FromBoard' /\ passed' \in Seq(Octet)
<1> DEFINE C == CLOCKS_PER_BAUD
<1> DEFINE takes == Takes(i_wr)
<1>1. C \in Nat /\ C >= 3 /\ C' = C /\ UNCHANGED network /\ m_ticks \in Nat
  BY Numbers DEF settings, Agree, Kinds
<1>2. takes \in BOOLEAN
  BY DEF Takes, TxShape
<1>3. said \in Seq(Octet) /\ said' \in Seq(Octet) /\ Len(said) \in Nat /\ passed \in Seq(Octet)
      /\ Len(said') = IF takes THEN Len(said) + 1 ELSE Len(said)
  BY Longer DEF Kinds
<1>4. CASE ~Quiet
  <2>1. /\ Listens /\ Fallen /\ (~network => Len(said) >= 2 /\ m_ticks < WarmUp)
        /\ SinceFall(o_uart_tx) /\ m_last_tx' = o_uart_tx /\ Receive(o_uart_tx) /\ m_ticks' = m_ticks
    BY <1>4, Zenon DEF FromBoard
  <2> HIDE DEF takes
  <2>2. Listens' /\ Fallen' /\ passed' \in Seq(Octet)
    <3>1. /\ takes => TxAge = 10 * CLOCKS_PER_BAUD - 1 /\ TxAge' = 0
          /\ ~takes => TxAge' = IF TxAge = 10 * CLOCKS_PER_BAUD - 1 THEN TxAge ELSE TxAge + 1
          /\ said' = IF takes THEN Append(said, byte) ELSE said
      BY DEF takes
    <3>2. ~network => Len(said) >= 2
      BY <2>1, Zenon
    <3> QED BY <1>2, <2>1, <3>1, <3>2, ListenStep, Zenon
  <2>3. WarmUp' = WarmUp
    BY <1>1 DEF WarmUp
  <2>4. ~Quiet'
    BY <1>1, <1>4, <2>1, <2>3, Zenon DEF Quiet
  <2>5. ~network => Len(said') >= 2 /\ m_ticks' < WarmUp'
    BY <1>1, <1>2, <1>3, <2>1, <2>3
  <2> QED BY <1>1, <2>2, <2>4, <2>5, Zenon DEF FromBoard
<1>5. CASE Quiet
  <2>1. /\ WarmsUp /\ UNCHANGED sim_vars /\ m_ticks' = m_ticks + 1 /\ ~network
    BY <1>5, Zenon DEF FromBoard, Quiet
  <2> DEFINE n == Len(said)
  <2> DEFINE n2 == Len(said')
  <2> DEFINE a == TxAge
  <2> DEFINE a2 == TxAge'
  <2> DEFINE half == C \div 2
  <2> DEFINE t == m_ticks
  <2>2. \/ n = 0 /\ t <= half
        \/ n \in 1 .. 2 /\ 0 <= t - a - 1 - (n - 1) * 10 * C /\ t - a - 1 - (n - 1) * 10 * C <= half
    <3>1. said = <<>> => n = 0
      BY EmptySeq
    <3> QED BY <2>1, <3>1 DEF WarmsUp
  <2>3. t + 1 < 20 * C
    BY <2>1 DEF WarmsUp, WarmUp
  <2>4. half \in Nat /\ half <= C - 2 /\ half >= 1
    BY <1>1
  <2>5. a \in 0 .. 10 * C - 1 /\ (a = 10 * C - 1 <=> tx_state = TXUL_IDLE)
        /\ (n = 0 => a = 10 * C - 1)
    <3>1. /\ TxAge \in 0 .. 10 * C - 1 /\ (TxAge = 10 * C - 1 <=> tx_state = TXUL_IDLE)
          /\ (TxAge < 10 * C - 1 => said # <<>>)
      BY <1>1, TxLine
    <3>2. said # <<>> => n > 0
      BY <1>3, Longer
    <3> QED BY <1>1, <1>3, <3>1, <3>2
  <2>6. a = 10 * C - 1 /\ ~takes => n = 0 /\ t < half
    <3> SUFFICES ASSUME a = 10 * C - 1, ~takes PROVE n = 0 /\ t < half
      OBVIOUS
    <3>1. tx_state = TXUL_IDLE
      BY <2>5
    <3>2. r_busy => n = 0 /\ t = 0
      <4>1. r_busy => said = <<>> /\ m_ticks = 0
        BY <3>1 DEF TxShape
      <4> QED BY <4>1, EmptySeq
    <3>3. CASE r_busy
      BY <2>4, <3>2, <3>3
    <3>4. CASE ~r_busy
      <4>1. ~MustSay
        BY <3>4, Zenon DEF Takes
      <4>2. said = <<>> /\ ~(m_ticks >= half)
        <5>1. Len(said) < Greeting
          <6>1. n < 3
            <7> HIDE DEF n
            <7> QED BY <2>2
          <6> QED BY <6>1 DEF Greeting
        <5> QED BY <4>1, <5>1, <2>1 DEF MustSay
      <4> QED BY <1>1, <2>4, <4>2, EmptySeq
    <3> QED BY <3>3, <3>4
  <2>7. /\ n2 = IF takes THEN n + 1 ELSE n
        /\ takes => a = 10 * C - 1 /\ a2 = 0
        /\ ~takes => a2 = IF a = 10 * C - 1 THEN a ELSE a + 1
    BY <1>3
  <2> HIDE DEF n, n2, a, a2, takes, half
  <2>8. \/ n2 = 0 /\ t + 1 <= half
        \/ n2 = 1 /\ 0 <= t - a2 /\ t - a2 <= half
        \/ n2 = 2 /\ 0 <= t - a2 - 10 * C /\ t - a2 - 10 * C <= half
    <3>1. CASE takes
      <4>1. CASE n = 0
        BY <1>1, <2>2, <2>4, <2>7, <3>1, <4>1
      <4>2. CASE n = 1
        BY <1>1, <2>2, <2>4, <2>7, <3>1, <4>2
      <4>3. CASE n = 2
        BY <1>1, <2>2, <2>3, <2>4, <2>7, <3>1, <4>3
      <4> QED BY <2>2, <4>1, <4>2, <4>3
    <3>2. CASE ~takes /\ a = 10 * C - 1
      BY <1>1, <2>4, <2>6, <2>7, <3>2
    <3>3. CASE ~takes /\ a # 10 * C - 1
      <4>1. a2 = a + 1 /\ n2 = n /\ n # 0
        BY <2>5, <2>7, <3>3
      <4> QED BY <1>1, <2>2, <2>4, <2>5, <4>1
    <3> QED BY <1>2, <3>1, <3>2, <3>3
  <2>9. passed' = passed /\ passed' \in Seq(Octet)
    BY <1>3, <2>1 DEF sim_vars
  <2>10. a2 \in Int /\ n2 \in Nat /\ a2 <= 10 * C - 1
    BY <1>1, <1>2, <1>3, <2>5, <2>7 DEF n2
  <2>11. CASE Quiet'
    <3>1. /\ m_rx_state' = "RXIDLE" /\ m_rx_baudcounter' = 0 /\ m_rx_data' = <<>>
          /\ m_rx_changectr' = 0 /\ m_last_tx' = 1 /\ passed' = <<>>
          /\ m_tx_state' = "TXIDLE" /\ taken' = <<>>
      BY <2>1 DEF WarmsUp, sim_vars, sim_rx, sim_tx
    <3>2. m_ticks' + 1 < WarmUp'
      BY <2>11, Zenon DEF Quiet
    <3>3. \/ said' = <<>> /\ m_ticks' <= CLOCKS_PER_BAUD' \div 2
          \/ /\ Len(said') \in 1 .. 2
             /\ LET begun == m_ticks' - TxAge' - 1 - (Len(said') - 1) * 10 * CLOCKS_PER_BAUD'
                IN 0 <= begun /\ begun <= CLOCKS_PER_BAUD' \div 2
      <4>1. CASE n2 = 0
        <5>1. said' = <<>>
          BY <1>3, <4>1, EmptySeq DEF n2
        <5>2. m_ticks' <= CLOCKS_PER_BAUD' \div 2
          BY <1>1, <2>1, <2>4, <2>8, <4>1 DEF half
        <5> QED BY <5>1, <5>2
      <4>2. CASE n2 = 1
        <5>1. m_ticks' - a2 - 1 - (n2 - 1) * 10 * C = t - a2 /\ n2 \in 1 .. 2
          BY <1>1, <2>1, <2>10, <4>2
        <5>2. /\ 0 <= m_ticks' - a2 - 1 - (n2 - 1) * 10 * C
              /\ m_ticks' - a2 - 1 - (n2 - 1) * 10 * C <= half
          BY <2>8, <4>2, <5>1
        <5>3. half = CLOCKS_PER_BAUD' \div 2 /\ C = CLOCKS_PER_BAUD'
          BY <1>1 DEF half
        <5> QED BY <5>1, <5>2, <5>3, Zenon DEF n2, a2
      <4>3. CASE n2 = 2
        <5>1. m_ticks' - a2 - 1 - (n2 - 1) * 10 * C = t - a2 - 10 * C /\ n2 \in 1 .. 2
          BY <1>1, <2>1, <2>10, <4>3
        <5>2. /\ 0 <= m_ticks' - a2 - 1 - (n2 - 1) * 10 * C
              /\ m_ticks' - a2 - 1 - (n2 - 1) * 10 * C <= half
          BY <2>8, <4>3, <5>1
        <5>3. half = CLOCKS_PER_BAUD' \div 2 /\ C = CLOCKS_PER_BAUD'
          BY <1>1 DEF half
        <5> QED BY <5>1, <5>2, <5>3, Zenon DEF n2, a2
      <4> QED BY <2>8, <4>1, <4>2, <4>3
    <3>4. WarmsUp'
      BY <3>1, <3>2, <3>3 DEF WarmsUp
    <3> QED BY <2>9, <2>11, <3>4, Zenon DEF FromBoard
  <2>12. CASE ~Quiet'
    <3>1. t + 2 = 20 * C
      <4>1. ~(m_ticks' + 1 < 20 * C)
        BY <1>1, <2>1, <2>12 DEF Quiet, WarmUp
      <4> QED BY <1>1, <2>1, <2>3, <4>1
    <3>2. n2 = 2 /\ a2 >= 9 * C
      BY <1>1, <2>4, <2>8, <2>10, <3>1
    <3>3. Fallen'
      BY <1>1, <2>10, <3>2 DEF Fallen, a2
    <3>4. Said' = <<>> /\ Len(Said') = 0 /\ Len(passed') = 0
      <4>1. SubSeq(said', 2 + 1, Len(said')) \in Seq(Octet) /\ Len(SubSeq(said', 2 + 1, Len(said'))) = 0
        <5>1. 2 \in 0 .. n2 /\ 2 = n2 /\ n2 - 2 = 0
          BY <3>2
        <5>2. 2 \in 0 .. Len(said')
          BY <5>1, Zenon DEF n2
        <5>3. SubSeq(said', 2 + 1, n2) \in Seq(Octet) /\ Len(SubSeq(said', 2 + 1, n2)) = n2 - 2
          <6> DEFINE q == said'
          <6>1. q \in Seq(Octet) /\ 2 \in 0 .. Len(q)
            BY <1>3, <5>2
          <6> HIDE DEF q
          <6>2. /\ SubSeq(q, 2 + 1, Len(q)) \in Seq(Octet)
                /\ Len(SubSeq(q, 2 + 1, Len(q))) = Len(q) - 2
            BY <6>1, Cut
          <6> QED BY <6>2, Zenon DEF q, n2
        <5> QED BY <5>1, <5>3, Zenon DEF n2
      <4>2. Said' = SubSeq(said', Greeting, Len(said')) /\ Greeting = 2 + 1
        BY <1>1, <2>1 DEF Said, Greeting
      <4>3. passed' = <<>>
        BY <2>1, <2>9 DEF WarmsUp
      <4> QED BY <4>1, <4>2, <4>3, EmptySeq
    <3>5. Prefix(passed', Said') /\ Behind' = 0
      BY <3>4 DEF Prefix, Behind
    <3>6. /\ m_rx_state' = "RXIDLE" /\ m_rx_baudcounter' = 0 /\ m_rx_data' = <<>>
          /\ m_rx_changectr' = 0 /\ m_last_tx' = 1
      BY <2>1 DEF WarmsUp, sim_vars, sim_rx
    <3>7. m_rx_data' \in Seq({0, 1}) /\ Len(m_rx_data') = 0
      BY <3>6, EmptySeq
    <3>8. m_rx_baudcounter' \in 0 .. 2 * m_baud_counts'
      BY <1>1, <3>6, Numbers DEF settings
    <3>9. Listens'
      BY <1>1, <3>2, <3>5, <3>6, <3>7, <3>8 DEF Listens, a2
    <3>10. Len(said') >= 2 /\ m_ticks' < WarmUp'
      <4>1. n2 >= 2
        BY <3>2
      <4>2. m_ticks' < WarmUp'
        BY <1>1, <2>1, <2>3 DEF WarmUp
      <4> QED BY <4>1, <4>2, Zenon DEF n2
    <3> QED BY <2>9, <2>12, <3>3, <3>9, <3>10, Zenon DEF FromBoard
  <2> QED BY <2>11, <2>12
<1> QED BY <1>4, <1>5

-----------------------------------------------------------------------------
(* From UARTSIM to the board.                                                 *)

\* A tick of the line to the board: a byte begins, or what there is grows older.
LineStep ==
    \/ SimAge = 10 * m_baud_counts /\ SimAge' = 0 /\ \E byte \in Octet : taken' = Append(taken, byte)
    \/ /\ taken' = taken
       /\ SimAge' = IF SimAge = 10 * m_baud_counts THEN SimAge ELSE SimAge + 1

LEMMA Halves ==
    ASSUME NEW c \in Nat, c >= 4
    PROVE  /\ Catch(c) \in Nat /\ Catch(c) >= 3 /\ Catch(c) <= c /\ c \div 2 >= 2
           /\ \A s \in 2 .. Catch(c) - 1 : s >= c \div 2 <=> s + 1 = Catch(c)
<1>1. c \div 2 \in Nat /\ c \div 2 <= c - 2 /\ c \div 2 >= 2
  OBVIOUS
<1> QED BY <1>1 DEF Catch

\* Before the start bit and from the stop bit on the line is high.
LEMMA High ==
    ASSUME NEW b \in Nat, NEW y \in Int, y < 0 \/ y >= 9 * b, NEW byte
    PROVE  Shows(1, y, b, byte)
<1>1. \A k \in 0 .. 8 : k * b \in Nat /\ 0 <= k * b /\ (k + 1) * b <= 9 * b
  BY Times
<1>2. \A k \in 0 .. 8 : ~(k * b <= y /\ y < (k + 1) * b)
  BY <1>1
<1> QED BY <1>2 DEF Shows

LEMMA SyncStep ==
    ASSUME Kinds, SimShape, SimShape', UNCHANGED settings, Synchronized, LineStep,
           Agree(CLOCKS_PER_BAUD, m_baud_counts), taken' \in Seq(Octet),
           NEW line, line = Bit(Latest(taken)', 10 - m_tx_busy'), RxTick(line)
    PROVE  Synchronized'
<1> DEFINE C == CLOCKS_PER_BAUD
<1> DEFINE B == m_baud_counts
<1> DEFINE s == SimAge
<1> DEFINE s2 == SimAge'
<1> DEFINE byte == Latest(taken)
<1> DEFINE byte2 == Latest(taken)'
<1>1. C \in Nat /\ C >= 3 /\ C' = C /\ B \in Nat /\ B >= 2 /\ B' = B
  BY Numbers DEF settings, Agree
<1>2. s \in 0 .. 10 * B
  BY <1>1, SimAges
<1>3. /\ s2 \in 0 .. 10 * B
      /\ \A k \in 0 .. 8 : k * B <= s2 /\ s2 < (k + 1) * B => k = 10 - m_tx_busy'
      /\ s2 >= 9 * B => m_tx_busy' <= 1
      /\ m_tx_busy' \in 0 .. 10 /\ (m_tx_busy' # 0 => taken' # <<>>)
  <2> DEFINE busy == m_tx_busy'
  <2> DEFINE counter == m_tx_baudcounter'
  <2>1. busy \in 0 .. 10 /\ counter \in 0 .. B - 1
        /\ (busy = 0 <=> m_tx_state' = "TXIDLE") /\ (busy # 0 => taken' # <<>>)
    BY <1>1 DEF SimShape
  <2>2. s2 = IF busy = 0 THEN 10 * B ELSE (10 - busy) * B + (B - 1 - counter)
    BY <1>1, <2>1 DEF SimAge
  <2> HIDE DEF s2, busy, counter
  <2>3. /\ s2 \in 0 .. 10 * B
        /\ \A k \in 0 .. 8 : k * B <= s2 /\ s2 < (k + 1) * B => k = 10 - busy
        /\ s2 >= 9 * B => busy <= 1
    BY <1>1, <2>1, <2>2, AgeOf
  <2> QED BY <2>1, <2>3 DEF busy
<1>4. Shows(line, s2, B, byte2)
  <2>1. line \in {0, 1}
    <3>1. CASE m_tx_busy' # 0
      <4>1. byte2 \in Octet
        BY <1>3, <3>1, EmptySeq, ElementOfSeq DEF Latest
      <4> QED BY <1>3, <4>1, BitType
    <3>2. CASE m_tx_busy' = 0
      BY <3>2 DEF Bit
    <3> QED BY <3>1, <3>2
  <2>2. s2 >= 9 * B => line = 1
    <3> SUFFICES ASSUME s2 >= 9 * B PROVE line = 1
      OBVIOUS
    <3> DEFINE busy == m_tx_busy'
    <3> DEFINE n == 10 - busy
    <3>1. n \in 9 .. 10
      <4>1. busy \in 0 .. 10 /\ busy <= 1
        BY <1>3
      <4> HIDE DEF busy
      <4> QED BY <4>1
    <3>2. line = Bit(byte2, n) /\ n \in 9 .. 10
      BY <3>1
    <3> HIDE DEF n, byte2
    <3> QED BY <3>2 DEF Bit
  <2> HIDE DEF s2, byte2
  <2>3. \A k \in 0 .. 8 : k * B <= s2 /\ s2 < (k + 1) * B => line = Bit(byte2, k)
    BY <1>3 DEF byte2
  <2>4. ~(s2 < 0)
    BY <1>3
  <2> QED BY <2>1, <2>2, <2>3, <2>4 DEF Shows
<1>5. /\ Shows(q_uart, s, B, byte) /\ Shows(qq_uart, s - 1, B, byte)
      /\ Shows(ck_uart, s - 2, B, byte)
  BY DEF Synchronized
<1>6. /\ q_uart' = line /\ qq_uart' = q_uart /\ ck_uart' = qq_uart
      /\ chg_counter' = IF qq_uart # ck_uart THEN 0
                        ELSE IF chg_counter # C THEN chg_counter + 1 ELSE chg_counter
      /\ half_baud_time' = (ck_uart = 0 /\ C \div 2 >= 2 /\ chg_counter >= (C \div 2) - 2)
  BY DEF RxTick, Synchronize, ChangeCounter, HalfBaudTime, ChangeMax, half_baud
<1>7. Shows(q_uart, s2 - 1, B, byte2) /\ Shows(qq_uart, s2 - 2, B, byte2)
  <2>1. \/ s = 10 * B /\ s2 = 0
        \/ byte2 = byte /\ s = 10 * B /\ s2 = 10 * B
        \/ byte2 = byte /\ s2 = s + 1
    BY DEF LineStep, Latest
  <2> HIDE DEF s, s2, byte, byte2
  <2>2. CASE s = 10 * B /\ s2 = 0
    <3>1. Shows(q_uart, 10 * B - 0, B, byte) /\ Shows(qq_uart, 10 * B - 1, B, byte)
      BY <1>1, <1>5, <2>2
    <3>2. q_uart = 1 /\ qq_uart = 1
      BY <1>1, <3>1 DEF Shows
    <3>3. s2 - 1 \in Int /\ s2 - 1 < 0 /\ s2 - 2 \in Int /\ s2 - 2 < 0
      BY <2>2
    <3> QED BY <1>1, <3>2, <3>3, High
  <2>3. CASE byte2 = byte /\ s = 10 * B /\ s2 = 10 * B
    <3>1. Shows(q_uart, 10 * B - 0, B, byte) /\ Shows(qq_uart, 10 * B - 1, B, byte)
      BY <1>1, <1>5, <2>3
    <3>2. q_uart = 1 /\ qq_uart = 1
      BY <1>1, <3>1 DEF Shows
    <3>3. s2 - 1 \in Int /\ s2 - 1 >= 9 * B /\ s2 - 2 \in Int /\ s2 - 2 >= 9 * B
      BY <1>1, <2>3
    <3> QED BY <1>1, <3>2, <3>3, High
  <2>4. CASE byte2 = byte /\ s2 = s + 1
    <3>1. s2 - 1 = s /\ s2 - 2 = s - 1
      BY <1>2, <2>4
    <3> QED BY <1>5, <2>4, <3>1
  <2> QED BY <2>1, <2>2, <2>3, <2>4
<1>8. chg_counter \in 0 .. C /\ half_baud_time' \in BOOLEAN /\ chg_counter' \in 0 .. C
  <2>1. chg_counter \in 0 .. C
    BY DEF Synchronized, ChangeMax
  <2>2. half_baud_time' \in BOOLEAN
    BY <1>6, Zenon
  <2> QED BY <1>1, <1>6, <2>1, <2>2
<1> DEFINE K == Catch(C)
<1>9. /\ K \in Nat /\ K >= 3 /\ K <= C /\ K <= B + 1 /\ C \div 2 >= 2
      /\ \A n \in 2 .. K - 1 : n >= C \div 2 <=> n + 1 = K
  BY <1>1, Halves DEF Agree
<1>10. s \in 2 .. K => chg_counter = s - 2
  BY DEF Synchronized
<1>11. ASSUME s2 \in 2 .. K
       PROVE  chg_counter' = s2 - 2 /\ (half_baud_time' <=> s2 = K)
  <2>1. s2 = s + 1
    <3>1. \/ s = 10 * B /\ s2 = 0
          \/ s = 10 * B /\ s2 = 10 * B
          \/ s2 = s + 1
      BY DEF LineStep
    <3> HIDE DEF s, s2, K
    <3> QED BY <1>1, <1>9, <1>11, <3>1
  <2> HIDE DEF s, s2, K, byte
  <2>2. ASSUME NEW v, NEW x \in 0 .. B - 1, Shows(v, x, B, byte) PROVE v = 0
    <3>1. 0 * B <= x /\ x < (0 + 1) * B /\ 0 \in 0 .. 8
      BY <1>1
    <3>2. v = Bit(byte, 0)
      BY <2>2, <3>1 DEF Shows
    <3> QED BY <3>2 DEF Bit
  <2>3. qq_uart = 0
    <3>1. s - 1 \in 0 .. B - 1
      BY <1>1, <1>2, <1>9, <1>11, <2>1
    <3> QED BY <1>5, <2>2, <3>1
  <2>4. CASE s2 = 2
    <3>1. ck_uart = 1
      <4>1. s - 2 < 0
        BY <1>2, <2>1, <2>4
      <4> QED BY <1>5, <4>1 DEF Shows
    <3>2. ~half_baud_time'
      <4>1. ck_uart # 0 /\ half_baud_time' = (ck_uart = 0 /\ C \div 2 >= 2
                                                  /\ chg_counter >= (C \div 2) - 2)
        BY <1>6, <3>1
      <4> QED BY <4>1, Zenon
    <3>3. chg_counter' = 0 /\ s2 - 2 = 0 /\ s2 # K
      BY <1>6, <1>9, <2>3, <2>4, <3>1
    <3> QED BY <3>2, <3>3, Zenon
  <2>5. CASE s2 # 2
    <3>1. s \in 2 .. K - 1 /\ s - 2 \in 0 .. B - 1
      BY <1>1, <1>2, <1>9, <1>11, <2>1, <2>5
    <3>2. ck_uart = 0
      BY <1>5, <2>2, <3>1
    <3>3. chg_counter = s - 2
      BY <1>9, <1>10, <3>1
    <3>4. chg_counter' = s2 - 2
      BY <1>1, <1>6, <1>9, <2>1, <2>3, <3>1, <3>2, <3>3
    <3>5. chg_counter >= (C \div 2) - 2 <=> s >= C \div 2
      <4>1. C \div 2 \in Nat
        BY <1>1
      <4> QED BY <3>1, <3>3, <4>1
    <3>6. half_baud_time' <=> chg_counter >= (C \div 2) - 2
      <4>1. half_baud_time' = (ck_uart = 0 /\ C \div 2 >= 2 /\ chg_counter >= (C \div 2) - 2)
        BY <1>6, Zenon
      <4> QED BY <1>9, <3>2, <4>1, Zenon
    <3>7. s >= C \div 2 <=> s + 1 = K
      BY <1>9, <3>1
    <3> QED BY <2>1, <3>4, <3>5, <3>6, <3>7, Zenon
  <2>6. chg_counter' = s2 - 2 /\ (half_baud_time' <=> s2 = K)
    BY <2>4, <2>5, Zenon
  <2> QED BY <2>6, Zenon
<1>12. /\ Shows(q_uart', SimAge', m_baud_counts', Latest(taken'))
       /\ Shows(qq_uart', SimAge' - 1, m_baud_counts', Latest(taken'))
       /\ Shows(ck_uart', SimAge' - 2, m_baud_counts', Latest(taken'))
  BY <1>1, <1>4, <1>6, <1>7 DEF Latest
<1>13. chg_counter' \in 0 .. C' /\ half_baud_time' \in BOOLEAN
  BY <1>1, <1>8
<1>14. SimAge' \in 2 .. Catch(CLOCKS_PER_BAUD') =>
         /\ chg_counter' = SimAge' - 2
         /\ half_baud_time' <=> SimAge' = Catch(CLOCKS_PER_BAUD')
  BY <1>1, <1>11
<1> QED BY <1>12, <1>13, <1>14, Zenon DEF Synchronized, ChangeMax

\* When the receiver of the board, which is r ticks into a byte, has m bytes to deliver
\* and the latest is s ticks old.
Late(m, r, s, b) ==
    \/ m = 1 /\ r = s
    \/ m = 1 /\ s = 10 * b /\ r >= s
    \/ m = 2 /\ r >= 10 * b + 1 + s

LEMMA CatchStep ==
    ASSUME Kinds, SimShape, UNCHANGED settings, ToBoard, LineStep,
           Agree(CLOCKS_PER_BAUD, m_baud_counts), taken' \in Seq(Octet),
           NEW line, RxTick(line), heard' = IF o_wr THEN Append(heard, o_data) ELSE heard
    PROVE  RxShape' /\ Catches' /\ heard' \in Seq(Octet)
<1> DEFINE C == CLOCKS_PER_BAUD
<1> DEFINE B == m_baud_counts
<1> DEFINE K == Catch(C)
<1> DEFINE s == SimAge
<1> DEFINE s2 == SimAge'
<1> DEFINE n == Len(taken)
<1> DEFINE n2 == Len(taken')
<1> DEFINE h == Len(heard)
<1> DEFINE h2 == Len(heard')
<1> DEFINE r == RxAge
<1> DEFINE r2 == RxAge'
<1> DEFINE k == rx_state
<1> DEFINE Bits == {0, 1}
<1>1. C \in Nat /\ C >= 3 /\ C' = C /\ B \in Nat /\ B >= 2 /\ B' = B
  BY Numbers DEF settings, Agree
<1>2. /\ K \in Nat /\ K >= 3 /\ K <= B + 1
      /\ 9 * B + 2 <= K + 9 * C /\ K + 9 * C <= 10 * B + 1
  <2>1. K \in Nat /\ K >= 3
    BY <1>1, Halves DEF Agree
  <2> QED BY <2>1 DEF Agree
<1>3. s \in 0 .. 10 * B /\ n \in Nat /\ h \in Nat /\ h <= n
      /\ taken \in Seq(Octet) /\ heard \in Seq(Octet)
  <2>1. taken \in Seq(Octet) /\ heard \in Seq(Octet) /\ h <= n
    BY DEF Kinds, ToBoard, Catches, Prefix
  <2>2. n \in Nat /\ h \in Nat
    BY <2>1, LenProperties
  <2>3. s \in 0 .. 10 * B
    BY <1>1, SimAges
  <2> QED BY <2>1, <2>2, <2>3
<1>4. \/ s = 10 * B /\ s2 = 0 /\ n2 = n + 1
      \/ s = 10 * B /\ s2 = 10 * B /\ n2 = n
      \/ s # 10 * B /\ s2 = s + 1 /\ n2 = n
  <2>1. CASE taken' = taken
    BY <2>1 DEF LineStep
  <2>2. CASE SimAge = 10 * B /\ SimAge' = 0 /\ \E byte \in Octet : taken' = Append(taken, byte)
    BY <1>3, <2>2, Longer
  <2> QED BY <2>1, <2>2 DEF LineStep
<1>5. \A i \in 1 .. n : taken'[i] = taken[i] /\ taken[i] \in Octet
  <2>1. \A i \in 1 .. n : taken[i] \in Octet
    BY <1>3, ElementOfSeq
  <2>2. \A i \in 1 .. n : taken'[i] = taken[i]
    BY <1>3, Longer DEF LineStep
  <2> QED BY <2>1, <2>2
<1>6. /\ Shows(qq_uart, s - 1, B, Latest(taken)) /\ Shows(ck_uart, s - 2, B, Latest(taken))
      /\ qq_uart \in Bits
      /\ s \in 2 .. K => (half_baud_time <=> s = K)
  BY DEF ToBoard, Synchronized, Shows
<1> HIDE DEF Bits
<1> DEFINE next == Append(Tail(data_reg), qq_uart)
<1>7. /\ data_reg \in Seq(Bits) /\ Len(data_reg) = 8
      /\ next \in Seq(Bits) /\ Len(next) = 8
      /\ \A i \in 1 .. 8 : next[i] = IF i = 8 THEN qq_uart ELSE data_reg[i + 1]
  <2>1. data_reg \in Seq(Bits) /\ Len(data_reg) = 8 /\ qq_uart \in Bits
    BY <1>6 DEF ToBoard, RxShape, Bits
  <2>2. data_reg # <<>>
    <3>1. Len(data_reg) # 0
      BY <2>1
    <3> QED BY <3>1, Filled, Zenon
  <2> DEFINE reg == data_reg
  <2> DEFINE bit == qq_uart
  <2>4. reg \in Seq(Bits) /\ reg # <<>> /\ bit \in Bits
    BY <2>1, <2>2
  <2> HIDE DEF reg, bit
  <2>5. /\ Append(Tail(reg), bit) \in Seq(Bits) /\ Len(Append(Tail(reg), bit)) = Len(reg)
        /\ \A i \in 1 .. Len(reg) :
              Append(Tail(reg), bit)[i] = IF i = Len(reg) THEN bit ELSE reg[i + 1]
    BY <2>4, Shifted
  <2>3. /\ next \in Seq(Bits) /\ Len(next) = Len(data_reg)
        /\ \A i \in 1 .. Len(data_reg) :
              next[i] = IF i = Len(data_reg) THEN qq_uart ELSE data_reg[i + 1]
    BY <2>5, Zenon DEF reg, bit
  <2> HIDE DEF next
  <2> QED BY <2>1, <2>3
<1> HIDE DEF next
<1>8. /\ k' = IF k = 15 THEN IF Starts THEN 0 ELSE 15
              ELSE IF k >= 9 /\ ck_uart = 1 THEN 15
              ELSE IF rx_zero_baud_counter /\ k <= 8 THEN k + 1 ELSE k
      /\ data_reg' = IF rx_zero_baud_counter /\ k # 8 THEN next ELSE data_reg
      /\ o_wr' = (rx_zero_baud_counter /\ k = 8 /\ ck_uart = 1)
      /\ o_data' = IF o_wr' THEN data_reg ELSE o_data
      /\ IF Starts \/ (k # 9 /\ rx_zero_baud_counter /\ k < 8)
         THEN rx_baud_counter' = C - 1 /\ rx_zero_baud_counter' = FALSE
         ELSE IF k = 9 THEN rx_baud_counter' = 0 /\ rx_zero_baud_counter' = TRUE
         ELSE /\ rx_baud_counter' = IF rx_zero_baud_counter THEN rx_baud_counter
                                    ELSE rx_baud_counter - 1
              /\ rx_zero_baud_counter' = (rx_zero_baud_counter \/ rx_baud_counter = 1)
  BY DEF RxTick, RxState, Data, Output, RxBaud, RXUL_IDLE, RXUL_WAIT, RXUL_STOP, RXUL_BIT_ZERO, next
<1>9. /\ rx_zero_baud_counter <=> rx_baud_counter = 0
      /\ \/ k \in 0 .. 8 /\ rx_baud_counter \in 0 .. C - 1 /\ ~o_wr
         \/ k = 9 /\ rx_baud_counter = 0 /\ o_wr
         \/ k = 15 /\ rx_baud_counter = 0 /\ ~o_wr
  BY DEF ToBoard, RxShape, RXUL_IDLE, RXUL_WAIT, RXUL_STOP
<1>10. /\ h <= n /\ \A i \in 1 .. h : heard[i] = taken[i]
       /\ k = 15 => \/ n - h = 0 /\ s - 2 >= 9 * B
                    \/ n - h = 1 /\ s <= K
       /\ k # 15 => Late(n - h, r, s, B)
       /\ k \in 0 .. 8 => \A i \in 1 .. k : data_reg[8 - k + i] = taken[h + 1][i]
       /\ o_wr => o_data = taken[h + 1]
  BY DEF ToBoard, Catches, Prefix, Missing, Late, RXUL_IDLE, RXUL_WAIT, RXUL_STOP
<1>11. Starts <=> k = 15 /\ ck_uart = 0 /\ half_baud_time
  BY DEF Starts, RXUL_IDLE
<1> DEFINE Registers ==
      /\ rx_zero_baud_counter' <=> rx_baud_counter' = 0
      /\ \/ k' \in 0 .. 8 /\ rx_baud_counter' \in 0 .. C - 1 /\ ~o_wr'
         \/ k' = 9 /\ rx_baud_counter' = 0 /\ o_wr'
         \/ k' = 15 /\ rx_baud_counter' = 0 /\ ~o_wr'
      /\ data_reg' \in Seq(Bits) /\ Len(data_reg') = 8
<1> DEFINE Delivered ==
      /\ heard' \in Seq(Octet) /\ h2 <= n2 /\ \A i \in 1 .. h2 : heard'[i] = taken'[i]
<1> DEFINE Between == \/ n2 - h2 = 0 /\ s2 - 2 >= 9 * B
                      \/ n2 - h2 = 1 /\ s2 <= K
<1> DEFINE Holds == \A i \in 1 .. k' : data_reg'[8 - k' + i] = taken'[h2 + 1][i]
<1>12. ASSUME Registers, Delivered, k' = 15 => Between, k' # 15 => Late(n2 - h2, r2, s2, B),
              k' \in 0 .. 8 => Holds, o_wr' => o_data' = taken'[h2 + 1]
       PROVE  RxShape' /\ Catches' /\ heard' \in Seq(Octet)
  <2>1. RxShape'
    BY <1>1, <1>12 DEF RxShape, Bits, RXUL_IDLE, RXUL_WAIT, RXUL_STOP
  <2>2. /\ rx_state' = RXUL_IDLE => \/ Missing' = 0 /\ SimAge' - 2 >= 9 * m_baud_counts'
                                    \/ Missing' = 1 /\ SimAge' <= Catch(CLOCKS_PER_BAUD')
    BY <1>1, <1>12 DEF Missing, RXUL_IDLE
  <2>3. rx_state' # RXUL_IDLE =>
         \/ Missing' = 1 /\ RxAge' = SimAge'
         \/ Missing' = 1 /\ SimAge' = 10 * m_baud_counts' /\ RxAge' >= SimAge'
         \/ Missing' = 2 /\ RxAge' >= 10 * m_baud_counts' + 1 + SimAge'
    BY <1>1, <1>12 DEF Missing, RXUL_IDLE, Late
  <2>4. /\ rx_state' \in 0 .. RXUL_STOP =>
             \A i \in 1 .. rx_state' : data_reg'[8 - rx_state' + i] = taken'[Len(heard') + 1][i]
        /\ o_wr' => o_data' = taken'[Len(heard') + 1]
    BY <1>12 DEF RXUL_STOP
  <2>5. Prefix(heard', taken')
    BY <1>12 DEF Prefix
  <2> QED BY <1>12, <2>1, <2>2, <2>3, <2>4, <2>5 DEF Catches
<1>13. ASSUME ~o_wr
       PROVE  Delivered /\ h2 = h /\ (n - h >= 1 => /\ taken'[h2 + 1] = taken[h + 1]
                                                    /\ taken[h + 1] \in Octet)
  <2>1. heard' = heard /\ h2 = h
    BY <1>13
  <2>2. n2 >= n
    BY <1>3, <1>4
  <2>3. n - h >= 1 => h + 1 \in 1 .. n
    BY <1>3
  <2>4. \A i \in 1 .. h : heard'[i] = taken'[i]
    BY <1>3, <1>5, <1>10, <2>1
  <2> QED BY <1>3, <1>5, <2>1, <2>2, <2>3, <2>4
<1>14. CASE k = 15
  <2>1. /\ rx_zero_baud_counter /\ rx_baud_counter = 0 /\ ~o_wr
        /\ data_reg' = next /\ k' = (IF Starts THEN 0 ELSE 15)
    BY <1>8, <1>9, <1>14
  <2>2. ~o_wr'
    <3>1. o_wr' = (rx_zero_baud_counter /\ k = 8 /\ ck_uart = 1) /\ k # 8
      BY <1>8, <1>14
    <3> QED BY <3>1, Zenon
  <2>3. Delivered /\ h2 = h
    BY <1>13, <2>1
  <2>4. data_reg' \in Seq(Bits) /\ Len(data_reg') = 8
    BY <1>7, <2>1
  <2> HIDE DEF s, s2, n, n2, h, h2, r2, K
  <2>5. CASE Starts
    <3>1. k' = 0 /\ rx_baud_counter' = C - 1 /\ ~rx_zero_baud_counter'
      BY <1>8, <2>1, <2>5
    <3>2. ck_uart = 0 /\ half_baud_time
      BY <1>11, <2>5
    <3>3. s - 2 >= 0 /\ ~(s - 2 >= 9 * B)
      BY <1>3, <1>6, <3>2 DEF Shows
    <3>4. n - h = 1 /\ s = K
      BY <1>3, <1>2, <1>6, <1>10, <1>14, <3>2, <3>3
    <3>5. n2 - h2 = 1 /\ s2 = K + 1
      BY <1>1, <1>2, <1>3, <1>4, <2>3, <3>4
    <3>6. r2 = K + 1
      BY <1>1, <1>2, <3>1 DEF r2, K, RxAge, RXUL_WAIT
    <3>7. Late(n2 - h2, r2, s2, B)
      BY <3>5, <3>6 DEF Late
    <3>8. Registers
      BY <1>1, <2>2, <2>4, <3>1
    <3>9. k' # 15 /\ Holds
      BY <3>1
    <3> QED BY <1>12, <2>2, <2>3, <3>7, <3>8, <3>9, Zenon
  <2>6. CASE ~Starts
    <3>1. k' = 15 /\ rx_baud_counter' = 0 /\ rx_zero_baud_counter'
      <4>1. k' = 15 /\ rx_baud_counter' = 0
        BY <1>8, <1>14, <2>1, <2>6
      <4>2. rx_zero_baud_counter' = (rx_zero_baud_counter \/ rx_baud_counter = 1)
        BY <1>8, <1>14, <2>6
      <4> QED BY <2>1, <4>1, <4>2, Zenon
    <3>2. s = K => n - h # 1
      <4> SUFFICES ASSUME s = K, n - h = 1 PROVE FALSE
        OBVIOUS
      <4>1. half_baud_time
        BY <1>2, <1>6, <3>2
      <4>2. 0 * B <= s - 2 /\ s - 2 < (0 + 1) * B /\ 0 \in 0 .. 8
        BY <1>1, <1>2
      <4>3. ck_uart = Bit(Latest(taken), 0)
        BY <1>6, <4>2 DEF Shows
      <4> QED BY <1>11, <1>14, <2>6, <4>1, <4>3 DEF Bit
    <3>3. Between
      <4>1. CASE n - h = 0 /\ s - 2 >= 9 * B
        BY <1>1, <1>2, <1>3, <1>4, <2>3, <4>1
      <4>2. CASE n - h = 1 /\ s <= K
        BY <1>1, <1>2, <1>3, <1>4, <2>3, <3>2, <4>2
      <4> QED BY <1>10, <1>14, <4>1, <4>2
    <3>4. Registers
      BY <1>1, <2>2, <2>4, <3>1
    <3>5. k' = 15 /\ ~(k' \in 0 .. 8)
      BY <3>1
    <3> QED BY <1>12, <2>2, <2>3, <3>3, <3>4, <3>5, Zenon
  <2> QED BY <2>5, <2>6
<1>15. CASE k \in 0 .. 8
  <2>1. rx_baud_counter \in 0 .. C - 1 /\ ~o_wr /\ ~Starts
    BY <1>9, <1>11, <1>15
  <2>2. Late(n - h, r, s, B) /\ n - h >= 1
    BY <1>10, <1>15 DEF Late
  <2>3. /\ Delivered /\ h2 = h
        /\ taken'[h2 + 1] = taken[h + 1] /\ taken[h + 1] \in Octet
    BY <1>13, <2>1, <2>2
  <2> HIDE DEF r, r2
  <2>4. r = K + 1 + (k * C + (C - 1 - rx_baud_counter))
    BY <1>15 DEF r, RxAge, RXUL_WAIT
  <2>5. /\ k * C \in Nat /\ (k + 1) * C = k * C + C /\ (k + 1) * C <= 9 * C
        /\ (k = 8 => k * C = 8 * C)
    BY <1>1, <1>15, Times
  <2> HIDE DEF s, s2, n, n2, h, h2, K
  <2>6. r \in Int /\ r <= 10 * B + 1
    BY <1>1, <1>2, <2>1, <2>4, <2>5
  <2>7. Late(n2 - h2, r + 1, s2, B)
    <3> DEFINE m == n - h
    <3> DEFINE m2 == n2 - h2
    <3>4. \/ s = 10 * B /\ s2 = 0 /\ m2 = m + 1
          \/ s = 10 * B /\ s2 = 10 * B /\ m2 = m
          \/ s # 10 * B /\ s2 = s + 1 /\ m2 = m
      <4>1. h2 = h
        BY <2>3
      <4> QED BY <1>3, <1>4, <4>1
    <3> HIDE DEF m, m2
    <3> SUFFICES Late(m2, r + 1, s2, B)
      BY DEF m2
    <3>1. CASE m = 1 /\ r = s
      BY <1>1, <1>3, <2>6, <3>1, <3>4 DEF Late
    <3>2. CASE m = 1 /\ s = 10 * B /\ r >= s
      BY <1>1, <1>3, <2>6, <3>2, <3>4 DEF Late
    <3>3. CASE m = 2 /\ r >= 10 * B + 1 + s
      <4>1. s # 10 * B
        BY <1>1, <1>3, <2>6, <3>3
      <4> QED BY <1>1, <1>3, <2>6, <3>3, <3>4, <4>1 DEF Late
    <3> DEFINE fits == (m = 1 /\ r = s) \/ (m = 1 /\ s = 10 * B /\ r >= s)
                       \/ (m = 2 /\ r >= 10 * B + 1 + s)
    <3>5. fits
      BY <2>2 DEF Late, m
    <3> QED BY <3>1, <3>2, <3>3, <3>5
  <2>8. CASE rx_baud_counter # 0
    <3>1. ~rx_zero_baud_counter
      BY <1>9, <2>8
    <3>2. ~o_wr'
      <4>1. o_wr' = (rx_zero_baud_counter /\ k = 8 /\ ck_uart = 1)
        BY <1>8
      <4> QED BY <3>1, <4>1, Zenon
    <3>3. k' = k /\ data_reg' = data_reg /\ rx_baud_counter' = rx_baud_counter - 1
      BY <1>8, <1>15, <2>1, <3>1
    <3>4. rx_zero_baud_counter' <=> rx_baud_counter' = 0
      <4>1. rx_zero_baud_counter' = (rx_zero_baud_counter \/ rx_baud_counter = 1)
        BY <1>8, <1>15, <2>1, <3>1
      <4>2. rx_baud_counter = 1 <=> rx_baud_counter' = 0
        BY <1>1, <2>1, <3>3
      <4> QED BY <3>1, <4>1, <4>2, Zenon
    <3>5. Registers
      BY <1>1, <1>7, <1>15, <2>1, <2>8, <3>2, <3>3, <3>4
    <3>6. r2 = r + 1
      <4>1. r2 = K + 1 + (k * C + (C - 1 - rx_baud_counter'))
        BY <1>1, <1>15, <3>3 DEF r2, RxAge, RXUL_WAIT, K
      <4> QED BY <1>1, <1>2, <2>1, <2>4, <2>5, <3>3, <4>1
    <3>7. Holds
      BY <1>10, <1>15, <2>3, <3>3
    <3>8. k' # 15
      BY <1>15, <3>3
    <3> QED BY <1>12, <2>3, <2>7, <3>2, <3>5, <3>6, <3>7, <3>8
  <2>9. CASE rx_baud_counter = 0 /\ k # 8
    <3>1. rx_zero_baud_counter
      BY <1>9, <2>9
    <3>2. ~o_wr'
      <4>1. o_wr' = (rx_zero_baud_counter /\ k = 8 /\ ck_uart = 1)
        BY <1>8
      <4> QED BY <2>9, <4>1, Zenon
    <3>3. /\ k' = k + 1 /\ data_reg' = next
          /\ rx_baud_counter' = C - 1 /\ ~rx_zero_baud_counter'
      BY <1>8, <1>15, <2>1, <2>9, <3>1
    <3>4. k \in 0 .. 7
      BY <1>15, <2>9
    <3>5. Registers
      BY <1>1, <1>7, <3>2, <3>3, <3>4
    <3>6. r = K + (k + 1) * C /\ r2 = r + 1
      <4>1. r2 = K + 1 + ((k + 1) * C + (C - 1 - (C - 1)))
        BY <1>1, <3>3, <3>4 DEF r2, RxAge, RXUL_WAIT, K
      <4> DEFINE x == k * C
      <4> DEFINE y == (k + 1) * C
      <4>2. r = K + 1 + (x + (C - 1 - 0)) /\ r2 = K + 1 + (y + (C - 1 - (C - 1)))
            /\ x \in Nat /\ y = x + C
        BY <2>4, <2>5, <2>9, <4>1
      <4> HIDE DEF x, y
      <4>3. r = K + y /\ r2 = r + 1
        BY <1>1, <1>2, <4>2
      <4> QED BY <4>3 DEF y
    <3>7. qq_uart = taken[h + 1][k + 1]
      <4>1. (k + 1) * B < r /\ r <= (k + 2) * B
        BY <3>4, <3>6 DEF Agree, K
      <4>2. (k + 2) * B <= 9 * B /\ (k + 1) * B \in Nat /\ (k + 2) * B \in Nat
        BY <1>1, <3>4, Times
      <4>3. n - h = 1 /\ r = s
        BY <1>1, <1>3, <2>2, <2>6, <4>1, <4>2 DEF Late
      <4>4. (k + 1) * B <= s - 1 /\ s - 1 < (k + 2) * B
        BY <1>3, <4>1, <4>2, <4>3
      <4>5. qq_uart = Bit(Latest(taken), k + 1)
        <5>1. k + 1 \in 0 .. 8 /\ (k + 1) + 1 = k + 2
          BY <3>4
        <5> QED BY <1>6, <4>4, <5>1 DEF Shows
      <4>6. Latest(taken) = taken[h + 1]
        <5>1. h + 1 = n
          BY <1>3, <4>3
        <5> QED BY <5>1 DEF Latest, n
      <4> QED BY <3>4, <4>5, <4>6 DEF Bit
    <3>8. Holds
      <4>1. ASSUME NEW i \in 1 .. k + 1 PROVE next[8 - (k + 1) + i] = taken[h + 1][i]
        <5>1. CASE i = k + 1
          <6>1. 8 - (k + 1) + i = 8
            BY <3>4, <5>1
          <6> QED BY <1>7, <3>7, <5>1, <6>1
        <5>2. CASE i # k + 1
          <6> DEFINE j == 8 - (k + 1) + i
          <6>1. j \in 1 .. 7 /\ j + 1 = 8 - k + i /\ i \in 1 .. k
            BY <3>4, <5>2
          <6>2. next[j] = data_reg[j + 1]
            BY <1>7, <6>1
          <6>3. data_reg[8 - k + i] = taken[h + 1][i]
            BY <1>10, <1>15, <6>1
          <6> QED BY <6>1, <6>2, <6>3
        <5> QED BY <5>1, <5>2
      <4> QED BY <2>3, <3>3, <4>1
    <3>9. k' # 15
      BY <3>3, <3>4
    <3> QED BY <1>12, <2>3, <2>7, <3>2, <3>5, <3>6, <3>8, <3>9
  <2>10. CASE rx_baud_counter = 0 /\ k = 8
    <3>1. rx_zero_baud_counter
      BY <1>9, <2>10
    <3>2. r = K + 9 * C
      BY <1>1, <1>2, <2>4, <2>5, <2>10
    <3>3. ck_uart = 1
      <4>1. s - 2 < 0 \/ s - 2 >= 9 * B
        BY <1>1, <1>2, <1>3, <2>2, <3>2 DEF Late
      <4> QED BY <1>6, <4>1 DEF Shows
    <3>4. o_wr' /\ o_data' = data_reg
      <4>1. o_wr' = (rx_zero_baud_counter /\ k = 8 /\ ck_uart = 1)
        BY <1>8
      <4>2. o_wr'
        BY <2>10, <3>1, <3>3, <4>1, Zenon
      <4> QED BY <1>8, <4>2
    <3>5. /\ k' = 9 /\ data_reg' = data_reg
          /\ rx_baud_counter' = 0 /\ rx_zero_baud_counter'
      <4>1. k' = 9 /\ data_reg' = data_reg /\ rx_baud_counter' = 0
        BY <1>8, <2>1, <2>10, <3>1
      <4>2. rx_zero_baud_counter' = (rx_zero_baud_counter \/ rx_baud_counter = 1)
        BY <1>8, <2>1, <2>10
      <4> QED BY <3>1, <4>1, <4>2, Zenon
    <3>6. Registers
      BY <1>7, <3>4, <3>5
    <3>7. r2 = r + 1
      BY <1>1, <1>2, <3>2, <3>5 DEF r2, RxAge, RXUL_WAIT, K
    <3>8. data_reg = taken[h + 1]
      <4> DEFINE byte == taken[h + 1]
      <4>1. \A i \in 1 .. 8 : data_reg[8 - 8 + i] = byte[i]
        BY <1>10, <2>10
      <4>2. byte \in Seq(Bits) /\ Len(byte) = 8
        BY <2>3, OctetIsSeq DEF Bits
      <4> HIDE DEF byte
      <4>3. Len(data_reg) = Len(byte) /\ \A i \in 1 .. Len(data_reg) : data_reg[i] = byte[i]
        <5>1. \A i \in 1 .. 8 : data_reg[i] = byte[i]
          <6>1. \A i \in 1 .. 8 : 8 - 8 + i = i
            OBVIOUS
          <6> QED BY <4>1, <6>1
        <5> QED BY <1>7, <4>2, <5>1
      <4>4. data_reg = byte
        BY <1>7, <4>2, <4>3, SeqEqual
      <4> QED BY <4>4 DEF byte
    <3>9. k' # 15 /\ ~(k' \in 0 .. 8)
      BY <3>5
    <3> QED BY <1>12, <2>3, <2>7, <3>4, <3>6, <3>7, <3>8, <3>9
  <2> QED BY <2>8, <2>9, <2>10
<1>16. CASE k = 9
  <2>1. rx_baud_counter = 0 /\ o_wr /\ ~Starts /\ rx_zero_baud_counter
    BY <1>9, <1>11, <1>16
  <2>2. Late(n - h, r, s, B) /\ n - h >= 1 /\ o_data = taken[h + 1]
    BY <1>10, <1>16, <2>1 DEF Late
  <2>3. r = K + 1 + 9 * C
    BY <1>16 DEF RxAge, RXUL_WAIT
  <2>4. h + 1 \in 1 .. n /\ o_data \in Octet /\ taken'[h + 1] = taken[h + 1]
    <3>1. h + 1 \in 1 .. n
      <4> HIDE DEF n, h
      <4> QED BY <1>3, <2>2
    <3> QED BY <1>5, <2>2, <3>1
  <2>5. /\ heard' \in Seq(Octet) /\ h2 = h + 1 /\ heard'[h + 1] = o_data
        /\ \A i \in 1 .. h : heard'[i] = heard[i]
    BY <1>3, <2>1, <2>4, Longer
  <2> HIDE DEF s, s2, n, n2, h, h2, r, r2, K
  <2>6. Delivered
    <3>1. ASSUME NEW i \in 1 .. h + 1 PROVE heard'[i] = taken'[i]
      <4>1. CASE i = h + 1
        BY <2>2, <2>4, <2>5, <4>1
      <4>2. CASE i # h + 1
        <5>1. i \in 1 .. h /\ i \in 1 .. n
          BY <1>3, <4>2
        <5> QED BY <1>5, <1>10, <2>5, <5>1
      <4> QED BY <4>1, <4>2
    <3>2. h2 <= n2
      BY <1>3, <1>4, <2>4, <2>5
    <3> QED BY <2>5, <3>1, <3>2
  <2>7. ck_uart = 1
    <3>1. s - 2 < 0 \/ s - 2 >= 9 * B
      BY <1>1, <1>2, <1>3, <2>2, <2>3 DEF Late
    <3> QED BY <1>6, <3>1 DEF Shows
  <2>8. ~o_wr'
    <3>1. o_wr' = (rx_zero_baud_counter /\ k = 8 /\ ck_uart = 1) /\ k # 8
      BY <1>8, <1>16
    <3> QED BY <3>1, Zenon
  <2>9. k' = 15 /\ rx_baud_counter' = 0 /\ rx_zero_baud_counter' /\ data_reg' = next
    BY <1>8, <1>16, <2>1, <2>7
  <2>10. Registers
    BY <1>7, <2>8, <2>9
  <2>11. Between
    <3>1. CASE n - h = 1 /\ r = s
      BY <1>1, <1>2, <1>3, <1>4, <2>3, <2>5, <3>1
    <3>2. CASE n - h = 1 /\ s = 10 * B
      BY <1>1, <1>2, <1>3, <1>4, <2>5, <3>2
    <3>3. CASE n - h = 2 /\ r >= 10 * B + 1 + s
      <4>1. s <= 1
        BY <1>1, <1>2, <1>3, <2>3, <3>3
      <4> QED BY <1>1, <1>2, <1>3, <1>4, <2>5, <3>3, <4>1
    <3> QED BY <2>2, <3>1, <3>2, <3>3 DEF Late
  <2>12. k' = 15 /\ ~(k' \in 0 .. 8)
    BY <2>9
  <2> QED BY <1>12, <2>6, <2>8, <2>10, <2>11, <2>12, Zenon
<1> QED BY <1>9, <1>14, <1>15, <1>16

-----------------------------------------------------------------------------
(* The invariant.                                                             *)

\* What the receivers bear, of the settings.
Bearable == \A s \in Settings : Agree(s.clocks, s.counts)

LEMMA Bears ==
    ASSUME Bearable, Kinds
    PROVE  Agree(CLOCKS_PER_BAUD, m_baud_counts) /\ CLOCKS_PER_BAUD >= 4 /\ m_baud_counts >= 2
<1>1. PICK s \in Settings : CLOCKS_PER_BAUD = s.clocks /\ m_baud_counts = s.counts
  BY DEF Kinds
<1>2. Agree(CLOCKS_PER_BAUD, m_baud_counts)
  BY <1>1 DEF Bearable
<1> QED BY <1>2 DEF Agree

LEMMA InitInv ==
    ASSUME Bearable, Init
    PROVE  SInv
<1> DEFINE C == CLOCKS_PER_BAUD
<1> DEFINE B == m_baud_counts
<1>1. PICK s \in Settings :
          /\ network = s.network /\ CLOCKS_PER_BAUD = s.clocks /\ m_baud_counts = s.counts
          /\ conn = [c \in Clients |->
                        IF c <= s.clients /\ ~network
                        THEN [Unconnected EXCEPT !.server = "accepted"]
                        ELSE [Unconnected EXCEPT !.gone = (c > s.clients)]]
  BY DEF Init
<1>2. /\ con = IF network THEN None ELSE StandardInput
      /\ SimInit /\ RxInit /\ TxInit
      /\ m_ticks = 0 /\ said = <<>> /\ heard = <<>>
  BY DEF Init
<1>3. Kinds
  <2>1. \A v \in BOOLEAN : [Unconnected EXCEPT !.gone = v] \in Conns
    BY EmptySeq DEF Unconnected, Conns
  <2>2. [Unconnected EXCEPT !.server = "accepted"] \in Conns
    BY EmptySeq DEF Unconnected, Conns
  <2>3. conn \in [Clients -> Conns]
    <3>1. ASSUME NEW c \in Clients
          PROVE  (IF c <= s.clients /\ ~network
                  THEN [Unconnected EXCEPT !.server = "accepted"]
                  ELSE [Unconnected EXCEPT !.gone = (c > s.clients)]) \in Conns
      <4>1. (c > s.clients) \in BOOLEAN
        OBVIOUS
      <4>2. [Unconnected EXCEPT !.gone = (c > s.clients)] \in Conns
        BY <2>1, <4>1, Zenon
      <4> QED BY <2>2, <4>2, Zenon
    <3> QED BY <1>1, <3>1
  <2>4. con \in Clients \cup {None}
    BY <1>2, SettingsAssumption
  <2>5. said \in Seq(Octet) /\ heard \in Seq(Octet) /\ taken \in Seq(Octet) /\ passed \in Seq(Octet)
    BY <1>2, EmptySeq DEF SimInit
  <2> QED BY <1>1, <1>2, <2>3, <2>4, <2>5 DEF Kinds
<1>4. C \in Nat /\ C >= 4 /\ B \in Nat /\ B >= 2 /\ Catch(C) <= B + 1 /\ network \in BOOLEAN
  BY <1>3, Bears, Numbers DEF Agree
<1>5. TxShape /\ TxAge = 10 * C - 1
  <2>1. lcl_data \in Seq({0, 1}) /\ Len(lcl_data) = 8 /\ \A i \in 1 .. 8 : lcl_data[i] = 1
    <3> DEFINE ones == [i \in 1 .. 8 |-> 1]
    <3>1. ones \in Octet
      BY DEF Octet
    <3>2. lcl_data = ones /\ \A i \in 1 .. 8 : ones[i] = 1
      BY <1>2 DEF TxInit
    <3> HIDE DEF ones
    <3> QED BY <3>1, <3>2, OctetIsSeq
  <2>2. /\ tx_state = 15 /\ tx_baud_counter = 0 /\ tx_zero_baud_counter = TRUE
        /\ r_busy = TRUE /\ o_uart_tx = 1
    BY <1>2 DEF TxInit, TXUL_IDLE
  <2>3. \A i \in 1 .. 8 : lcl_data[i] = Bit(Latest(said), tx_state + i)
    BY <2>1, <2>2 DEF Bit
  <2>4. o_uart_tx = Bit(Latest(said), tx_state)
    BY <2>2 DEF Bit
  <2>5. TxAge = 10 * C - 1
    BY <2>2 DEF TxAge, TXUL_STOP, TXUL_IDLE
  <2> QED BY <1>2, <2>1, <2>2, <2>3, <2>4, <2>5 DEF TxShape, TXUL_IDLE, TXUL_STOP
<1>6. SimShape /\ SimAge = 10 * B
  <2>1. m_tx_data \in Seq({0, 1}) /\ Len(m_tx_data) = 10 /\ \A i \in 1 .. 10 : m_tx_data[i] = 1
    <3> DEFINE ones == [i \in 1 .. 10 |-> 1]
    <3>1. ones \in Seq({0, 1})
      BY SeqDef
    <3>2. m_tx_data = ones /\ (\A i \in 1 .. 10 : ones[i] = 1) /\ DOMAIN ones = 1 .. 10
      BY <1>2 DEF SimInit
    <3> HIDE DEF ones
    <3> QED BY <3>1, <3>2, LenProperties
  <2>2. m_tx_state = "TXIDLE" /\ m_tx_baudcounter = 0 /\ m_tx_busy = 0
    BY <1>2 DEF SimInit
  <2>3. \A i \in 1 .. 10 : m_tx_data[i] = Bit(Latest(taken), 10 - m_tx_busy + i - 1)
    BY <2>1, <2>2 DEF Bit
  <2>4. SimAge = 10 * B
    BY <2>2 DEF SimAge
  <2> QED BY <1>4, <2>1, <2>2, <2>3, <2>4 DEF SimShape
<1>7. FromBoard
  <2>1. /\ m_rx_state = "RXIDLE" /\ m_rx_baudcounter = 0 /\ m_rx_data = <<>>
        /\ m_rx_changectr = 0 /\ m_last_tx = 1 /\ passed = <<>>
        /\ m_tx_state = "TXIDLE" /\ taken = <<>>
    BY <1>2 DEF SimInit
  <2>2. CASE network
    <3>1. Said = <<>> /\ Len(Said) = 0 /\ Len(passed) = 0
      BY <1>2, <2>1, <2>2, EmptySeq DEF Said
    <3>2. Behind = 0 /\ Prefix(passed, Said)
      BY <3>1 DEF Behind, Prefix
    <3>3. m_rx_data \in Seq({0, 1}) /\ Len(m_rx_data) = 0
      BY <2>1, EmptySeq
    <3>4. Listens
      BY <1>4, <1>5, <2>1, <3>2, <3>3 DEF Listens
    <3>5. Fallen
      BY <1>4, <1>5 DEF Fallen
    <3> QED BY <2>2, <3>4, <3>5, Zenon DEF FromBoard, Quiet
  <2>3. CASE ~network
    <3>1. m_ticks + 1 < WarmUp /\ m_ticks <= C \div 2
      BY <1>2, <1>4 DEF WarmUp
    <3>2. Quiet
      BY <2>3, <3>1, Zenon DEF Quiet
    <3>3. WarmsUp
      BY <1>2, <2>1, <3>1 DEF WarmsUp
    <3> QED BY <3>2, <3>3, Zenon DEF FromBoard
  <2> QED BY <2>2, <2>3
<1>8. ToBoard
  <2>1. /\ q_uart = 1 /\ qq_uart = 1 /\ ck_uart = 1
        /\ chg_counter = C /\ half_baud_time = FALSE
        /\ rx_state = 15 /\ data_reg = [i \in 1 .. 8 |-> 1]
        /\ rx_baud_counter = 0 /\ rx_zero_baud_counter = TRUE /\ o_wr = FALSE
    BY <1>2 DEF RxInit, ChangeMax, RXUL_IDLE
  <2>2. Synchronized
    <3>1. /\ SimAge \in Int /\ SimAge >= 9 * B /\ SimAge - 1 \in Int /\ SimAge - 1 >= 9 * B
          /\ SimAge - 2 \in Int /\ SimAge - 2 >= 9 * B
      BY <1>4, <1>6
    <3>2. /\ Shows(1, SimAge, B, Latest(taken)) /\ Shows(1, SimAge - 1, B, Latest(taken))
          /\ Shows(1, SimAge - 2, B, Latest(taken))
      BY <1>4, <3>1, High
    <3>3. ~(SimAge \in 2 .. Catch(C))
      <4>1. Catch(C) \in Nat
        BY <1>4, Halves
      <4> QED BY <1>4, <1>6, <4>1
    <3>4. chg_counter \in 0 .. C /\ half_baud_time \in BOOLEAN
      <4>1. half_baud_time = FALSE /\ FALSE \in BOOLEAN
        BY <2>1
      <4>2. chg_counter \in 0 .. C
        BY <1>4, <2>1
      <4> QED BY <4>1, <4>2, Zenon
    <3> QED BY <2>1, <3>2, <3>3, <3>4 DEF Synchronized, ChangeMax
  <2>3. RxShape
    <3> DEFINE ones == [i \in 1 .. 8 |-> 1]
    <3>1. ones \in Octet
      BY DEF Octet
    <3>2. data_reg = ones
      BY <2>1
    <3> HIDE DEF ones
    <3>3. data_reg \in Seq({0, 1}) /\ Len(data_reg) = 8
      BY <3>1, <3>2, OctetIsSeq
    <3> QED BY <2>1, <3>3 DEF RxShape, RXUL_IDLE, RXUL_WAIT, RXUL_STOP
  <2>4. Catches
    <3>1. Len(heard) = 0 /\ Len(taken) = 0
      BY <1>2, EmptySeq DEF SimInit
    <3>2. Prefix(heard, taken) /\ Missing = 0
      BY <3>1 DEF Prefix, Missing
    <3> QED BY <1>4, <1>6, <2>1, <3>2 DEF Catches, RXUL_IDLE, RXUL_WAIT, RXUL_STOP
  <2> QED BY <2>2, <2>3, <2>4 DEF ToBoard
<1> QED BY <1>3, <1>5, <1>6, <1>7, <1>8 DEF SInv

\* The invariant is about the line: of a connection it says what it is made of.
LEMMA SameLine ==
    ASSUME SInv, UNCHANGED <<sim_vars, settings, board_vars>>, conn' \in [Clients -> Conns]
    PROVE  SInv'
<1>1. /\ UNCHANGED <<con, taken, passed, m_ticks, said, heard>>
      /\ UNCHANGED <<network, m_baud_counts, CLOCKS_PER_BAUD>>
      /\ UNCHANGED sim_rx /\ UNCHANGED sim_tx /\ UNCHANGED tx_vars /\ UNCHANGED rx_vars
  BY DEF sim_vars, settings, board_vars
<1>2. Kinds'
  <2>1. Kinds
    BY DEF SInv
  <2> QED BY <1>1, <2>1 DEF Kinds
<1>3. TxAge' = TxAge /\ TxShape'
  <2>1. TxShape
    BY DEF SInv
  <2> QED BY <1>1, <2>1 DEF TxAge, TxShape, tx_vars, Latest
<1>4. SimAge' = SimAge /\ SimShape'
  <2>1. SimShape
    BY DEF SInv
  <2> QED BY <1>1, <2>1 DEF SimAge, SimShape, sim_tx, Latest
<1>5. FromBoard'
  <2>1. FromBoard
    BY DEF SInv
  <2>2. Quiet' = Quiet /\ WarmUp' = WarmUp
    BY <1>1 DEF Quiet, WarmUp
  <2>3. Said' = Said /\ Behind' = Behind /\ Rest' = Rest
    BY <1>1 DEF Said, Behind, Rest, sim_rx
  <2>4. Listens' = Listens
    BY <1>1, <1>3, <2>3 DEF Listens, sim_rx
  <2>5. Fallen' = Fallen
    BY <1>1, <1>3 DEF Fallen, sim_rx
  <2>6. WarmsUp' = WarmsUp
    BY <1>1, <1>3, <2>2 DEF WarmsUp, sim_rx, sim_tx
  <2> QED BY <1>1, <2>1, <2>2, <2>4, <2>5, <2>6 DEF FromBoard
<1>6. ToBoard'
  <2>1. Synchronized /\ RxShape /\ Catches
    BY DEF SInv, ToBoard
  <2>2. Synchronized'
    <3>1. /\ UNCHANGED <<q_uart, qq_uart, ck_uart, chg_counter, half_baud_time>>
          /\ Latest(taken)' = Latest(taken) /\ ChangeMax' = ChangeMax
      BY <1>1 DEF rx_vars, Latest, ChangeMax
    <3>2. /\ q_uart' = q_uart /\ qq_uart' = qq_uart /\ ck_uart' = ck_uart
          /\ chg_counter' = chg_counter /\ half_baud_time' = half_baud_time
          /\ m_baud_counts' = m_baud_counts /\ CLOCKS_PER_BAUD' = CLOCKS_PER_BAUD
      BY <1>1, <3>1
    <3>3. /\ Shows(q_uart', SimAge', m_baud_counts', Latest(taken)')
          /\ Shows(qq_uart', SimAge' - 1, m_baud_counts', Latest(taken)')
          /\ Shows(ck_uart', SimAge' - 2, m_baud_counts', Latest(taken)')
      <4>1. /\ Shows(q_uart, SimAge, m_baud_counts, Latest(taken))
            /\ Shows(qq_uart, SimAge - 1, m_baud_counts, Latest(taken))
            /\ Shows(ck_uart, SimAge - 2, m_baud_counts, Latest(taken))
        BY <2>1 DEF Synchronized
      <4> QED BY <1>4, <3>1, <3>2, <4>1
    <3>4. chg_counter' \in 0 .. ChangeMax' /\ half_baud_time' \in BOOLEAN
      <4>1. chg_counter \in 0 .. ChangeMax /\ half_baud_time \in BOOLEAN
        BY <2>1 DEF Synchronized
      <4> QED BY <3>1, <3>2, <4>1
    <3>5. SimAge' \in 2 .. Catch(CLOCKS_PER_BAUD') =>
            /\ chg_counter' = SimAge' - 2
            /\ half_baud_time' <=> SimAge' = Catch(CLOCKS_PER_BAUD')
      <4> DEFINE K == Catch(CLOCKS_PER_BAUD)
      <4>1. SimAge \in 2 .. K => /\ chg_counter = SimAge - 2
                                 /\ half_baud_time <=> SimAge = K
        BY <2>1, Zenon DEF Synchronized
      <4>2. K = Catch(CLOCKS_PER_BAUD')
        BY <3>2
      <4> HIDE DEF K
      <4>3. SimAge' \in 2 .. K => /\ chg_counter' = SimAge' - 2
                                  /\ half_baud_time' <=> SimAge' = K
        BY <1>4, <3>2, <4>1
      <4> SUFFICES ASSUME SimAge' \in 2 .. Catch(CLOCKS_PER_BAUD')
                   PROVE  /\ chg_counter' = SimAge' - 2
                          /\ half_baud_time' <=> SimAge' = Catch(CLOCKS_PER_BAUD')
        OBVIOUS
      <4>4. SimAge' \in 2 .. K
        BY <4>2
      <4>5. chg_counter' = SimAge' - 2 /\ (half_baud_time' <=> SimAge' = K)
        BY <4>3, <4>4, Zenon
      <4>6. SimAge' = K <=> SimAge' = Catch(CLOCKS_PER_BAUD')
        BY <4>2
      <4>7. half_baud_time' <=> SimAge' = Catch(CLOCKS_PER_BAUD')
        BY <4>5, <4>6, Zenon
      <4> QED BY <4>5, <4>7, Zenon
    <3> QED BY <3>3, <3>4, <3>5, Zenon DEF Synchronized
  <2>3. RxShape'
    BY <1>1, <2>1 DEF RxShape, rx_vars
  <2>4. Catches'
    <3>1. RxAge' = RxAge /\ Missing' = Missing
      BY <1>1 DEF RxAge, Missing, rx_vars
    <3> QED BY <1>1, <1>4, <2>1, <3>1 DEF Catches, rx_vars
  <2> QED BY <2>2, <2>3, <2>4 DEF ToBoard
<1> QED BY <1>2, <1>3, <1>4, <1>5, <1>6 DEF SInv

LEMMA TickInv ==
    ASSUME Bearable, SInv, Tick
    PROVE  SInv'
<1>1. Kinds /\ TxShape /\ SimShape /\ FromBoard /\ ToBoard
  BY DEF SInv
<1>2. /\ Agree(CLOCKS_PER_BAUD, m_baud_counts)
      /\ CLOCKS_PER_BAUD \in Nat /\ CLOCKS_PER_BAUD >= 3
      /\ m_baud_counts \in Nat /\ m_baud_counts >= 2
  BY <1>1, Bears, Numbers
<1>3. m_rx_data \in Seq({0, 1})
  <2>1. CASE Quiet
    <3>1. m_rx_data = <<>>
      BY <1>1, <2>1 DEF FromBoard, WarmsUp
    <3> QED BY <3>1, EmptySeq
  <2>2. CASE ~Quiet
    BY <1>1, <2>2 DEF FromBoard, Listens
  <2> QED BY <2>1, <2>2
<1>4. PICK i_wr \in BOOLEAN, byte \in Octet :
          /\ MustSay => i_wr
          /\ TxTick(i_wr, byte)
          /\ said' = IF Takes(i_wr) THEN Append(said, byte) ELSE said
          /\ heard' = IF o_wr THEN Append(heard, o_data) ELSE heard
          /\ UNCHANGED settings
          /\ m_ticks' = IF Quiet THEN m_ticks + 1 ELSE m_ticks
          /\ Quiet => UNCHANGED <<conn, sim_vars>> /\ RxTick(1)
          /\ ~Quiet => /\ SinceFall(o_uart_tx) /\ m_last_tx' = o_uart_tx /\ Receive(o_uart_tx)
                       /\ (\E b \in Octet : Loads(b)) \/ Transmits
                       /\ conn' \in [Clients -> Conns] /\ con' \in Clients \cup {None}
                       /\ RxTick(o_rx)
  BY <1>1, <1>3, TickParts, Zenon
<1>5. UNCHANGED CLOCKS_PER_BAUD /\ UNCHANGED m_baud_counts /\ UNCHANGED network
  BY <1>4 DEF settings
<1>6. /\ TxShape'
      /\ Takes(i_wr) => TxAge = 10 * CLOCKS_PER_BAUD - 1 /\ TxAge' = 0
      /\ ~Takes(i_wr) => TxAge' = IF TxAge = 10 * CLOCKS_PER_BAUD - 1 THEN TxAge ELSE TxAge + 1
  BY <1>1, <1>2, <1>4, <1>5, TxStep, Zenon
<1>7. FromBoard' /\ passed' \in Seq(Octet)
  <2>1. Quiet => UNCHANGED sim_vars
    BY <1>4, Zenon
  <2>2. ~Quiet => SinceFall(o_uart_tx) /\ m_last_tx' = o_uart_tx /\ Receive(o_uart_tx)
    BY <1>4, Zenon
  <2> QED BY <1>1, <1>2, <1>4, <1>6, <2>1, <2>2, FromBoardStep, Zenon
<1>8. /\ SimShape' /\ LineStep /\ taken' \in Seq(Octet)
      /\ \E line : line = Bit(Latest(taken)', 10 - m_tx_busy') /\ RxTick(line)
  <2>1. taken \in Seq(Octet)
    BY <1>1 DEF Kinds
  <2>2. CASE Quiet
    <3>1. UNCHANGED sim_vars /\ RxTick(1)
      BY <1>4, <2>2, Zenon
    <3>2. taken' = taken /\ UNCHANGED sim_tx
      BY <3>1 DEF sim_vars
    <3>3. SimShape' /\ SimAge' = SimAge
      BY <1>1, <1>5, <3>2 DEF SimShape, SimAge, sim_tx, Latest
    <3>4. m_tx_state = "TXIDLE"
      BY <1>1, <2>2 DEF FromBoard, WarmsUp
    <3>5. SimAge = 10 * m_baud_counts /\ m_tx_busy' = 0
      BY <1>1, <3>2, <3>4 DEF SimAge, SimShape, sim_tx
    <3>6. LineStep
      BY <3>2, <3>3, <3>5 DEF LineStep
    <3>7. 1 = Bit(Latest(taken)', 10 - m_tx_busy')
      BY <3>5 DEF Bit
    <3> QED BY <2>1, <3>1, <3>2, <3>3, <3>6, <3>7
  <2>3. CASE ~Quiet
    <3>1. ((\E b \in Octet : Loads(b)) \/ Transmits) /\ RxTick(o_rx)
      BY <1>4, <2>3, Zenon
    <3>2. /\ SimShape' /\ SimAge' \in Int
          /\ \/ SimAge = 10 * m_baud_counts /\ SimAge' = 0
                /\ \E b \in Octet : taken' = Append(taken, b)
             \/ /\ taken' = taken
                /\ SimAge' = IF SimAge = 10 * m_baud_counts THEN SimAge ELSE SimAge + 1
          /\ o_rx = Bit(Latest(taken)', 10 - m_tx_busy')
      BY <1>1, <1>2, <1>5, <3>1, SimStep, Zenon
    <3>3. LineStep
      BY <3>2, Zenon DEF LineStep
    <3>4. taken' \in Seq(Octet)
      BY <2>1, <3>2, Longer
    <3> QED BY <3>1, <3>2, <3>3, <3>4, Zenon
  <2> QED BY <2>2, <2>3
<1>9. ToBoard' /\ heard' \in Seq(Octet)
  <2>1. PICK line : line = Bit(Latest(taken)', 10 - m_tx_busy') /\ RxTick(line)
    BY <1>8, Zenon
  <2>2. Synchronized
    BY <1>1, Zenon DEF ToBoard
  <2>3. Synchronized'
    BY <1>1, <1>2, <1>4, <1>8, <2>1, <2>2, SyncStep, Zenon
  <2>4. RxShape' /\ Catches' /\ heard' \in Seq(Octet)
    BY <1>1, <1>2, <1>4, <1>8, <2>1, CatchStep, Zenon
  <2> QED BY <2>3, <2>4, Zenon DEF ToBoard
<1>10. Kinds'
  <2>1. \E s \in Settings : /\ network' = s.network /\ CLOCKS_PER_BAUD' = s.clocks
                            /\ m_baud_counts' = s.counts
    BY <1>1, <1>5 DEF Kinds
  <2>2. said' \in Seq(Octet)
    <3>1. said \in Seq(Octet)
      BY <1>1 DEF Kinds
    <3> QED BY <1>4, <3>1, Longer
  <2>3. m_ticks' \in Nat
    <3>1. m_ticks \in Nat
      BY <1>1 DEF Kinds
    <3> QED BY <1>4, <3>1
  <2>4. con' \in Clients \cup {None} /\ conn' \in [Clients -> Conns]
    <3>1. con \in Clients \cup {None} /\ conn \in [Clients -> Conns]
      BY <1>1 DEF Kinds
    <3>2. CASE Quiet
      <4>1. conn' = conn /\ UNCHANGED sim_vars
        BY <1>4, <3>2
      <4>2. con' = con
        BY <4>1 DEF sim_vars
      <4> QED BY <3>1, <4>1, <4>2
    <3>3. CASE ~Quiet
      BY <1>4, <3>3, Zenon
    <3> QED BY <3>2, <3>3
  <2> QED BY <1>7, <1>8, <1>9, <2>1, <2>2, <2>3, <2>4 DEF Kinds
<1> QED BY <1>6, <1>7, <1>8, <1>9, <1>10 DEF SInv

LEMMA ClientInv ==
    ASSUME SInv, Client
    PROVE  SInv'
<1>1. conn \in [Clients -> Conns] /\ UNCHANGED <<sim_vars, settings, board_vars>>
  BY DEF SInv, Kinds, Client
<1>2. PICK c \in Clients : Connect(c) \/ Leave(c) \/ \E byte \in Bytes : Send(c, byte)
  BY DEF Client
<1>3. ASSUME NEW k \in Conns, conn' = [conn EXCEPT ![c] = k]
      PROVE  conn' \in [Clients -> Conns]
  BY <1>1, <1>3
<1>4. conn[c] \in Conns
  BY <1>1
<1>5. CASE Connect(c)
  <2>1. conn' = [conn EXCEPT ![c] = [conn[c] EXCEPT !.server = "waiting"]]
    BY <1>1, <1>5 DEF Connect
  <2>2. [conn[c] EXCEPT !.server = "waiting"] \in Conns
    BY <1>4, ConnTypes
  <2> QED BY <1>1, <1>3, <2>1, <2>2, SameLine
<1>6. CASE Leave(c)
  <2>1. \/ conn' = [conn EXCEPT ![c] = Gone([conn[c] EXCEPT !.down = <<>>])]
        \/ conn' = [conn EXCEPT ![c] = Gone(conn[c])]
    BY <1>1, <1>6 DEF Leave
  <2>2. [conn[c] EXCEPT !.down = <<>>] \in Conns
    BY <1>4, ConnTypes
  <2>3. Gone([conn[c] EXCEPT !.down = <<>>]) \in Conns /\ Gone(conn[c]) \in Conns
    BY <1>4, <2>2, ConnTypes, Zenon
  <2>4. conn' \in [Clients -> Conns]
    BY <1>3, <2>1, <2>3, Zenon
  <2> QED BY <1>1, <2>4, SameLine
<1>7. CASE \E byte \in Bytes : Send(c, byte)
  <2>1. PICK byte \in Bytes : Send(c, byte)
    BY <1>7
  <2>2. byte \in Octet
    BY SettingsAssumption DEF Octet
  <2>3. conn' = [conn EXCEPT ![c] = [conn[c] EXCEPT !.up = Append(@, byte)]]
    BY <1>1, <2>1 DEF Send
  <2>4. [conn[c] EXCEPT !.up = Append(@, byte)] \in Conns
    BY <1>4, <2>2, ConnTypes
  <2> QED BY <1>1, <1>3, <2>3, <2>4, SameLine
<1> QED BY <1>2, <1>5, <1>6, <1>7

LEMMA StepInv ==
    ASSUME Bearable, SInv, [Next]_vars
    PROVE  SInv'
<1>1. CASE Next
  BY <1>1, TickInv, ClientInv DEF Next
<1>2. CASE UNCHANGED vars
  <2>1. conn' \in [Clients -> Conns] /\ UNCHANGED <<sim_vars, settings, board_vars>>
    BY <1>2 DEF vars, SInv, Kinds
  <2> QED BY <2>1, SameLine
<1> QED BY <1>1, <1>2

\* The invariant holds in every simulation whose settings the receivers bear.
THEOREM Invariant ==
    ASSUME Bearable
    PROVE  Spec => []SInv
<1>1. Init => SInv
  BY InitInv
<1>2. SInv /\ [Next]_vars => SInv'
  BY StepInv
<1> QED BY <1>1, <1>2, PTL DEF Spec

-----------------------------------------------------------------------------
(* What it is for.                                                            *)

LEMMA FirstPart ==
    ASSUME NEW S, NEW s \in Seq(S), NEW t \in Seq(S), Prefix(s, t)
    PROVE  IsPrefix(s, t)
<1> DEFINE n == Len(s)
<1>1. n \in 0 .. Len(s) /\ n \in 0 .. Len(t) /\ n <= Len(t)
  BY LenProperties DEF Prefix
<1> DEFINE a == SubSeq(s, 1, n)
<1> DEFINE b == SubSeq(t, 1, n)
<1>2. a \in Seq(S) /\ Len(a) = n /\ \A i \in 1 .. n : a[i] = s[i]
  BY <1>1, Cut
<1>3. b \in Seq(S) /\ Len(b) = n /\ \A i \in 1 .. n : b[i] = t[i]
  BY <1>1, Cut
<1>4. \A i \in 1 .. n : s[i] = t[i]
  BY DEF Prefix
<1> HIDE DEF a, b, n
<1>5. a = b
  BY <1>2, <1>3, <1>4, SeqEqual
<1> QED BY <1>1, <1>5 DEF IsPrefix, a, b, n

\* The types of the registers of the two ends, as the runs check them
\* (rxuartlite.v, txuartlite.v, uartsim.cpp).
THEOREM Typed ==
    ASSUME Bearable
    PROVE  Spec => []TypeOK
<1>1. ASSUME SInv PROVE TypeOK
  <2> DEFINE C == CLOCKS_PER_BAUD
  <2> DEFINE B == m_baud_counts
  <2>1. C \in Nat /\ C >= 3 /\ B \in Nat /\ B >= 2
    BY <1>1, Bears, Numbers DEF SInv
  <2>2. {q_uart, qq_uart, ck_uart} \subseteq {0, 1} /\ chg_counter \in 0 .. C
    BY <1>1 DEF SInv, ToBoard, Synchronized, Shows, ChangeMax
  <2>3. o_uart_tx \in {0, 1} /\ tx_state \in 0 .. 9 \cup {TXUL_IDLE} /\ tx_baud_counter \in 0 .. C
    <3>1. o_uart_tx \in {0, 1}
      BY <1>1, <2>1, TxLine DEF SInv
    <3>2. tx_state \in 0 .. 9 \cup {TXUL_IDLE} /\ tx_baud_counter \in 0 .. C
      BY <1>1, <2>1 DEF SInv, TxShape, TXUL_STOP
    <3> QED BY <3>1, <3>2
  <2>4. rx_state \in 0 .. RXUL_WAIT \cup {RXUL_IDLE} /\ rx_baud_counter \in 0 .. C
    BY <1>1, <2>1 DEF SInv, ToBoard, RxShape, RXUL_STOP, RXUL_WAIT
  <2>5. m_last_tx \in {0, 1} /\ Len(m_rx_data) <= m_nbits + m_nstop /\ m_rx_baudcounter \in 0 .. 2 * B
    <3>1. CASE Quiet
      <4>1. m_last_tx = 1 /\ m_rx_data = <<>> /\ m_rx_baudcounter = 0
        BY <1>1, <3>1 DEF SInv, FromBoard, WarmsUp
      <4>2. Len(m_rx_data) = 0
        BY <4>1, EmptySeq
      <4> QED BY <2>1, <4>1, <4>2 DEF m_nbits, m_nstop
    <3>2. CASE ~Quiet
      <4>1. Listens
        BY <1>1, <3>2 DEF SInv, FromBoard
      <4>2. m_last_tx \in {0, 1} /\ Len(m_rx_data) <= 9 /\ m_rx_baudcounter \in 0 .. 2 * B
        BY <4>1 DEF Listens
      <4>3. m_nbits + m_nstop = 9
        BY DEF m_nbits, m_nstop
      <4> QED BY <4>2, <4>3
    <3> QED BY <3>1, <3>2
  <2>6. m_tx_busy \in 0 .. Len(m_tx_data) /\ m_tx_baudcounter \in 0 .. B
    BY <1>1, <2>1 DEF SInv, SimShape
  <2>7. con \in Clients \cup {None}
    BY <1>1 DEF SInv, Kinds
  <2> QED BY <2>2, <2>3, <2>4, <2>5, <2>6, <2>7 DEF TypeOK
<1> QED BY <1>1, Invariant, PTL

\* Bytes arrive both ways whole, in order and once, whatever the baud interval and
\* however close they follow each other, when the two baud intervals differ by no more
\* than the receivers bear (rxuartlite.v:150, uartsim.cpp:180-189).
THEOREM InOrder ==
    ASSUME Bearable
    PROVE  Spec => []BytesInOrder
<1>1. ASSUME SInv PROVE BytesInOrder
  <2>1. /\ said \in Seq(Octet) /\ heard \in Seq(Octet)
        /\ taken \in Seq(Octet) /\ passed \in Seq(Octet)
    BY <1>1 DEF SInv, Kinds
  <2>2. IsPrefix(heard, taken)
    BY <1>1, <2>1, FirstPart DEF SInv, ToBoard, Catches
  <2>3. Said \in Seq(Octet) /\ (~Quiet => Prefix(passed, Said))
    <3>1. ~Quiet => Listens /\ (~network => Len(said) >= 2)
      BY <1>1, Zenon DEF SInv, FromBoard
    <3>2. CASE network
      <4>1. ~Quiet /\ Said = said
        BY <3>2 DEF Quiet, Said
      <4> QED BY <2>1, <3>1, <4>1 DEF Listens
    <3>3. CASE ~network
      <4>1. Said = SubSeq(said, Greeting, Len(said))
        BY <3>3 DEF Said
      <4>2. Said \in Seq(Octet)
        <5>1. Len(said) \in Nat /\ \A i \in 1 .. Len(said) : said[i] \in Octet
          BY <2>1, LenProperties, ElementOfSeq
        <5>2. Greeting = 3
          BY DEF Greeting
        <5>3. SubSeq(said, 3, Len(said)) \in Seq(Octet)
          BY <2>1, <5>1, SubSeqProperties
        <5> QED BY <4>1, <5>2, <5>3
      <4> QED BY <3>1, <4>2 DEF Listens
    <3> QED BY <3>2, <3>3
  <2>4. IsPrefix(passed, Said)
    <3>1. CASE Quiet
      <4>1. passed = <<>> /\ Len(passed) = 0
        BY <1>1, <3>1, EmptySeq DEF SInv, FromBoard, WarmsUp
      <4>2. Len(Said) \in Nat
        BY <2>3, LenProperties
      <4>3. Prefix(passed, Said)
        BY <4>1, <4>2 DEF Prefix
      <4> QED BY <2>1, <2>3, <4>3, FirstPart
    <3>2. CASE ~Quiet
      BY <2>1, <2>3, <3>2, FirstPart
    <3> QED BY <3>1, <3>2
  <2> QED BY <2>2, <2>4 DEF BytesInOrder
<1> QED BY <1>1, Invariant, PTL

-----------------------------------------------------------------------------
(* What the receivers bear.                                                   *)

\* Four percent, and so every baud interval of four clocks or more when the two ends
\* have the same.
THEOREM FourPercent ==
    ASSUME NEW c \in Nat, NEW b \in Nat, c >= 4, 25 * (b - c) <= c, 25 * (c - b) <= c
    PROVE  Agree(c, b)
<1> DEFINE d == b - c
<1> DEFINE half == b \div 2
<1>1. d \in Int /\ b = c + d /\ 25 * d <= c /\ 25 * (0 - d) <= c
  OBVIOUS
<1>2. half \in Nat /\ 2 * half <= b /\ b <= 2 * half + 1
  OBVIOUS
<1> DEFINE K == Catch(c)
<1>3. K \in Nat /\ K >= 3 /\ 2 * K <= c + 3 /\ c + 1 <= 2 * K
  <2> DEFINE h == c \div 2
  <2>1. h \in Nat /\ 2 * h <= c /\ c <= 2 * h + 1
    OBVIOUS
  <2>2. K = h + 1
    BY DEF Catch
  <2> HIDE DEF h, K
  <2> QED BY <2>1, <2>2
<1>4. ASSUME NEW n \in 0 .. 7
      PROVE  /\ (n + 1) * c <= Sample(b, n) /\ Sample(b, n) < (n + 2) * c
             /\ (n + 1) * b < K + (n + 1) * c /\ K + (n + 1) * c <= (n + 2) * b
  <2> DEFINE x == (n + 1) * c
  <2> DEFINE y == (n + 1) * b
  <2>1. x \in Nat /\ y \in Nat /\ (n + 2) * c = x + c /\ (n + 2) * b = y + b
    OBVIOUS
  <2>2. Sample(b, n) = y + half
    BY DEF Sample
  <2>3. CASE d >= 0
    <3>1. y = x + (n + 1) * d /\ (n + 1) * d \in Nat
      BY <1>1, <2>3
    <3>2. (n + 1) * d <= 8 * d
      BY <1>1, <2>3, Times
    <3> DEFINE z == (n + 1) * d
    <3> HIDE DEF x, y, z, d, half, K
    <3>3. z \in 0 .. 8 * d /\ y = x + z
      BY <1>1, <2>3, <3>1, <3>2 DEF z
    <3>4. x <= y + half /\ y + half < x + c /\ y < K + x /\ K + x <= y + b
      BY <1>1, <1>2, <1>3, <2>1, <2>3, <3>3
    <3> QED BY <2>1, <2>2, <3>4 DEF x, y
  <2>4. CASE d < 0
    <3> DEFINE e == 0 - d
    <3>1. e \in Nat /\ b = c - e /\ 25 * e <= c
      BY <1>1, <2>4
    <3> HIDE DEF e
    <3>2. x = y + (n + 1) * e /\ (n + 1) * e \in Nat
      BY <3>1
    <3>3. (n + 1) * e <= 8 * e
      BY <3>1, Times
    <3> DEFINE z == (n + 1) * e
    <3> HIDE DEF x, y, z, half, K
    <3>4. z \in 0 .. 8 * e /\ x = y + z
      BY <3>1, <3>2, <3>3 DEF z
    <3>5. x <= y + half /\ y + half < x + c /\ y < K + x /\ K + x <= y + b
      BY <1>2, <1>3, <2>1, <3>1, <3>4
    <3> QED BY <2>1, <2>2, <3>5 DEF x, y
  <2> QED BY <1>1, <2>3, <2>4
<1>5. 9 * c <= Sample(b, 9) + 1 /\ Sample(b, 9) + 1 < 11 * c
  <2>1. Sample(b, 9) = 10 * b + half
    BY DEF Sample
  <2> HIDE DEF d, half
  <2> QED BY <1>1, <1>2, <2>1
<1>6. b >= 2 /\ K <= b + 1 /\ 9 * b + 2 <= K + 9 * c /\ K + 9 * c <= 10 * b + 1
  <2> HIDE DEF d, K
  <2> QED BY <1>1, <1>3
<1> QED BY <1>4, <1>5, <1>6 DEF Agree
=============================================================================

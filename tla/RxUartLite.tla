----------------------------- MODULE RxUartLite -----------------------------
(* rxuartlite.v: finds the middle of a start bit and samples the line every   *)
(* CLOCKS_PER_BAUD clocks from there on.                                      *)
EXTENDS SerialLine

VARIABLES q_uart, qq_uart, ck_uart, chg_counter, half_baud_time, rx_state, data_reg,
          rx_baud_counter, rx_zero_baud_counter, o_wr, o_data

rx_vars == <<q_uart, qq_uart, ck_uart, chg_counter, half_baud_time, rx_state, data_reg,
             rx_baud_counter, rx_zero_baud_counter, o_wr, o_data>>

RXUL_BIT_ZERO == 0
RXUL_STOP == 8
RXUL_WAIT == 9
RXUL_IDLE == 15

half_baud == CLOCKS_PER_BAUD \div 2
ChangeMax == CLOCKS_PER_BAUD   \* chg_counter saturates; past half_baud it tells no more

\* data_reg has no initial value; eight samples of an idle line have filled it before
\* the first byte.
RxInit ==
    /\ q_uart = 1 /\ qq_uart = 1 /\ ck_uart = 1
    /\ chg_counter = ChangeMax /\ half_baud_time = FALSE
    /\ rx_state = RXUL_IDLE /\ data_reg = [i \in 1 .. 8 |-> 1]
    /\ rx_baud_counter = 0 /\ rx_zero_baud_counter = TRUE
    /\ o_wr = FALSE /\ o_data = [i \in 1 .. 8 |-> 0]

Synchronize(i_uart_rx) == q_uart' = i_uart_rx /\ qq_uart' = q_uart /\ ck_uart' = qq_uart

ChangeCounter ==
    chg_counter' = IF qq_uart # ck_uart THEN 0
                   ELSE IF chg_counter # ChangeMax THEN chg_counter + 1 ELSE chg_counter

\* half_baud - 2 is unsigned: below four clocks per baud it wraps to all ones, and no bit
\* of a byte lasts until chg_counter is there.
HalfBaudTime ==
    half_baud_time' = (ck_uart = 0 /\ half_baud >= 2 /\ chg_counter >= half_baud - 2)

\* The middle of a start bit.
Starts == rx_state = RXUL_IDLE /\ ck_uart = 0 /\ half_baud_time

RxState ==
    rx_state' = IF rx_state = RXUL_IDLE THEN IF Starts THEN RXUL_BIT_ZERO ELSE RXUL_IDLE
                ELSE IF rx_state >= RXUL_WAIT /\ ck_uart = 1 THEN RXUL_IDLE
                ELSE IF rx_zero_baud_counter /\ rx_state <= RXUL_STOP THEN rx_state + 1
                ELSE rx_state

Data ==
    data_reg' = IF rx_zero_baud_counter /\ rx_state # RXUL_STOP
                THEN Append(Tail(data_reg), qq_uart) ELSE data_reg

\* A byte counts when its stop bit is high.
Output ==
    /\ o_wr' = (rx_zero_baud_counter /\ rx_state = RXUL_STOP /\ ck_uart = 1)
    /\ o_data' = IF o_wr' THEN data_reg ELSE o_data

RxBaud ==
    IF Starts \/ (rx_state # RXUL_WAIT /\ rx_zero_baud_counter /\ rx_state < RXUL_STOP)
    THEN rx_baud_counter' = CLOCKS_PER_BAUD - 1 /\ rx_zero_baud_counter' = FALSE
    ELSE IF rx_state = RXUL_WAIT
    THEN rx_baud_counter' = 0 /\ rx_zero_baud_counter' = TRUE
    ELSE /\ rx_baud_counter' = IF rx_zero_baud_counter THEN rx_baud_counter
                               ELSE rx_baud_counter - 1
         /\ rx_zero_baud_counter' = (rx_zero_baud_counter \/ rx_baud_counter = 1)

RxTick(i_uart_rx) ==
    /\ Synchronize(i_uart_rx) /\ ChangeCounter /\ HalfBaudTime
    /\ RxState /\ Data /\ Output /\ RxBaud
=============================================================================

----------------------------- MODULE TxUartLite -----------------------------
(* txuartlite.v: sends a byte as a start bit, eight data bits and a stop bit, *)
(* CLOCKS_PER_BAUD clocks each.                                               *)
EXTENDS SerialLine

VARIABLES tx_state, tx_baud_counter, lcl_data, r_busy, tx_zero_baud_counter, o_uart_tx

tx_vars == <<tx_state, tx_baud_counter, lcl_data, r_busy, tx_zero_baud_counter, o_uart_tx>>

TXUL_BIT_ZERO == 0
TXUL_STOP == 8
TXUL_IDLE == 15

TxInit ==
    /\ tx_state = TXUL_IDLE /\ tx_baud_counter = 0 /\ tx_zero_baud_counter = TRUE
    /\ lcl_data = [i \in 1 .. 8 |-> 1]
    /\ r_busy = TRUE /\ o_uart_tx = 1

\* A byte is taken when it is offered (i_wr) and the transmitter is not busy.
Takes(i_wr) == i_wr /\ ~r_busy

TxState(i_wr) ==
    IF ~tx_zero_baud_counter THEN r_busy' = TRUE /\ UNCHANGED tx_state
    ELSE IF tx_state > TXUL_STOP
    THEN /\ r_busy' = Takes(i_wr)
         /\ tx_state' = IF Takes(i_wr) THEN TXUL_BIT_ZERO ELSE TXUL_IDLE
    ELSE r_busy' = TRUE /\ tx_state' = tx_state + 1

Shift(i_wr, i_data) ==
    /\ lcl_data' = IF Takes(i_wr) THEN i_data
                   ELSE IF tx_zero_baud_counter THEN Append(Tail(lcl_data), 1) ELSE lcl_data
    /\ o_uart_tx' = IF Takes(i_wr) THEN 0
                    ELSE IF tx_zero_baud_counter THEN Head(lcl_data) ELSE o_uart_tx

\* The stop bit is cut by a clock, which the idle state adds again.
StopCount == CLOCKS_PER_BAUD - 2

TxBaud(i_wr) ==
    LET quiet == tx_baud_counter' = 0 /\ tx_zero_baud_counter' = TRUE
        first == tx_baud_counter' = CLOCKS_PER_BAUD - 1 /\ tx_zero_baud_counter' = FALSE
    IN IF tx_state = TXUL_IDLE THEN IF Takes(i_wr) THEN first ELSE quiet
       ELSE IF tx_zero_baud_counter /\ tx_state > TXUL_STOP THEN quiet
       ELSE /\ tx_zero_baud_counter' = (tx_baud_counter = 1)
            /\ tx_baud_counter' = IF ~tx_zero_baud_counter THEN tx_baud_counter - 1
                                  ELSE IF tx_state = TXUL_STOP THEN StopCount
                                  ELSE CLOCKS_PER_BAUD - 1

TxTick(i_wr, i_data) == TxState(i_wr) /\ Shift(i_wr, i_data) /\ TxBaud(i_wr)
=============================================================================

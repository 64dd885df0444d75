------------------------------ MODULE WbScope -------------------------------
(* wbscope.v: a memory that records i_data until a holdoff after a trigger,   *)
(* and then is read over the bus.  Each operator is an always block; BusTick  *)
(* and DataTick take the blocks of one clock an edge forward.  With sync the  *)
(* two clocks are one (SYNCHRONOUS = 1), otherwise the flags that cross from  *)
(* one to the other pass two registers.                                       *)
EXTENDS Integers

CONSTANTS LGMEM,        \* log of the memory's size
          HOLDOFFBITS,  \* width of counter and holdoff
          DefaultHoldoff,
          Unset         \* what a register without an initial value holds

N == 2^LGMEM

ASSUME ScopeAssumption == /\ LGMEM \in Nat \ {0} /\ HOLDOFFBITS \in Nat \ {0, 1}
                          /\ DefaultHoldoff \in 0 .. 2^HOLDOFFBITS - 1

VARIABLES
    sync,                  \* the parameter SYNCHRONOUS
    br_reset, br_manual, br_disable,   \* ~br_config[2], [1], [0]
    br_holdoff, read_address, raddr, this_addr, nxt_mem, o_bus_data,
    br_pre_wb_ack, br_wb_ack, br_level_interrupt,
    dr_triggered, dr_primed, dr_stopped, counter, waddr, data_pipe, mem,
    q_iflags, r_iflags, r_reset_complete,             \* to the data clock
    q_reset_complete, qq_reset_complete, q_oflags, r_oflags   \* to the bus clock

bus_vars == <<br_reset, br_manual, br_disable, br_holdoff, read_address, raddr, this_addr,
              nxt_mem, o_bus_data, br_pre_wb_ack, br_wb_ack, br_level_interrupt,
              q_reset_complete, qq_reset_complete, q_oflags, r_oflags>>
data_vars == <<dr_triggered, dr_primed, dr_stopped, counter, waddr, data_pipe, mem,
               q_iflags, r_iflags, r_reset_complete>>

\* A request on the bus: i_wb_stb, i_wb_we, i_wb_addr and the fields of i_wb_data.
NoRequest == [stb |-> FALSE, we |-> FALSE, addr |-> 0]
Reading(req) == req.stb /\ ~req.we /\ req.addr = 1
WritingControl(req) == req.stb /\ req.we /\ req.addr = 0

NoFlags == [reset |-> FALSE, manual |-> FALSE, disable |-> FALSE]
NoStatus == [stopped |-> FALSE, triggered |-> FALSE, primed |-> FALSE]

ScopeInit ==
    /\ br_reset = TRUE /\ br_manual = FALSE /\ br_disable = FALSE
    /\ br_holdoff = DefaultHoldoff
    /\ read_address = 0 /\ raddr \in 0 .. N - 1 /\ this_addr = 0
    /\ nxt_mem = Unset /\ o_bus_data = Unset
    /\ br_pre_wb_ack = FALSE /\ br_wb_ack = FALSE /\ br_level_interrupt = FALSE
    /\ dr_triggered = FALSE /\ dr_primed = FALSE /\ dr_stopped = FALSE
    /\ counter = 0 /\ waddr = 0 /\ data_pipe = Unset
    /\ mem = [a \in 0 .. N - 1 |-> Unset]
    /\ q_iflags = NoFlags /\ r_iflags = NoFlags /\ r_reset_complete = FALSE
    /\ q_reset_complete = FALSE /\ qq_reset_complete = FALSE
    /\ q_oflags = NoStatus /\ r_oflags = NoStatus

bw_flags == [reset |-> br_reset, manual |-> br_manual, disable |-> br_disable]
dw_flags == IF sync THEN bw_flags ELSE r_iflags
\* Mutant: with two clocks too, a reset is over after one of the bus's clocks.
reset_complete_at_once == br_reset

bw_reset_complete == IF sync THEN br_reset ELSE qq_reset_complete
dr_status == [stopped |-> dr_stopped, triggered |-> dr_triggered, primed |-> dr_primed]
bw_status == IF sync THEN dr_status ELSE r_oflags

-----------------------------------------------------------------------------
(* The data clock.                                                            *)

dw_trigger(i_trigger) ==
    dr_primed /\ ((i_trigger /\ ~dw_flags.disable) \/ dw_flags.manual)

Triggered(i_ce, i_trigger) ==
    dr_triggered' = (~dw_flags.reset /\ (dr_triggered \/ (i_ce /\ dw_trigger(i_trigger))))

Counter(i_ce) ==
    counter' = IF dw_flags.reset THEN 0
               ELSE IF i_ce /\ dr_triggered /\ ~dr_stopped THEN (counter + 1) % 2^HOLDOFFBITS
               ELSE counter

Stopped ==
    dr_stopped' = (dr_triggered /\ ~dw_flags.reset /\ (dr_stopped \/ counter >= br_holdoff))

\* Mutant: the write address does not wrap.
RecordOnwards(i_ce, i_data) ==
    /\ IF dw_flags.reset THEN waddr' = 0 /\ dr_primed' = FALSE
       ELSE IF i_ce /\ ~dr_stopped
       THEN waddr' = waddr + 1 /\ dr_primed' = (dr_primed \/ waddr = N - 1)
       ELSE UNCHANGED <<waddr, dr_primed>>
    /\ data_pipe' = IF i_ce THEN i_data ELSE data_pipe
    /\ mem' = IF i_ce /\ ~dr_stopped THEN [mem EXCEPT ![waddr] = data_pipe] ELSE mem

\* The memory takes the sample before the last one: data_pipe.
Record(i_ce, i_data) ==
    /\ IF dw_flags.reset THEN waddr' = 0 /\ dr_primed' = FALSE
       ELSE IF i_ce /\ ~dr_stopped
       THEN waddr' = (waddr + 1) % N /\ dr_primed' = (dr_primed \/ waddr = N - 1)
       ELSE UNCHANGED <<waddr, dr_primed>>
    /\ data_pipe' = IF i_ce THEN i_data ELSE data_pipe
    /\ mem' = IF i_ce /\ ~dr_stopped THEN [mem EXCEPT ![waddr] = data_pipe] ELSE mem

DataTick(i_ce, i_trigger, i_data) ==
    /\ Triggered(i_ce, i_trigger) /\ Counter(i_ce) /\ Stopped /\ Record(i_ce, i_data)
    /\ IF sync THEN UNCHANGED <<q_iflags, r_iflags, r_reset_complete>>
       ELSE /\ q_iflags' = bw_flags /\ r_iflags' = q_iflags
            /\ r_reset_complete' = dw_flags.reset

-----------------------------------------------------------------------------
(* The bus clock.                                                             *)

\* A reset stays requested until it is complete; another one meanwhile is not, nor is one
\* while the end of the last is still seen, though that one's holdoff is taken.
Config(req) ==
    /\ IF WritingControl(req)
       THEN /\ br_manual' = req.manual /\ br_disable' = req.disable
            /\ br_holdoff' = IF req.reset /\ ~br_reset THEN req.holdoff ELSE br_holdoff
       ELSE UNCHANGED <<br_manual, br_disable, br_holdoff>>
    /\ br_reset' = (~bw_reset_complete /\ (br_reset \/ (WritingControl(req) /\ req.reset)))

\* Mutant: the word after the one being read is not fetched ahead.
ReadAddressLate(req) ==
    /\ read_address' = req.addr
    /\ raddr' = IF br_reset \/ WritingControl(req) THEN 0
                ELSE IF Reading(req) /\ bw_status.stopped THEN (raddr + 1) % N
                ELSE raddr
    /\ this_addr' = (raddr + waddr) % N
    /\ nxt_mem' = mem[this_addr]

\* The word at the read address is fetched ahead, and the next one while it is read.
ReadAddress(req) ==
    /\ read_address' = req.addr
    /\ raddr' = IF br_reset \/ WritingControl(req) THEN 0
                ELSE IF Reading(req) /\ bw_status.stopped THEN (raddr + 1) % N
                ELSE raddr
    /\ this_addr' = (raddr + waddr + (IF Reading(req) THEN 1 ELSE 0)) % N
    /\ nxt_mem' = mem[this_addr]

\* The control register, as far as a program looks at it.
ControlWord == [status |-> bw_status, reset |-> br_reset,
                lgmem |-> LGMEM, holdoff |-> br_holdoff]

BusRead(i_data) ==
    o_bus_data' = IF read_address = 0 THEN ControlWord
                  ELSE [data |-> IF bw_status.stopped THEN nxt_mem ELSE i_data]

Acknowledge(req) == br_pre_wb_ack' = req.stb /\ br_wb_ack' = br_pre_wb_ack

\* Mutant: the interrupt is taken as given from the trigger on.
LevelTriggered ==
    br_level_interrupt' = (~bw_reset_complete /\ ~br_reset
                             /\ bw_status.triggered /\ ~br_disable)

LevelInterrupt ==
    br_level_interrupt' = (~bw_reset_complete /\ ~br_reset
                             /\ bw_status.stopped /\ ~br_disable)
\* Mutant: the interrupt stays up while the capture waits.
interrupt_level == bw_status.stopped /\ ~br_disable

o_interrupt == bw_status.stopped /\ ~br_disable /\ ~br_level_interrupt

BusTick(req, i_data) ==
    /\ Config(req) /\ ReadAddress(req) /\ BusRead(i_data) /\ Acknowledge(req) /\ LevelInterrupt
    /\ IF sync THEN UNCHANGED <<q_reset_complete, qq_reset_complete, q_oflags, r_oflags>>
       ELSE /\ q_reset_complete' = r_reset_complete
            /\ qq_reset_complete' = q_reset_complete
            /\ q_oflags' = IF br_reset THEN NoStatus ELSE dr_status
            /\ r_oflags' = IF br_reset THEN NoStatus ELSE q_oflags
=============================================================================

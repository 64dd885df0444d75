------------------------------- MODULE HbExec -------------------------------
(* hbexec.v: turns 34-bit command words into Wishbone requests, and Wishbone *)
(* answers into 34-bit response words.  One step is one rising edge of i_clk: *)
(* every register takes its new value from the old ones, so each always block *)
(* is an operator of its own and ExecTick is their conjunction.                   *)
(*                                                                            *)
(* A 34-bit word is a record: sub names its leading bits, word is its payload *)
(* as a number.  The payload of an address word is 4*address + 2*diff + hold. *)
EXTENDS Integers

CONSTANT AddrSpace       \* 2^ADDRESS_WIDTH

ASSUME AddrSpaceAssumption == AddrSpace \in Nat \ {0}

VARIABLES
    o_wb_cyc, o_wb_stb, o_wb_we, o_wb_addr, o_wb_data,  \* the Wishbone master
    inc, newaddr,                                       \* address bookkeeping
    o_rsp_stb, o_rsp_word                               \* the response channel

bus_vars  == <<o_wb_cyc, o_wb_stb, o_wb_we, o_wb_addr, o_wb_data>>
exec_vars == <<o_wb_cyc, o_wb_stb, o_wb_we, o_wb_addr, o_wb_data,
               inc, newaddr, o_rsp_stb, o_rsp_word>>

Addr == 0 .. AddrSpace - 1
Word == 0 .. 4 * AddrSpace - 1

CmdSub  == {"RD", "WR", "ADDR", "SPECIAL"}
RspSub  == {"DATA", "ACK", "ADDR", "RESET", "BUSERR"}
Command  == [sub : CmdSub, word : Word]
Response == [sub : RspSub, word : Word]

WordAddr(w) == w \div 4            \* i_cmd_word[AW+1:2]
IsDiff(w)   == (w \div 2) % 2 = 1  \* i_cmd_word[1]
IsHold(w)   == w % 2 = 1           \* i_cmd_word[0]

RSP_RESET                 == [sub |-> "RESET",  word |-> 0]
RSP_BUS_ERROR             == [sub |-> "BUSERR", word |-> 0]
RSP_WRITE_ACKNOWLEDGEMENT == [sub |-> "ACK",    word |-> 0]
RspData(w)                == [sub |-> "DATA",   word |-> w]
RspAddr(a, i)             == [sub |-> "ADDR",   word |-> 4 * a + (IF i THEN 0 ELSE 1)]

\* The address an address command selects when the current one is a.
Target(w, a) == (WordAddr(w) + (IF IsDiff(w) THEN a ELSE 0)) % AddrSpace

\* Mutants: the increment bit is ignored, or the register does not wrap.
BumpAlways(a, i) == (a + 1) % AddrSpace
BumpNoWrap(a, i) == a + (IF i THEN 1 ELSE 0)

\* The address after one accepted request.
Bump(a, i) == (a + (IF i THEN 1 ELSE 0)) % AddrSpace

-----------------------------------------------------------------------------
\* Registers without an initial value power up with any value.
ExecInit ==
        /\ o_wb_cyc = FALSE
        /\ o_wb_stb = FALSE
        /\ o_wb_we \in BOOLEAN
        /\ o_wb_addr \in Addr
        /\ o_wb_data \in Word
        /\ inc \in BOOLEAN
        /\ newaddr = FALSE
        /\ o_rsp_stb = TRUE
        /\ o_rsp_word = RSP_RESET

o_cmd_busy == o_wb_cyc

CmdAddr(stb, cmd) == stb /\ cmd.sub = "ADDR"
CmdWr(stb, cmd)   == stb /\ cmd.sub = "WR"
CmdBus(stb, cmd)  == stb /\ cmd.sub \in {"RD", "WR"}

CycStb(reset, stb, cmd, stall, ack, err) ==
    \/ \* any error or reset clears the bus
       /\ reset \/ (err /\ o_wb_cyc)
       /\ o_wb_cyc' = FALSE
       /\ o_wb_stb' = FALSE
    \/ \* BUS REQUEST
       /\ ~reset /\ ~(err /\ o_wb_cyc)
       /\ o_wb_stb
       /\ o_wb_stb' = stall
       /\ o_wb_cyc' = (o_wb_cyc /\ (stall \/ ~ack))
    \/ \* BUS WAIT
       /\ ~reset /\ ~(err /\ o_wb_cyc)
       /\ ~o_wb_stb /\ o_wb_cyc
       /\ o_wb_cyc' = ~ack
       /\ UNCHANGED o_wb_stb
    \/ \* IDLE
       /\ ~reset
       /\ ~o_wb_stb /\ ~o_wb_cyc
       /\ o_wb_cyc' = CmdBus(stb, cmd)
       /\ o_wb_stb' = CmdBus(stb, cmd)

WriteEnable(stb, cmd) ==
    o_wb_we' = IF o_wb_cyc THEN o_wb_we ELSE CmdWr(stb, cmd)

\* Mutant: an address command is obeyed in the middle of a bus cycle.
AddressAnyTime(reset, stb, cmd, stall) ==
    /\ o_wb_addr' = IF CmdAddr(stb, cmd) THEN Target(cmd.word, o_wb_addr)
                    ELSE IF o_wb_stb /\ ~stall THEN Bump(o_wb_addr, inc) ELSE o_wb_addr
    /\ inc' = IF CmdAddr(stb, cmd) THEN ~IsHold(cmd.word) ELSE inc
    /\ newaddr' = (~reset /\ CmdAddr(stb, cmd))

Address(reset, stb, cmd, stall) ==
    /\ \/ /\ CmdAddr(stb, cmd) /\ ~o_cmd_busy
          /\ o_wb_addr' = Target(cmd.word, o_wb_addr)
          /\ inc' = ~IsHold(cmd.word)
       \/ /\ ~(CmdAddr(stb, cmd) /\ ~o_cmd_busy)
          /\ o_wb_addr' = IF o_wb_stb /\ ~stall
                            THEN Bump(o_wb_addr, inc) ELSE o_wb_addr
          /\ UNCHANGED inc
    /\ newaddr' = (~reset /\ CmdAddr(stb, cmd) /\ ~o_cmd_busy)

\* Mutant: the data register follows the commands while a request waits.
WriteDataAlways(cmd, stall) == o_wb_data' = cmd.word

WriteData(cmd, stall) ==
    o_wb_data' = IF ~o_wb_stb \/ ~stall THEN cmd.word ELSE o_wb_data

\* Mutant: a bus error is not reported.
RespondNoError(reset, ack, err, data) ==
    \/ reset /\ o_rsp_stb' = TRUE /\ o_rsp_word' = RSP_RESET
    \/ /\ ~reset /\ o_wb_cyc
       /\ o_rsp_stb' = ack
       /\ o_rsp_word' = IF o_wb_we THEN RSP_WRITE_ACKNOWLEDGEMENT ELSE RspData(data)
    \/ ~reset /\ ~o_wb_cyc /\ o_rsp_stb' = newaddr /\ o_rsp_word' = RspAddr(o_wb_addr, inc)

Respond(reset, ack, err, data) ==
    \/ /\ reset
       /\ o_rsp_stb' = TRUE
       /\ o_rsp_word' = RSP_RESET
    \/ /\ ~reset /\ err
       /\ o_rsp_stb' = TRUE
       /\ o_rsp_word' = RSP_BUS_ERROR
    \/ /\ ~reset /\ ~err /\ o_wb_cyc
       /\ o_rsp_stb' = ack
       /\ o_rsp_word' = IF o_wb_we THEN RSP_WRITE_ACKNOWLEDGEMENT ELSE RspData(data)
    \/ /\ ~reset /\ ~err /\ ~o_wb_cyc
       /\ o_rsp_stb' = newaddr
       /\ o_rsp_word' = RspAddr(o_wb_addr, inc)

\* One clock.  Nothing holds a command that arrives while o_cmd_busy: hbbus.v
\* leaves that wire unconnected, so the command is lost.
ExecTick(reset, stb, cmd, stall, ack, err, data) ==
    /\ CycStb(reset, stb, cmd, stall, ack, err)
    /\ WriteEnable(stb, cmd)
    /\ Address(reset, stb, cmd, stall)
    /\ WriteData(cmd, stall)
    /\ Respond(reset, ack, err, data)

ExecTypeOK ==
          /\ o_wb_cyc \in BOOLEAN
          /\ o_wb_stb \in BOOLEAN
          /\ o_wb_we \in BOOLEAN
          /\ o_wb_addr \in Addr
          /\ o_wb_data \in Word
          /\ inc \in BOOLEAN
          /\ newaddr \in BOOLEAN
          /\ o_rsp_stb \in BOOLEAN
          /\ o_rsp_word \in Response
=============================================================================

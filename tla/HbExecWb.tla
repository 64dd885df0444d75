------------------------------ MODULE HbExecWb ------------------------------
(* hbexec.v with a Wishbone device on its bus.  The device keeps the contract *)
(* bench/formal/fwb_master.v states for every slave: it may stall, it answers *)
(* a request once, with ACK or ERR, on the clock it takes it or later.        *)
(* hbbus.v resets its own registers and not the bus, so the device does not   *)
(* see a reset: it may answer a request the master has abandoned for a few    *)
(* clocks after CYC falls (one under the contract, two in testbus.v, whose    *)
(* acknowledgement passes through smpl_ack and wb_ack).                       *)
EXTENDS HbExec

CONSTANTS Mapped,     \* addresses a device answers; the rest are bus errors
          Linger,     \* clocks an answer may trail the fall of CYC
          MaxWait,    \* longest stall, and longest wait for an answer
          AddrWords,  \* payloads of the address commands that arrive
          WriteWords, \* payloads of the write commands that arrive
          PowerUp     \* words an uninitialised register or memory may hold

ASSUME SlaveAssumption == /\ Mapped \subseteq Addr
                          /\ Linger \in Nat
                          /\ MaxWait \in Nat
                          /\ AddrWords \subseteq Word
                          /\ WriteWords \subseteq Word
                          /\ PowerUp \subseteq Word

VARIABLES
    mem,       \* the words behind the bus
    taken,     \* the request the device has taken and not answered
    late,      \* clocks left for an answer that trails CYC
    waited     \* clocks the master has been waiting

slave_vars == <<mem, taken, late, waited>>
vars == <<exec_vars, slave_vars>>

Request == [we : BOOLEAN, addr : Addr, data : Word, sub : {"REQ", "NONE"}]
NoReq == [we |-> FALSE, addr |-> 0, data |-> 0, sub |-> "NONE"]
OnBus == [we |-> o_wb_we, addr |-> o_wb_addr, data |-> o_wb_data, sub |-> "REQ"]

Commands == [sub : {"RD"}, word : {0}] \cup [sub : {"WR"}, word : WriteWords]
            \cup [sub : {"ADDR"}, word : AddrWords] \cup [sub : {"SPECIAL"}, word : {0}]

-----------------------------------------------------------------------------
SlaveInit == /\ mem \in [Mapped -> PowerUp]
             /\ taken = NoReq
             /\ late = 0
             /\ waited = 0

\* The request in the device's hands on this clock.
Held(stall) == IF o_wb_stb /\ ~stall THEN OnBus ELSE taken

Answers(stall, answer) ==
    /\ answer
    /\ Held(stall).sub = "REQ"
    /\ o_wb_cyc \/ late > 0

Ack(stall, answer) == Answers(stall, answer) /\ Held(stall).addr \in Mapped
Err(stall, answer) == Answers(stall, answer) /\ Held(stall).addr \notin Mapped

\* What the device drives as i_wb_data: the word read with an ACK, else idle zeros.
ReadData(stall, answer) ==
    IF Ack(stall, answer) /\ ~Held(stall).we THEN mem[Held(stall).addr] ELSE 0

Waits(stall, answer) ==
    \/ o_wb_stb /\ stall
    \/ o_wb_cyc /\ ~o_wb_stb /\ ~Answers(stall, answer)

SlaveTick(stall, answer) ==
    /\ Waits(stall, answer) => waited < MaxWait
    /\ waited' = IF Waits(stall, answer) THEN waited + 1 ELSE 0
    /\ mem' = IF o_wb_stb /\ ~stall /\ o_wb_we /\ o_wb_addr \in Mapped
                THEN [mem EXCEPT ![o_wb_addr] = o_wb_data] ELSE mem
    /\ taken' = IF Answers(stall, answer) \/ (~o_wb_cyc /\ late <= 1)
                  THEN NoReq ELSE Held(stall)
    /\ late' = IF o_wb_cyc THEN Linger ELSE IF late > 0 THEN late - 1 ELSE 0

-----------------------------------------------------------------------------
Init == ExecInit /\ o_wb_data \in PowerUp /\ SlaveInit

BusClock(reset, stb, cmd) ==
    \E stall, answer \in BOOLEAN :
        /\ SlaveTick(stall, answer)
        /\ ExecTick(reset, stb, cmd, stall, Ack(stall, answer),
                    Err(stall, answer), ReadData(stall, answer))

\* A command may arrive on any clock, busy or not, except while the device can
\* still answer an abandoned request: after a reset hbpack.v needs three clocks
\* to assemble a command (HbCmdPath checks this).
Arrives(stb) == stb => o_wb_cyc \/ taken = NoReq

Clock(reset, stb, cmd) == Arrives(stb) /\ BusClock(reset, stb, cmd)

Next == \E reset, stb \in BOOLEAN, cmd \in Commands : Clock(reset, stb, cmd)

Spec == Init /\ [][Next]_vars

\* The clock never stops.
FairSpec == Spec /\ WF_vars(Next)

-----------------------------------------------------------------------------
TypeOK == /\ ExecTypeOK
          /\ mem \in [Mapped -> Word]
          /\ taken \in Request
          /\ late \in 0 .. Linger
          /\ waited \in 0 .. MaxWait

\* The master and the device agree on where the request is: on the bus, in the
\* device, or nowhere; and an address is confirmed between bus cycles only.
Handshake ==
    /\ o_wb_stb => o_wb_cyc /\ taken = NoReq
    /\ o_wb_cyc /\ ~o_wb_stb => taken.sub = "REQ" /\ taken.we = o_wb_we
    /\ newaddr => ~o_wb_cyc /\ taken = NoReq
    /\ taken.sub = "NONE" => taken = NoReq

IInv == TypeOK /\ Handshake

\* While a request waits on the bus nothing about it changes, and a bus cycle
\* never changes direction (hbexec.v:125-193, :251-273; fwb_master.v:220-245).
BusStable ==
    [][/\ o_wb_stb /\ o_wb_stb' => UNCHANGED <<o_wb_addr, o_wb_we, o_wb_data>>
       /\ o_wb_cyc /\ o_wb_cyc' => UNCHANGED o_wb_we]_vars

\* Once a bus cycle is open the far end hears about it: an answer, or the
\* report of a reset (hbexec.v:294-325).
CycleAnswered == o_wb_cyc ~> o_rsp_stb

-----------------------------------------------------------------------------
Truth(r) == IF r.addr \notin Mapped THEN RSP_BUS_ERROR
            ELSE IF r.we THEN RSP_WRITE_ACKNOWLEDGEMENT ELSE RspData(mem[r.addr])

Nothing == [sub |-> "NONE", word |-> 0]

\* A clock of hbexec.v is a clock of the command port.
PORT == INSTANCE CommandPort WITH
    addr    <- o_wb_addr,
    step    <- inc,
    serving <- IF o_wb_stb
                 THEN [sub |-> IF o_wb_we THEN "WR" ELSE "RD", word |-> o_wb_data]
                 ELSE Nothing,
    owed    <- IF newaddr THEN RspAddr(o_wb_addr, inc)
               ELSE IF o_wb_cyc /\ ~o_wb_stb THEN Truth(taken) ELSE Nothing,
    rsp     <- IF o_rsp_stb THEN o_rsp_word ELSE Nothing,
    stale   <- ~o_wb_cyc /\ taken.sub = "REQ" /\ taken.addr \notin Mapped

\* Every accepted command takes effect once, at the right address, and is
\* answered once with the truth, whatever the device's timing (hbexec.v:107-326).
ImplementsPort == PORT!Spec
=============================================================================

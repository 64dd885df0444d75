--------------------------- MODULE HbExecWb_proofs ---------------------------
(* Proofs about hbexec.v on its Wishbone bus, for every address width, every  *)
(* set of mapped addresses and every timing of the device.                    *)
EXTENDS HbExecWb, TLAPS

\* Address arithmetic stays inside the address space.
LEMMA ModRange ==
    ASSUME NEW a \in Nat, NEW n \in Nat \ {0}
    PROVE  a % n \in 0 .. n - 1
  OBVIOUS

\* An increment stays inside the address space.
LEMMA BumpType ==
    ASSUME NEW a \in Addr, NEW i \in BOOLEAN
    PROVE  Bump(a, i) \in Addr
<1>1. AddrSpace \in Nat \ {0} BY AddrSpaceAssumption
<1>2. a + (IF i THEN 1 ELSE 0) \in Nat BY <1>1 DEF Addr
<1> QED BY <1>1, <1>2, ModRange DEF Bump, Addr

\* So does the address an address command selects.
LEMMA TargetType ==
    ASSUME NEW w \in Word, NEW a \in Addr
    PROVE  Target(w, a) \in Addr
<1>1. AddrSpace \in Nat \ {0} BY AddrSpaceAssumption
<1>2. w \in Nat BY <1>1 DEF Word
<1>3. w \div 4 \in Nat BY <1>2
<1>4. WordAddr(w) + (IF IsDiff(w) THEN a ELSE 0) \in Nat
  BY <1>1, <1>3 DEF WordAddr, Addr
<1> QED BY <1>1, <1>4, ModRange DEF Target, Addr

\* The confirmation of an address is a response.
LEMMA RspAddrType ==
    ASSUME NEW a \in Addr, NEW i \in BOOLEAN
    PROVE  RspAddr(a, i) \in Response
<1>1. 4 * a + (IF i THEN 0 ELSE 1) \in Word
  BY AddrSpaceAssumption DEF Addr, Word
<1> QED BY <1>1 DEF RspAddr, Response, RspSub

\* What the assumptions on the constants come to.
LEMMA Constants ==
    /\ AddrSpace \in Nat \ {0}
    /\ Mapped \subseteq Addr
    /\ Linger \in Nat /\ MaxWait \in Nat
    /\ PowerUp \subseteq Word
    /\ 0 \in Word /\ 0 \in Addr
  BY AddrSpaceAssumption, SlaveAssumption DEF Word, Addr

\* The commands that arrive are commands.
LEMMA CommandsType == Commands \subseteq Command
  BY SlaveAssumption, Constants DEF Commands, Command, CmdSub

-----------------------------------------------------------------------------
(* What one clock does to the types and to the handshake.                     *)

\* The registers power up in the invariant.
LEMMA InitIInv == Init => IInv
<1> SUFFICES ASSUME Init PROVE IInv OBVIOUS
<1>1. NoReq \in Request
  BY Constants DEF NoReq, Request
<1>2. RSP_RESET \in Response
  BY Constants DEF RSP_RESET, Response, RspSub
<1>3. ExecTypeOK
  BY <1>2 DEF Init, ExecInit, ExecTypeOK
<1>4. TypeOK
  BY <1>1, <1>3, Constants DEF Init, SlaveInit, TypeOK
<1>5. Handshake
  BY DEF Init, ExecInit, SlaveInit, Handshake, NoReq
<1> QED BY <1>4, <1>5 DEF IInv

\* One clock keeps every register and the device in its type.
LEMMA StepType ==
    ASSUME IInv,
           NEW reset \in BOOLEAN, NEW stb \in BOOLEAN, NEW cmd \in Commands,
           NEW stall \in BOOLEAN, NEW answer \in BOOLEAN,
           SlaveTick(stall, answer),
           ExecTick(reset, stb, cmd, stall, Ack(stall, answer),
                    Err(stall, answer), ReadData(stall, answer))
    PROVE  TypeOK'
<1> DEFINE ack == Ack(stall, answer)
           err == Err(stall, answer)
           data == ReadData(stall, answer)
<1>1. cmd \in Command /\ cmd.word \in Word
  BY CommandsType DEF Command
<1>2. NoReq \in Request /\ OnBus \in Request
  BY Constants DEF IInv, TypeOK, ExecTypeOK, NoReq, OnBus, Request
<1>3. Held(stall) \in Request
  BY <1>2 DEF IInv, TypeOK, Held
<1>4. ack \in BOOLEAN /\ err \in BOOLEAN
  BY DEF Ack, Err, Answers
<1>5. data \in Word
  BY Constants DEF IInv, TypeOK, ReadData, Ack
<1>6. o_wb_cyc' \in BOOLEAN /\ o_wb_stb' \in BOOLEAN
  <2> HIDE DEF ack, err
  <2>1. CycStb(reset, stb, cmd, stall, ack, err)
    BY DEF ExecTick, ack, err
  <2> QED BY <2>1, <1>4 DEF CycStb, CmdBus, IInv, TypeOK, ExecTypeOK
<1>7. o_wb_we' \in BOOLEAN
  BY DEF ExecTick, WriteEnable, CmdWr, IInv, TypeOK, ExecTypeOK
<1>8. o_wb_addr' \in Addr /\ inc' \in BOOLEAN /\ newaddr' \in BOOLEAN
  BY <1>1, BumpType, TargetType
     DEF ExecTick, Address, IsHold, IInv, TypeOK, ExecTypeOK
<1>9. o_wb_data' \in Word
  BY <1>1 DEF ExecTick, WriteData, IInv, TypeOK, ExecTypeOK
<1>10. o_rsp_stb' \in BOOLEAN /\ o_rsp_word' \in Response
  <2> HIDE DEF ack, err, data
  <2>1. Respond(reset, ack, err, data)
    BY DEF ExecTick, ack, err, data
  <2>2. RspAddr(o_wb_addr, inc) \in Response
    BY RspAddrType DEF IInv, TypeOK, ExecTypeOK
  <2>3. {RSP_RESET, RSP_BUS_ERROR, RSP_WRITE_ACKNOWLEDGEMENT, RspData(data)}
            \subseteq Response
    BY <1>5, Constants
       DEF RSP_RESET, RSP_BUS_ERROR, RSP_WRITE_ACKNOWLEDGEMENT, RspData,
           Response, RspSub
  <2> QED BY <2>1, <2>2, <2>3, <1>4 DEF Respond, IInv, TypeOK, ExecTypeOK
<1>11. mem' \in [Mapped -> Word]
  BY DEF SlaveTick, IInv, TypeOK, ExecTypeOK
<1>12. taken' \in Request
  BY <1>2, <1>3 DEF SlaveTick
<1>13. late' \in 0 .. Linger
  BY Constants DEF SlaveTick, IInv, TypeOK
<1>14. waited' \in 0 .. MaxWait
  BY Constants DEF SlaveTick, IInv, TypeOK
<1> QED
  BY <1>6, <1>7, <1>8, <1>9, <1>10, <1>11, <1>12, <1>13, <1>14
     DEF TypeOK, ExecTypeOK

\* One clock keeps master and device agreed on where the request is.
LEMMA StepHandshake ==
    ASSUME IInv,
           NEW reset \in BOOLEAN, NEW stb \in BOOLEAN, NEW cmd \in Commands,
           NEW stall \in BOOLEAN, NEW answer \in BOOLEAN,
           Arrives(stb),
           SlaveTick(stall, answer),
           ExecTick(reset, stb, cmd, stall, Ack(stall, answer),
                    Err(stall, answer), ReadData(stall, answer))
    PROVE  Handshake'
<1> DEFINE ack == Ack(stall, answer)
           err == Err(stall, answer)
<1> USE DEF IInv, TypeOK, ExecTypeOK
<1>1. NoReq.sub = "NONE" /\ OnBus.sub = "REQ" /\ OnBus.we = o_wb_we
  BY DEF NoReq, OnBus
<1>2. Answers(stall, answer) <=> ack \/ err
  BY DEF Ack, Err
<1>3. CycStb(reset, stb, cmd, stall, ack, err)
  BY DEF ExecTick
<1>4. taken' = IF Answers(stall, answer) \/ (~o_wb_cyc /\ late <= 1)
                 THEN NoReq ELSE Held(stall)
  BY DEF SlaveTick
<1>5. ack \in BOOLEAN /\ err \in BOOLEAN
  BY DEF Ack, Err, Answers
<1> HIDE DEF ack, err
\* A request stays on the bus only while it is stalled, and enters it only when
\* the device holds nothing.
<1>6. o_wb_stb' => o_wb_cyc' /\ taken' = NoReq
  <2> SUFFICES ASSUME o_wb_stb' PROVE o_wb_cyc' /\ taken' = NoReq
    OBVIOUS
  <2>1. CASE o_wb_stb
    BY <1>3, <1>4, <1>5, <2>1 DEF CycStb, Handshake, Held
  <2>2. CASE ~o_wb_stb
    <3>1. stb /\ ~o_wb_cyc
      BY <1>3, <1>5, <2>2 DEF CycStb, CmdBus
    <3>2. taken = NoReq
      BY <3>1 DEF Arrives
    <3> QED BY <1>3, <1>4, <1>5, <2>2, <3>1, <3>2 DEF CycStb, Held
  <2> QED BY <2>1, <2>2
\* The bus waits for an answer only to the request the device took from it.
<1>7. o_wb_cyc' /\ ~o_wb_stb' => taken'.sub = "REQ" /\ taken'.we = o_wb_we'
  <2> SUFFICES ASSUME o_wb_cyc', ~o_wb_stb'
               PROVE  taken'.sub = "REQ" /\ taken'.we = o_wb_we'
    OBVIOUS
  <2>1. o_wb_cyc /\ ~err /\ o_wb_we' = o_wb_we
    BY <1>3, <1>5 DEF CycStb, ExecTick, WriteEnable
  <2>2. ~ack
    BY <1>3, <1>5, <2>1 DEF CycStb
  <2>3. taken' = Held(stall)
    BY <1>2, <1>4, <2>1, <2>2
  <2>4. Held(stall).sub = "REQ" /\ Held(stall).we = o_wb_we
    BY <1>1, <1>3, <1>5, <2>1, <2>2 DEF Held, Handshake, CycStb
  <2> QED BY <2>1, <2>3, <2>4
<1>8. newaddr' => ~o_wb_cyc' /\ taken' = NoReq
  <2> SUFFICES ASSUME newaddr' PROVE ~o_wb_cyc' /\ taken' = NoReq
    OBVIOUS
  <2>1. ~reset /\ stb /\ cmd.sub = "ADDR" /\ ~o_wb_cyc
    BY DEF ExecTick, Address, CmdAddr, o_cmd_busy
  <2>2. ~o_wb_stb /\ taken = NoReq
    BY <2>1 DEF Handshake, Arrives
  <2> QED BY <1>3, <1>4, <1>5, <2>1, <2>2 DEF CycStb, CmdBus, Held
<1>9. taken'.sub = "NONE" => taken' = NoReq
  BY <1>1, <1>4 DEF Held, Handshake
<1> QED BY <1>6, <1>7, <1>8, <1>9 DEF Handshake

\* So the invariant is inductive.
LEMMA StepIInv == IInv /\ [Next]_vars => IInv'
<1> SUFFICES ASSUME IInv, [Next]_vars PROVE IInv' OBVIOUS
<1>1. CASE Next
  <2>1. PICK reset \in BOOLEAN, stb \in BOOLEAN, cmd \in Commands :
             Clock(reset, stb, cmd)
    BY <1>1 DEF Next
  <2>2. PICK stall \in BOOLEAN, answer \in BOOLEAN :
             /\ SlaveTick(stall, answer)
             /\ ExecTick(reset, stb, cmd, stall, Ack(stall, answer),
                         Err(stall, answer), ReadData(stall, answer))
    BY <2>1 DEF Clock, BusClock
  <2>3. Arrives(stb)
    BY <2>1 DEF Clock
  <2>4. TypeOK'
    BY <2>2, StepType
  <2>5. Handshake'
    BY <2>2, <2>3, StepHandshake
  <2> QED BY <2>4, <2>5 DEF IInv
<1>2. CASE UNCHANGED vars
  BY <1>2 DEF vars, exec_vars, slave_vars, IInv, TypeOK, ExecTypeOK, Handshake
<1> QED BY <1>1, <1>2

\* Types, and the handshake: a request is on the bus, in the device or nowhere,
\* and an address is confirmed between bus cycles only (hbexec.v:125-244).
THEOREM Invariant == Spec => []IInv
<1> QED BY InitIInv, StepIInv, PTL DEF Spec

\* A request on the bus does not change while it waits, and a bus cycle keeps
\* its direction (fwb_master.v:220-245, what a master owes every device).
THEOREM Stability == Spec => BusStable
<1> DEFINE Stable ==
       /\ o_wb_stb /\ o_wb_stb' => UNCHANGED <<o_wb_addr, o_wb_we, o_wb_data>>
       /\ o_wb_cyc /\ o_wb_cyc' => UNCHANGED o_wb_we
<1>1. IInv /\ [Next]_vars => [Stable]_vars
  <2> SUFFICES ASSUME IInv, Next PROVE Stable
    BY DEF Stable
  <2>1. PICK reset \in BOOLEAN, stb \in BOOLEAN, cmd \in Commands,
             stall \in BOOLEAN, answer \in BOOLEAN :
             ExecTick(reset, stb, cmd, stall, Ack(stall, answer),
                      Err(stall, answer), ReadData(stall, answer))
    BY DEF Next, Clock, BusClock
  <2>2. o_wb_cyc => UNCHANGED o_wb_we
    BY <2>1 DEF ExecTick, WriteEnable
  <2>3. o_wb_stb /\ o_wb_stb' => stall /\ o_wb_cyc
    BY <2>1 DEF ExecTick, CycStb, IInv, Handshake
  <2>4. o_wb_stb /\ o_wb_stb' => UNCHANGED <<o_wb_addr, o_wb_data>>
    BY <2>1, <2>3 DEF ExecTick, Address, WriteData, o_cmd_busy
  <2> QED BY <2>2, <2>3, <2>4
<1> QED BY <1>1, Invariant, PTL DEF Spec, BusStable

-----------------------------------------------------------------------------
(* hbexec.v implements the command port.                                      *)

\* The registers power up as the command port does.
LEMMA InitPort == Init => PORT!Init
<1> SUFFICES ASSUME Init PROVE PORT!Init OBVIOUS
<1>1. taken.sub = "NONE"
  BY DEF Init, SlaveInit, NoReq
<1> QED BY <1>1, Constants
     DEF Init, ExecInit, SlaveInit, PORT!Init, PORT!Nothing, PORT!Answer,
         PORT!Addr, PORT!Word, Addr, Word, Nothing, RSP_RESET

\* One clock of hbexec.v and its device is one clock of the command port, which
\* serves, delivers, listens or is reset.
LEMMA StepPort ==
    ASSUME IInv, IInv',
           NEW reset \in BOOLEAN, NEW stb \in BOOLEAN, NEW cmd \in Commands,
           NEW stall \in BOOLEAN, NEW answer \in BOOLEAN,
           Arrives(stb),
           SlaveTick(stall, answer),
           ExecTick(reset, stb, cmd, stall, Ack(stall, answer),
                    Err(stall, answer), ReadData(stall, answer))
    PROVE  PORT!Next
<1> DEFINE ack == Ack(stall, answer)
           err == Err(stall, answer)
           data == ReadData(stall, answer)
           answered == Answers(stall, answer)
           held == Held(stall)
<1> USE DEF IInv, TypeOK, ExecTypeOK
\* What the registers do on this clock.
<1>1. CycStb(reset, stb, cmd, stall, ack, err)
  BY DEF ExecTick
<1>2. Respond(reset, ack, err, data)
  BY DEF ExecTick
<1>3. WriteEnable(stb, cmd) /\ WriteData(cmd, stall) /\ Address(reset, stb, cmd, stall)
  BY DEF ExecTick
\* What the device does on this clock.
<1>4. /\ ack = (answered /\ held.addr \in Mapped)
      /\ err = (answered /\ held.addr \notin Mapped)
      /\ answered => held.sub = "REQ"
      /\ held = IF o_wb_stb /\ ~stall THEN OnBus ELSE taken
      /\ data = IF ack /\ ~held.we THEN mem[held.addr] ELSE 0
  BY DEF Ack, Err, Answers, Held, ReadData
<1>5. /\ mem' = IF o_wb_stb /\ ~stall /\ o_wb_we /\ o_wb_addr \in Mapped
                  THEN [mem EXCEPT ![o_wb_addr] = o_wb_data] ELSE mem
      /\ taken' = IF answered \/ (~o_wb_cyc /\ late <= 1) THEN NoReq ELSE held
  BY DEF SlaveTick
<1>6. ack \in BOOLEAN /\ err \in BOOLEAN /\ answered \in BOOLEAN
  BY <1>4 DEF Answers
<1>7. NoReq.sub = "NONE" /\ OnBus.sub = "REQ" /\ OnBus.we = o_wb_we
      /\ OnBus.addr = o_wb_addr /\ OnBus.data = o_wb_data
  BY DEF NoReq, OnBus
<1>8. /\ o_wb_stb => o_wb_cyc /\ taken = NoReq
      /\ o_wb_cyc /\ ~o_wb_stb => taken.sub = "REQ" /\ taken.we = o_wb_we
      /\ newaddr => ~o_wb_cyc /\ taken = NoReq
  BY DEF Handshake
<1> HIDE DEF ack, err, data, answered, held
<1> USE DEF PORT!Answer, PORT!Nothing, PORT!BusError, Nothing
<1>9. CASE reset
  <2>1. ~o_wb_cyc' /\ ~o_wb_stb' /\ ~newaddr' /\ o_rsp_stb' /\ o_rsp_word' = RSP_RESET
    BY <1>1, <1>2, <1>3, <1>9 DEF CycStb, Respond, Address
  <2> SUFFICES PORT!Reset BY DEF PORT!Next
  <2> DEFINE serving == IF o_wb_stb
                          THEN [sub |-> IF o_wb_we THEN "WR" ELSE "RD",
                                word |-> o_wb_data]
                          ELSE Nothing
             owed == IF newaddr THEN RspAddr(o_wb_addr, inc)
                     ELSE IF o_wb_cyc /\ ~o_wb_stb THEN Truth(taken) ELSE Nothing
             stale == ~o_wb_cyc /\ taken.sub = "REQ" /\ taken.addr \notin Mapped
  <2>2. stale' \in BOOLEAN /\ (stale' => stale \/ serving.sub # "NONE" \/ owed.sub = "BUSERR")
    <3> SUFFICES ASSUME taken'.sub = "REQ", taken'.addr \notin Mapped
                 PROVE  stale \/ serving.sub # "NONE" \/ owed.sub = "BUSERR"
      OBVIOUS
    <3>1. taken' = held
      BY <1>5, <1>7
    <3>2. CASE o_wb_stb
      BY <3>2
    <3>3. CASE ~o_wb_stb
      BY <1>4, <1>8, <3>1, <3>3 DEF Truth, RSP_BUS_ERROR
    <3> QED BY <3>2, <3>3
  <2>3. \/ UNCHANGED <<mem, o_wb_addr, inc>>
        \/ PORT!TakeEffect /\ UNCHANGED inc
        \/ /\ serving.sub = "NONE" /\ owed.sub \in {"NONE", "ADDR"}
           /\ o_wb_addr' \in Addr /\ inc' \in BOOLEAN /\ UNCHANGED mem
    <3>1. CASE o_wb_stb /\ ~stall
      <4>1. o_wb_addr' = Bump(o_wb_addr, inc) /\ UNCHANGED inc
        BY <1>3, <1>8, <3>1 DEF Address, o_cmd_busy
      <4>2. Bump(o_wb_addr, inc) = PORT!Next_(o_wb_addr)
        BY DEF PORT!Next_, Bump
      <4> QED BY <1>5, <3>1, <4>1, <4>2 DEF PORT!TakeEffect
    <3>2. CASE ~(o_wb_stb /\ ~stall) /\ o_wb_cyc
      BY <1>3, <1>5, <3>2 DEF Address, o_cmd_busy
    <3>3. CASE ~o_wb_cyc
      <4>1. ~o_wb_stb /\ UNCHANGED mem
        BY <1>5, <1>8, <3>3
      <4>2. owed.sub \in {"NONE", "ADDR"}
        BY <3>3 DEF RspAddr
      <4> QED BY <3>3, <4>1, <4>2
    <3> QED BY <3>1, <3>2, <3>3
  <2> HIDE DEF serving, stale, owed
  <2>4. PORT!Addr = Addr
    BY DEF PORT!Addr, Addr
  <2>5. owed' = Nothing /\ serving' = Nothing
    BY <2>1 DEF owed, serving
  <2> QED BY <2>1, <2>2, <2>3, <2>4, <2>5
          DEF PORT!Reset, serving, owed, stale, RSP_RESET
<1>10. CASE ~reset /\ o_wb_stb
  <2> SUFFICES PORT!Serve BY DEF PORT!Next
  <2> DEFINE request == [sub |-> IF o_wb_we THEN "WR" ELSE "RD", word |-> o_wb_data]
             result == PORT!Result(request, mem, o_wb_addr)
  <2>1. o_wb_cyc /\ taken = NoReq /\ ~newaddr /\ ~newaddr'
    BY <1>3, <1>8, <1>10 DEF Address, o_cmd_busy
  <2>2. UNCHANGED <<inc, o_wb_we>>
    BY <1>3, <1>10, <2>1 DEF Address, WriteEnable, o_cmd_busy
  <2>3. request.sub # "NONE" /\ (request.sub = "WR" <=> o_wb_we)
        /\ request.word = o_wb_data
    OBVIOUS
  <2> HIDE DEF request
  <2>4. CASE stall
    <3>1. ~answered /\ ~ack /\ ~err
      BY <1>4, <1>6, <1>7, <2>1, <2>4
    <3>2. o_wb_stb' /\ o_wb_cyc' /\ ~o_rsp_stb' /\ mem' = mem
      BY <1>1, <1>2, <1>5, <1>10, <2>1, <2>4, <3>1 DEF CycStb, Respond
    <3>3. UNCHANGED <<o_wb_addr, o_wb_data>>
      BY <1>3, <1>10, <2>1, <2>4 DEF Address, WriteData, o_cmd_busy
    <3> QED BY <1>10, <2>1, <2>2, <2>3, <3>2, <3>3 DEF PORT!Serve, request
  <2>5. CASE ~stall
    <3>1. held = OnBus
      BY <1>4, <1>10, <2>5
    <3>2. PORT!Next_(o_wb_addr) = Bump(o_wb_addr, inc)
      BY DEF PORT!Next_, Bump
    <3>3. o_wb_addr' = PORT!Next_(o_wb_addr) /\ ~o_wb_stb'
      BY <1>1, <1>3, <1>10, <2>1, <2>5, <3>2 DEF Address, CycStb, o_cmd_busy
    <3>4. mem' = IF o_wb_we /\ o_wb_addr \in Mapped
                   THEN [mem EXCEPT ![o_wb_addr] = o_wb_data] ELSE mem
      BY <1>5, <1>10, <2>5
    <3>5. result = IF o_wb_addr \notin Mapped THEN RSP_BUS_ERROR
                   ELSE IF o_wb_we THEN RSP_WRITE_ACKNOWLEDGEMENT
                   ELSE RspData(mem[o_wb_addr])
      BY <2>3 DEF PORT!Result, RSP_BUS_ERROR, RSP_WRITE_ACKNOWLEDGEMENT, RspData
    <3>6. CASE answered
      <4>1. ~o_wb_cyc' /\ taken' = NoReq
        BY <1>1, <1>4, <1>5, <1>6, <1>10, <2>1, <2>5, <3>6 DEF CycStb
      <4>2. o_rsp_stb' /\ o_rsp_word' = result
        BY <1>2, <1>4, <1>6, <1>7, <1>10, <2>1, <3>1, <3>5, <3>6 DEF Respond
      <4> QED
        BY <1>7, <1>10, <2>1, <2>2, <2>3, <3>3, <3>4, <4>1, <4>2
           DEF PORT!Serve, PORT!TakeEffect, request
    <3>7. CASE ~answered
      <4>1. o_wb_cyc' /\ taken' = OnBus /\ ~o_rsp_stb'
        BY <1>1, <1>2, <1>4, <1>5, <1>6, <1>10, <2>1, <2>5, <3>1, <3>7
           DEF CycStb, Respond
      <4>2. Truth(taken)' = result
        BY <1>7, <3>4, <3>5, <4>1 DEF Truth, RspData
      <4> QED
        BY <1>10, <2>1, <2>2, <2>3, <3>3, <3>4, <4>1, <4>2
           DEF PORT!Serve, PORT!TakeEffect, request
    <3> QED BY <1>6, <3>6, <3>7
  <2> QED BY <2>4, <2>5
<1>11. CASE ~reset /\ ~o_wb_stb /\ o_wb_cyc
  <2>1. ~newaddr /\ ~newaddr' /\ ~o_wb_stb' /\ mem' = mem /\ held = taken
    BY <1>1, <1>3, <1>4, <1>5, <1>6, <1>8, <1>11
       DEF CycStb, Address, o_cmd_busy
  <2>2. UNCHANGED <<o_wb_addr, inc, o_wb_we>>
    BY <1>3, <1>11 DEF Address, WriteEnable, o_cmd_busy
  <2>3. o_wb_cyc' = ~answered /\ taken' = (IF answered THEN NoReq ELSE taken)
    BY <1>1, <1>4, <1>5, <1>6, <2>1, <1>11 DEF CycStb
  <2>4. /\ o_rsp_stb' = answered
        /\ answered => o_rsp_word' = Truth(taken)
    BY <1>2, <1>4, <1>6, <1>8, <2>1, <1>11 DEF Respond, Truth
  <2>5. Truth(taken).sub \in {"DATA", "ACK", "BUSERR"}
    BY DEF Truth, RSP_BUS_ERROR, RSP_WRITE_ACKNOWLEDGEMENT, RspData
  <2>6. Truth(taken)' = IF answered THEN Truth(NoReq)' ELSE Truth(taken)
    BY <2>1, <2>3 DEF Truth
  <2>7. PORT!Deliver
    BY <1>6, <1>7, <2>1, <2>2, <2>3, <2>4, <2>5, <2>6, <1>11 DEF PORT!Deliver
  <2> QED BY <2>7 DEF PORT!Next
<1>12. CASE ~reset /\ ~o_wb_stb /\ ~o_wb_cyc
  <2> SUFFICES PORT!Listen BY DEF PORT!Next
  <2>1. mem' = mem /\ held = taken
    BY <1>4, <1>5, <1>12
  <2>2. /\ o_wb_cyc' = CmdBus(stb, cmd) /\ o_wb_stb' = CmdBus(stb, cmd)
        /\ o_wb_we' = CmdWr(stb, cmd) /\ o_wb_data' = cmd.word
        /\ newaddr' = CmdAddr(stb, cmd)
    <3>1. o_wb_cyc' = CmdBus(stb, cmd) /\ o_wb_stb' = CmdBus(stb, cmd)
      BY <1>1, <1>6, <1>12 DEF CycStb
    <3>2. o_wb_we' = CmdWr(stb, cmd) /\ o_wb_data' = cmd.word
      BY <1>3, <1>12 DEF WriteEnable, WriteData
    <3>3. newaddr' = CmdAddr(stb, cmd)
      BY <1>3, <1>12 DEF Address, CmdAddr, o_cmd_busy
    <3> QED BY <3>1, <3>2, <3>3
  <2> DEFINE owed == IF newaddr THEN RspAddr(o_wb_addr, inc)
                     ELSE IF o_wb_cyc /\ ~o_wb_stb THEN Truth(taken) ELSE Nothing
             rsp == IF o_rsp_stb THEN o_rsp_word ELSE Nothing
             stale == ~o_wb_cyc /\ taken.sub = "REQ" /\ taken.addr \notin Mapped
  <2>3. owed.sub \in {"NONE", "ADDR"}
    BY <1>12 DEF RspAddr
  \* An address is confirmed, or a late error of an abandoned request comes in.
  <2>4. \/ rsp' = owed /\ stale' \in {stale, FALSE}
        \/ stale /\ rsp' = PORT!BusError /\ stale' = FALSE
    <3>1. CASE err
      <4>1. stale /\ taken' = NoReq
        BY <1>4, <1>5, <1>6, <1>12, <2>1, <3>1
      <4>2. rsp' = PORT!BusError
        BY <1>2, <1>12, <3>1 DEF Respond, RSP_BUS_ERROR
      <4> QED BY <1>7, <4>1, <4>2
    <3>2. CASE ~err
      <4>1. rsp' = owed
        BY <1>2, <1>12, <3>2 DEF Respond
      <4>2. stale' \in {stale, FALSE}
        BY <1>5, <1>7, <1>12, <2>1
      <4> QED BY <4>1, <4>2
    <3> QED BY <1>6, <3>1, <3>2
  \* The next command, if there is one, is accepted.
  <2>5. stb => ~stale
    BY <1>7, <1>12 DEF Arrives
  <2>6. CASE CmdAddr(stb, cmd)
    <3>1. ~o_wb_cyc' /\ ~o_wb_stb' /\ newaddr' /\ ~stale
      BY <2>2, <2>5, <2>6 DEF CmdAddr, CmdBus
    <3>2. PORT!SetAddress
      BY <1>12, <3>1 DEF PORT!SetAddress, PORT!Addr, Addr, RspAddr
    <3> QED BY <1>12, <2>1, <2>3, <2>4, <3>1, <3>2 DEF PORT!Listen
  <2>7. CASE CmdBus(stb, cmd)
    <3>1. o_wb_stb' /\ ~newaddr' /\ ~stale /\ UNCHANGED <<o_wb_addr, inc>>
      BY <1>3, <1>12, <2>2, <2>5, <2>7 DEF CmdAddr, CmdBus, Address
    <3>2. PORT!Accept
      BY <1>12, <3>1 DEF PORT!Accept, PORT!Word, Word
    <3> QED BY <1>12, <2>1, <2>3, <2>4, <3>1, <3>2 DEF PORT!Listen
  <2>8. CASE ~CmdAddr(stb, cmd) /\ ~CmdBus(stb, cmd)
    <3>1. ~o_wb_cyc' /\ ~o_wb_stb' /\ ~newaddr' /\ UNCHANGED <<o_wb_addr, inc>>
      BY <1>3, <1>12, <2>2, <2>8 DEF Address
    <3> QED BY <1>12, <2>1, <2>3, <2>4, <3>1 DEF PORT!Listen
  <2> QED BY <2>6, <2>7, <2>8
<1> QED BY <1>9, <1>10, <1>11, <1>12

\* A clock that changes nothing changes nothing of the port.
LEMMA StutterPort == UNCHANGED vars => UNCHANGED PORT!port_vars
  BY DEF vars, exec_vars, slave_vars, PORT!port_vars, Truth, RspAddr, RspData

\* Whatever the timing of the device, each accepted command takes effect once,
\* at the right address, and is answered once with the truth (hbexec.v:107-326).
THEOREM Implementation == Spec => ImplementsPort
<1>1. IInv /\ IInv' /\ [Next]_vars => [PORT!Next]_(PORT!port_vars)
  <2> SUFFICES ASSUME IInv, IInv', Next PROVE PORT!Next
    BY StutterPort
  <2>1. PICK reset \in BOOLEAN, stb \in BOOLEAN, cmd \in Commands :
             Clock(reset, stb, cmd)
    BY DEF Next
  <2>2. PICK stall \in BOOLEAN, answer \in BOOLEAN :
             /\ SlaveTick(stall, answer)
             /\ ExecTick(reset, stb, cmd, stall, Ack(stall, answer),
                         Err(stall, answer), ReadData(stall, answer))
    BY <2>1 DEF Clock, BusClock
  <2>3. Arrives(stb)
    BY <2>1 DEF Clock
  <2> QED BY <2>2, <2>3, StepPort
<1> QED BY <1>1, InitPort, Invariant, PTL DEF Spec, ImplementsPort, PORT!Spec
=============================================================================

--------------------------- MODULE HbCmdPath_proofs ---------------------------
(* Proofs about the command channel, for every alphabet, word length, device  *)
(* and spacing of the characters.                                             *)
EXTENDS HbCmdPath, DataLemmas, FiniteSetTheorems

\* The types that the timing of the channel needs.
Flags ==
    /\ rx_stb \in BOOLEAN /\ gap \in 0 .. CharTime - 1
    /\ o_reset \in BOOLEAN /\ o_dh_stb \in BOOLEAN
    /\ cmd_loaded \in BOOLEAN /\ o_pck_stb \in BOOLEAN
    /\ o_wb_cyc \in BOOLEAN /\ o_wb_stb \in BOOLEAN /\ newaddr \in BOOLEAN
    /\ o_rsp_stb \in BOOLEAN
    /\ late \in 0 .. Linger /\ busy_for \in 0 .. CharTime

\* Where the request is, as in HbExecWb, whose proofs are about any commands.
Shake ==
    /\ o_wb_stb => o_wb_cyc /\ taken = EX!NoReq
    /\ o_wb_cyc /\ ~o_wb_stb => taken.sub = "REQ"
    /\ newaddr => ~o_wb_cyc /\ taken = EX!NoReq
    /\ taken.sub \in {"REQ", "NONE"} /\ (taken.sub = "NONE" => taken = EX!NoReq)

\* Where a character is, by the time it came in: received, decoded, packed.
Line ==
    /\ rx_stb => gap = CharTime - 1
    /\ o_dh_stb => gap = CharTime - 2 /\ ~rx_stb
    /\ o_pck_stb => gap >= CharTime - 3 /\ ~o_dh_stb /\ (rx_stb => CharTime = 2)
    /\ newaddr => ~o_pck_stb
    /\ o_reset => \/ gap = CharTime - 2 /\ ~rx_stb
                  \/ ~o_wb_cyc /\ taken = EX!NoReq

\* A request that a reset abandoned is forgotten before a command can come in,
\* for which two more characters are due.
Abandoned == ~o_wb_cyc /\ taken # EX!NoReq
Clear ==
    Abandoned =>
      /\ ~o_pck_stb
      /\ late <= IF cmd_loaded
                 THEN IF o_dh_stb THEN 1 ELSE IF rx_stb THEN 2 ELSE gap + 3
                 ELSE IF o_dh_stb \/ rx_stb THEN gap + 3 ELSE gap + CharTime + 3

\* The next command is at least this many clocks away.
Ahead == IF o_pck_stb THEN 0 ELSE IF o_dh_stb THEN 1 ELSE IF rx_stb THEN 2 ELSE gap + 3
Slow == o_wb_cyc => busy_for + Ahead >= CharTime - 1

\* After an answer, the report of a reset apart, nothing is left to answer.
Quiet ==
    o_rsp_stb /\ o_rsp_word # EX!RSP_RESET => ~o_wb_cyc /\ ~newaddr /\ taken = EX!NoReq

Timed == Flags /\ Shake /\ Line /\ Clear /\ Slow /\ Quiet
-----------------------------------------------------------------------------
LEMMA Constants ==
    CharTime \in Nat /\ CharTime >= 2 /\ Linger \in Nat /\ Linger <= 2 * CharTime
BY CmdAssumption

\* What one clock does to the bus and its device.
LEMMA BusStep ==
    ASSUME Flags, Shake, NEW reset \in BOOLEAN, NEW stb \in BOOLEAN, NEW cmd,
           EX!BusClock(reset, stb, cmd),
           stb => o_wb_cyc \/ taken = EX!NoReq
    PROVE  /\ o_wb_cyc' \in BOOLEAN /\ o_wb_stb' \in BOOLEAN /\ newaddr' \in BOOLEAN
           /\ o_rsp_stb' \in BOOLEAN /\ late' \in 0 .. Linger
           /\ Shake'
           /\ reset => ~o_wb_cyc' /\ ~newaddr' /\ o_rsp_stb' /\ o_rsp_word' = EX!RSP_RESET
           /\ newaddr' => stb
           /\ o_wb_cyc' /\ ~o_wb_cyc => stb
           /\ ~o_wb_cyc /\ taken = EX!NoReq /\ ~stb => ~o_wb_cyc' /\ taken' = EX!NoReq
           /\ ~o_wb_cyc' /\ taken' # EX!NoReq =>
                \/ ~o_wb_cyc /\ taken # EX!NoReq /\ late > 1 /\ late' = late - 1
                \/ reset /\ o_wb_cyc /\ late' = Linger
           /\ ~reset /\ o_rsp_stb' =>
                \/ o_wb_cyc /\ ~o_wb_cyc' /\ taken' = EX!NoReq /\ ~newaddr'
                \/ newaddr /\ ~o_wb_cyc /\ taken = EX!NoReq
                \/ ~o_wb_cyc /\ taken # EX!NoReq /\ taken' = EX!NoReq
<1>1. PICK stall \in BOOLEAN, answer \in BOOLEAN :
         /\ EX!SlaveTick(stall, answer)
         /\ EX!ExecTick(reset, stb, cmd, stall, EX!Ack(stall, answer),
                        EX!Err(stall, answer), EX!ReadData(stall, answer))
  BY DEF EX!BusClock
<1> DEFINE ack == EX!Ack(stall, answer)
<1> DEFINE err == EX!Err(stall, answer)
<1> DEFINE answered == EX!Answers(stall, answer)
<1> DEFINE held == EX!Held(stall)
<1>2. /\ EX!CycStb(reset, stb, cmd, stall, ack, err)
      /\ EX!Address(reset, stb, cmd, stall)
      /\ EX!Respond(reset, ack, err, EX!ReadData(stall, answer))
  BY <1>1 DEF EX!ExecTick
<1>3. /\ answered <=> ack \/ err
      /\ ack \in BOOLEAN /\ err \in BOOLEAN /\ answered \in BOOLEAN
      /\ answered => held.sub = "REQ" /\ (o_wb_cyc \/ late > 0)
  BY DEF EX!Ack, EX!Err, EX!Answers
<1>4. /\ held = IF o_wb_stb /\ ~stall THEN EX!OnBus ELSE taken
      /\ EX!OnBus.sub = "REQ" /\ EX!NoReq.sub = "NONE"
  BY DEF EX!Held, EX!OnBus, EX!NoReq
<1>5. /\ taken' = IF answered \/ (~o_wb_cyc /\ late <= 1) THEN EX!NoReq ELSE held
      /\ late' = IF o_wb_cyc THEN Linger ELSE IF late > 0 THEN late - 1 ELSE 0
  BY <1>1 DEF EX!SlaveTick
<1>6. newaddr' = (~reset /\ stb /\ cmd.sub = "ADDR" /\ ~o_wb_cyc)
  BY <1>2 DEF EX!Address, EX!CmdAddr, EX!o_cmd_busy
<1> DEFINE bus == EX!CmdBus(stb, cmd)
<1>7. bus \in BOOLEAN /\ (bus => stb /\ cmd.sub # "ADDR")
  BY DEF EX!CmdBus
<1> HIDE DEF ack, err, answered, held, bus
<1>8. /\ reset \/ (err /\ o_wb_cyc) => ~o_wb_cyc' /\ ~o_wb_stb'
      /\ ~reset /\ ~(err /\ o_wb_cyc) /\ o_wb_stb =>
           (o_wb_stb' <=> stall) /\ (o_wb_cyc' <=> o_wb_cyc /\ (stall \/ ~ack))
      /\ ~reset /\ ~(err /\ o_wb_cyc) /\ ~o_wb_stb /\ o_wb_cyc =>
           (o_wb_cyc' <=> ~ack) /\ ~o_wb_stb'
      /\ ~reset /\ ~o_wb_stb /\ ~o_wb_cyc => (o_wb_cyc' <=> bus) /\ (o_wb_stb' <=> bus)
      /\ o_wb_cyc' \in BOOLEAN /\ o_wb_stb' \in BOOLEAN
  <2>1. o_wb_cyc \in BOOLEAN /\ o_wb_stb \in BOOLEAN /\ ack \in BOOLEAN /\ bus \in BOOLEAN
        /\ stall \in BOOLEAN
    BY <1>3, <1>7 DEF Flags
  <2>2. EX!CycStb(reset, stb, cmd, stall, ack, err)
    BY <1>2
  <2>3. CASE reset \/ (err /\ o_wb_cyc)
    BY <2>2, <2>3, Zenon DEF EX!CycStb
  <2>4. CASE ~reset /\ ~(err /\ o_wb_cyc) /\ o_wb_stb
    <3>1. o_wb_stb' = stall /\ o_wb_cyc' = (o_wb_cyc /\ (stall \/ ~ack))
      BY <2>2, <2>4, Zenon DEF EX!CycStb
    <3> QED BY <2>1, <2>4, <3>1, Zenon
  <2>5. CASE ~reset /\ ~(err /\ o_wb_cyc) /\ ~o_wb_stb /\ o_wb_cyc
    <3>1. o_wb_stb' = o_wb_stb /\ o_wb_cyc' = ~ack
      BY <2>2, <2>5, Zenon DEF EX!CycStb
    <3> QED BY <2>1, <2>5, <3>1, Zenon
  <2>6. CASE ~reset /\ ~o_wb_stb /\ ~o_wb_cyc
    <3>1. o_wb_stb' = bus /\ o_wb_cyc' = bus
      BY <2>2, <2>6, Zenon DEF EX!CycStb, bus
    <3> QED BY <2>1, <2>6, <3>1, Zenon
  <2> QED BY <2>3, <2>4, <2>5, <2>6, Zenon
<1>9. /\ reset => o_rsp_stb' /\ o_rsp_word' = EX!RSP_RESET
      /\ ~reset /\ err => o_rsp_stb'
      /\ ~reset /\ ~err /\ o_wb_cyc => (o_rsp_stb' <=> ack)
      /\ ~reset /\ ~err /\ ~o_wb_cyc => (o_rsp_stb' <=> newaddr)
      /\ o_rsp_stb' \in BOOLEAN
  <2>1. newaddr \in BOOLEAN /\ ack \in BOOLEAN
    BY <1>3 DEF Flags
  <2>2. \/ reset /\ o_rsp_stb' = TRUE /\ o_rsp_word' = EX!RSP_RESET
        \/ ~reset /\ err /\ o_rsp_stb' = TRUE
        \/ ~reset /\ ~err /\ o_wb_cyc /\ o_rsp_stb' = ack
        \/ ~reset /\ ~err /\ ~o_wb_cyc /\ o_rsp_stb' = newaddr
    BY <1>2, Zenon DEF EX!Respond
  <2>3. CASE reset /\ o_rsp_stb' = TRUE /\ o_rsp_word' = EX!RSP_RESET
    BY <2>3, Zenon
  <2>4. CASE ~reset /\ err /\ o_rsp_stb' = TRUE
    BY <2>4, Zenon
  <2>5. CASE ~reset /\ ~err /\ o_wb_cyc /\ o_rsp_stb' = ack
    BY <2>1, <2>5, Zenon
  <2>6. CASE ~reset /\ ~err /\ ~o_wb_cyc /\ o_rsp_stb' = newaddr
    BY <2>1, <2>6, Zenon
  <2> QED BY <2>2, <2>3, <2>4, <2>5, <2>6
<1>10. o_wb_stb => o_wb_cyc /\ taken = EX!NoReq
  BY DEF Shake
<1>11. held.sub \in {"REQ", "NONE"} /\ (held.sub = "NONE" => held = EX!NoReq)
       /\ (o_wb_cyc /\ ~(o_wb_stb /\ stall) => held.sub = "REQ")
       /\ (~o_wb_cyc => held = taken) /\ (o_wb_stb /\ stall => held = EX!NoReq)
  BY <1>4, <1>10 DEF Shake, Flags
<1>12. late' \in 0 .. Linger
  BY <1>5, Constants DEF Flags
<1>13. o_wb_stb' => o_wb_cyc' /\ taken' = EX!NoReq
  BY <1>3, <1>4, <1>5, <1>7, <1>8, <1>10, <1>11 DEF Flags
<1>14. o_wb_cyc' /\ ~o_wb_stb' => taken'.sub = "REQ"
  BY <1>3, <1>5, <1>7, <1>8, <1>10, <1>11 DEF Flags
<1>15. newaddr' => ~o_wb_cyc' /\ taken' = EX!NoReq
  BY <1>5, <1>6, <1>7, <1>8, <1>10, <1>11 DEF Flags
<1>16. taken'.sub \in {"REQ", "NONE"} /\ (taken'.sub = "NONE" => taken' = EX!NoReq)
  BY <1>4, <1>5, <1>11
<1>17. Shake'
  <2>1. EX!NoReq' = EX!NoReq
    BY DEF EX!NoReq
  <2> QED BY <1>13, <1>14, <1>15, <1>16, <2>1 DEF Shake
<1>18. ~o_wb_cyc /\ taken = EX!NoReq /\ ~stb => ~o_wb_cyc' /\ taken' = EX!NoReq
  BY <1>5, <1>7, <1>8, <1>10, <1>11 DEF Flags
<1>19. ~o_wb_cyc' /\ taken' # EX!NoReq =>
          \/ ~o_wb_cyc /\ taken # EX!NoReq /\ late > 1 /\ late' = late - 1
          \/ reset /\ o_wb_cyc /\ late' = Linger
  <2> SUFFICES ASSUME ~o_wb_cyc', taken' # EX!NoReq
               PROVE  \/ ~o_wb_cyc /\ taken # EX!NoReq /\ late > 1 /\ late' = late - 1
                      \/ reset /\ o_wb_cyc /\ late' = Linger
    OBVIOUS
  <2>1. ~answered /\ ~ack /\ ~err /\ taken' = held
    BY <1>3, <1>5
  <2>2. CASE o_wb_cyc
    BY <1>3, <1>5, <1>8, <1>10, <1>11, <2>1, <2>2 DEF Flags
  <2>3. CASE ~o_wb_cyc
    BY <1>5, <1>11, <2>1, <2>3, Constants DEF Flags
  <2> QED BY <2>2, <2>3 DEF Flags
<1>20. ~reset /\ o_rsp_stb' =>
          \/ o_wb_cyc /\ ~o_wb_cyc' /\ taken' = EX!NoReq /\ ~newaddr'
          \/ newaddr /\ ~o_wb_cyc /\ taken = EX!NoReq
          \/ ~o_wb_cyc /\ taken # EX!NoReq /\ taken' = EX!NoReq
  <2> SUFFICES ASSUME ~reset, o_rsp_stb'
               PROVE  \/ o_wb_cyc /\ ~o_wb_cyc' /\ taken' = EX!NoReq /\ ~newaddr'
                      \/ newaddr /\ ~o_wb_cyc /\ taken = EX!NoReq
                      \/ ~o_wb_cyc /\ taken # EX!NoReq /\ taken' = EX!NoReq
    OBVIOUS
  <2>1. CASE o_wb_cyc
    <3>1. answered /\ taken' = EX!NoReq
      BY <1>3, <1>5, <1>9, <2>1
    <3>2. ~o_wb_cyc'
      <4>1. o_wb_stb /\ stall => FALSE
        BY <1>3, <1>4, <1>11, <3>1
      <4> QED BY <1>3, <1>8, <2>1, <3>1, <4>1 DEF Flags
    <3> QED BY <1>6, <2>1, <3>1, <3>2
  <2>2. CASE ~o_wb_cyc
    <3>1. CASE err
      BY <1>3, <1>4, <1>5, <1>11, <2>2, <3>1
    <3>2. CASE ~err
      BY <1>3, <1>9, <2>2, <3>2 DEF Shake
    <3> QED BY <1>3, <3>1, <3>2
  <2> QED BY <2>1, <2>2 DEF Flags
<1>21. o_wb_cyc' /\ ~o_wb_cyc => stb
  BY <1>7, <1>8, <1>10 DEF Flags
<1>22. newaddr' \in BOOLEAN /\ (newaddr' => stb) /\ (reset => ~newaddr' /\ ~o_wb_cyc')
  BY <1>6, <1>8
<1> QED BY <1>8, <1>9, <1>12, <1>17, <1>18, <1>19, <1>20, <1>21, <1>22

\* What one clock does to the characters on their way.
LEMMA LineStep ==
    ASSUME Flags, Next
    PROVE  /\ \/ rx_stb' /\ gap = 0 /\ gap' = CharTime - 1
              \/ ~rx_stb' /\ gap > 0 /\ gap' = gap - 1
              \/ ~rx_stb' /\ gap = 0 /\ gap' = 0
           /\ rx_stb' \in BOOLEAN /\ o_reset' \in BOOLEAN /\ o_dh_stb' \in BOOLEAN
           /\ cmd_loaded' \in BOOLEAN /\ o_pck_stb' \in BOOLEAN
           /\ (o_reset' => rx_stb) /\ (o_dh_stb' => rx_stb)
           /\ o_pck_stb' => ~o_reset /\ o_dh_stb /\ cmd_loaded
           /\ cmd_loaded' => ~o_reset /\ (cmd_loaded \/ o_dh_stb)
<1>1. /\ \/ rx_stb' /\ gap = 0 /\ gap' = CharTime - 1
         \/ ~rx_stb' /\ gap > 0 /\ gap' = gap - 1
         \/ ~rx_stb' /\ gap = 0 /\ gap' = 0
      /\ rx_stb' \in BOOLEAN
  BY DEF Next, Type
<1>2. o_reset' = (rx_stb /\ rx_byte = "T") /\ o_dh_stb' = (rx_stb /\ rx_byte # DEL)
  BY DEF Next, DechexTick
<1>3. /\ o_reset' \in BOOLEAN /\ o_dh_stb' \in BOOLEAN
      /\ (o_reset' => rx_stb) /\ (o_dh_stb' => rx_stb)
  BY <1>2, Zenon
<1>4. cmd_loaded \in BOOLEAN
  BY DEF Flags
<1>5. PackTick(o_reset, o_dh_stb, o_dh_bits)
  BY DEF Next
<1>6. /\ cmd_loaded' \in BOOLEAN /\ o_pck_stb' \in BOOLEAN
      /\ o_pck_stb' => ~o_reset /\ o_dh_stb /\ cmd_loaded
      /\ cmd_loaded' => ~o_reset /\ (cmd_loaded \/ o_dh_stb)
  <2>1. CASE o_reset /\ PackReset
    BY <2>1, Zenon DEF PackReset
  <2>2. CASE ~o_reset /\ o_dh_stb /\ o_dh_bits \notin Nibble /\ EndOfWord(o_dh_bits)
    <3>1. /\ cmd_loaded' = (o_dh_bits \in {"R", "W", "A", "S"})
          /\ o_pck_stb' = cmd_loaded
      BY <2>2, Zenon DEF EndOfWord
    <3>2. cmd_loaded' \in BOOLEAN
      <4>1. (o_dh_bits \in {"R", "W", "A", "S"}) \in BOOLEAN
        OBVIOUS
      <4> QED BY <3>1, <4>1
    <3>3. o_pck_stb' \in BOOLEAN /\ (o_pck_stb' => cmd_loaded)
      BY <1>4, <3>1, Zenon
    <3> QED BY <2>2, <3>2, <3>3, Zenon
  <2>3. CASE ~o_reset /\ o_dh_stb /\ o_dh_bits \in Nibble /\ NextDigit(o_dh_bits)
    BY <1>4, <2>3, Zenon DEF NextDigit
  <2>4. CASE ~o_reset /\ ~o_dh_stb /\ o_pck_stb' = FALSE /\ UNCHANGED <<cmd_loaded, r_cmd, o_pck_word>>
    <3>1. cmd_loaded' = cmd_loaded
      BY <2>4, Zenon
    <3>2. o_pck_stb' = FALSE
      BY <2>4, Zenon
    <3>3. o_pck_stb' \in BOOLEAN /\ ~o_pck_stb'
      BY <3>2
    <3>4. ~o_reset
      BY <2>4, Zenon
    <3>5. cmd_loaded' \in BOOLEAN /\ (cmd_loaded' => cmd_loaded)
      BY <1>4, <3>1, Zenon
    <3> QED BY <3>3, <3>4, <3>5, Zenon
  <2> QED BY <1>5, <2>1, <2>2, <2>3, <2>4, Zenon DEF PackTick
<1> QED BY <1>1, <1>3, <1>6

LEMMA InitTimed == Init => Timed
<1> SUFFICES ASSUME Init PROVE Timed OBVIOUS
<1> USE DEF Init, EX!Init, EX!ExecInit, EX!SlaveInit, DechexInit, PackInit
<1>1. Flags
  <2>1. gap \in 0 .. CharTime - 1 /\ late \in 0 .. Linger /\ busy_for \in 0 .. CharTime
    BY Constants
  <2> QED BY <2>1 DEF Flags
<1>2. taken = EX!NoReq /\ taken.sub = "NONE" /\ ~o_wb_cyc /\ ~o_wb_stb /\ ~newaddr
      /\ ~rx_stb /\ ~o_dh_stb /\ ~o_pck_stb /\ o_rsp_word = EX!RSP_RESET
  BY DEF EX!NoReq
<1>3. Shake /\ Line /\ Clear /\ Slow /\ Quiet
  BY <1>2 DEF Shake, Line, Clear, Abandoned, Slow, Quiet
<1> QED BY <1>1, <1>3 DEF Timed

LEMMA StepTimed == Timed /\ [Next]_vars => Timed'
<1> SUFFICES ASSUME Timed, Next PROVE Timed'
  BY DEF vars, dechex_vars, pack_vars, EX!vars, EX!exec_vars, EX!slave_vars, EX!NoReq, EX!RSP_RESET,
     Timed, Flags, Shake, Line, Clear, Abandoned, Slow, Ahead, Quiet
<1>1. Flags /\ Shake /\ Line /\ Clear /\ Slow /\ Quiet
  BY DEF Timed
<1>2. o_pck_stb => o_wb_cyc \/ taken = EX!NoReq
  BY <1>1 DEF Clear, Abandoned
<1>3. EX!BusClock(o_reset, o_pck_stb, AsNumber(o_pck_word))
  BY DEF Next
<1>4. o_reset \in BOOLEAN /\ o_pck_stb \in BOOLEAN
  BY <1>1 DEF Flags
<1>5. EX!NoReq' = EX!NoReq /\ EX!RSP_RESET' = EX!RSP_RESET
  BY DEF EX!NoReq, EX!RSP_RESET
\* The bus.
<1>6. /\ o_wb_cyc' \in BOOLEAN /\ o_wb_stb' \in BOOLEAN /\ newaddr' \in BOOLEAN
      /\ o_rsp_stb' \in BOOLEAN /\ late' \in 0 .. Linger
      /\ Shake'
  BY <1>1, <1>2, <1>3, <1>4, BusStep
<1>7. /\ o_reset => ~o_wb_cyc' /\ ~newaddr' /\ o_rsp_stb' /\ o_rsp_word' = EX!RSP_RESET
      /\ newaddr' => o_pck_stb
      /\ o_wb_cyc' /\ ~o_wb_cyc => o_pck_stb
      /\ ~o_wb_cyc /\ taken = EX!NoReq /\ ~o_pck_stb => ~o_wb_cyc' /\ taken' = EX!NoReq
  BY <1>1, <1>2, <1>3, <1>4, BusStep
<1>8. ~o_wb_cyc' /\ taken' # EX!NoReq =>
        \/ ~o_wb_cyc /\ taken # EX!NoReq /\ late > 1 /\ late' = late - 1
        \/ o_reset /\ o_wb_cyc /\ late' = Linger
  BY <1>1, <1>2, <1>3, <1>4, BusStep
<1>9. ~o_reset /\ o_rsp_stb' =>
        \/ o_wb_cyc /\ ~o_wb_cyc' /\ taken' = EX!NoReq /\ ~newaddr'
        \/ newaddr /\ ~o_wb_cyc /\ taken = EX!NoReq
        \/ ~o_wb_cyc /\ taken # EX!NoReq /\ taken' = EX!NoReq
  BY <1>1, <1>2, <1>3, <1>4, BusStep
\* The line.
<1>10. /\ \/ rx_stb' /\ gap = 0 /\ gap' = CharTime - 1
          \/ ~rx_stb' /\ gap > 0 /\ gap' = gap - 1
          \/ ~rx_stb' /\ gap = 0 /\ gap' = 0
       /\ rx_stb' \in BOOLEAN /\ o_reset' \in BOOLEAN /\ o_dh_stb' \in BOOLEAN
       /\ cmd_loaded' \in BOOLEAN /\ o_pck_stb' \in BOOLEAN
       /\ (o_reset' => rx_stb) /\ (o_dh_stb' => rx_stb)
       /\ o_pck_stb' => ~o_reset /\ o_dh_stb /\ cmd_loaded
       /\ cmd_loaded' => ~o_reset /\ (cmd_loaded \/ o_dh_stb)
  BY <1>1, LineStep
<1>11. busy_for' = IF ~o_wb_cyc THEN 0
                   ELSE IF busy_for < CharTime THEN busy_for + 1 ELSE CharTime
  BY DEF Next
<1>12. CharTime \in Nat /\ CharTime >= 2 /\ gap \in 0 .. CharTime - 1 /\ late \in 0 .. Linger
       /\ Linger \in Nat /\ Linger <= 2 * CharTime /\ busy_for \in 0 .. CharTime
       /\ o_pck_stb \in BOOLEAN /\ o_dh_stb \in BOOLEAN /\ rx_stb \in BOOLEAN /\ cmd_loaded \in BOOLEAN
       /\ o_reset \in BOOLEAN
  BY <1>1, Constants DEF Flags
<1>13. Flags'
  <2>1. gap' \in 0 .. CharTime - 1
    BY <1>10, <1>12
  <2>2. busy_for' \in 0 .. CharTime
    BY <1>11, <1>12
  <2> QED BY <1>6, <1>10, <2>1, <2>2 DEF Flags
<1>14. Line'
  <2>1. rx_stb' => gap' = CharTime - 1
    BY <1>10
  <2>2. o_dh_stb' => gap' = CharTime - 2 /\ ~rx_stb'
    BY <1>1, <1>10, <1>12 DEF Line
  <2>3. o_pck_stb' => gap' >= CharTime - 3 /\ ~o_dh_stb' /\ (rx_stb' => CharTime = 2)
    BY <1>1, <1>10, <1>12 DEF Line
  <2>4. newaddr' => ~o_pck_stb'
    BY <1>1, <1>7, <1>10 DEF Line
  <2>5. o_reset' => gap' = CharTime - 2 /\ ~rx_stb'
    BY <1>1, <1>10, <1>12 DEF Line
  <2> QED BY <2>1, <2>2, <2>3, <2>4, <2>5 DEF Line
<1>15. Clear'
  <2> SUFFICES ASSUME ~o_wb_cyc', taken' # EX!NoReq
               PROVE  /\ ~o_pck_stb'
                      /\ late' <= IF cmd_loaded'
                                  THEN IF o_dh_stb' THEN 1 ELSE IF rx_stb' THEN 2 ELSE gap' + 3
                                  ELSE IF o_dh_stb' \/ rx_stb' THEN gap' + 3
                                  ELSE gap' + CharTime + 3
    BY <1>5 DEF Clear, Abandoned
  <2>1. CASE o_reset /\ o_wb_cyc /\ late' = Linger
    <3>1. gap = CharTime - 2 /\ ~rx_stb
      BY <1>1, <2>1 DEF Line
    <3>2. ~cmd_loaded' /\ ~o_pck_stb' /\ ~o_dh_stb'
      BY <1>10, <2>1, <3>1
    <3>3. gap' + CharTime + 3 >= Linger /\ (rx_stb' => gap' + 3 >= Linger)
      BY <1>10, <1>12, <3>1
    <3>4. late' <= (IF rx_stb' THEN gap' + 3 ELSE gap' + CharTime + 3)
      BY <2>1, <3>3
    <3> QED BY <3>2, <3>4
  <2>2. CASE ~o_wb_cyc /\ taken # EX!NoReq /\ late > 1 /\ late' = late - 1
    <3>1. /\ ~o_pck_stb
          /\ late <= IF cmd_loaded
                     THEN IF o_dh_stb THEN 1 ELSE IF rx_stb THEN 2 ELSE gap + 3
                     ELSE IF o_dh_stb \/ rx_stb THEN gap + 3 ELSE gap + CharTime + 3
      BY <1>1, <2>2 DEF Clear, Abandoned
    <3>2. ~(cmd_loaded /\ o_dh_stb)
      BY <1>12, <2>2, <3>1
    <3>3. ~o_pck_stb'
      BY <1>10, <3>2
    <3>4. CASE cmd_loaded
      BY <1>1, <1>10, <1>12, <2>2, <3>1, <3>2, <3>4 DEF Line
    <3>5. CASE ~cmd_loaded /\ o_dh_stb
      BY <1>1, <1>10, <1>12, <2>2, <3>1, <3>3, <3>5 DEF Line
    <3>6. CASE ~cmd_loaded /\ ~o_dh_stb /\ rx_stb
      BY <1>1, <1>10, <1>12, <2>2, <3>1, <3>3, <3>6 DEF Line
    <3>7. CASE ~cmd_loaded /\ ~o_dh_stb /\ ~rx_stb
      BY <1>1, <1>10, <1>12, <2>2, <3>1, <3>3, <3>7 DEF Line
    <3> QED BY <1>12, <3>4, <3>5, <3>6, <3>7
  <2> QED BY <1>8, <2>1, <2>2
<1>16. Slow'
  <2> DEFINE ahead == Ahead
  <2> DEFINE soon == Ahead'
  <2>1. ahead = IF o_pck_stb THEN 0 ELSE IF o_dh_stb THEN 1 ELSE IF rx_stb THEN 2 ELSE gap + 3
    BY DEF Ahead
  <2>2. soon = IF o_pck_stb' THEN 0 ELSE IF o_dh_stb' THEN 1 ELSE IF rx_stb' THEN 2 ELSE gap' + 3
    BY DEF Ahead
  <2>3. o_wb_cyc => busy_for + ahead >= CharTime - 1
    BY <1>1 DEF Slow
  <2> HIDE DEF ahead, soon
  <2>4. gap' \in Nat /\ gap \in Nat
    <3>1. gap \in 0 .. CharTime - 1 /\ CharTime \in Nat /\ CharTime >= 2
      BY <1>12
    <3>2. gap \in Nat
      BY <3>1
    <3>3. gap' \in {CharTime - 1, gap - 1, 0} /\ (gap' = gap - 1 => gap > 0 \/ gap' = CharTime - 1 \/ gap' = 0)
      BY <1>10
    <3> QED BY <3>1, <3>2, <3>3
  <2>5. ahead \in Nat /\ soon \in Nat
    <3>1. ahead \in {0, 1, 2, gap + 3} /\ soon \in {0, 1, 2, gap' + 3}
      BY <2>1, <2>2
    <3>2. gap + 3 \in Nat
      BY <2>4
    <3>3. gap' + 3 \in Nat
      <4>1. \A n \in Nat : n + 3 \in Nat
        OBVIOUS
      <4> QED BY <2>4, <4>1, Zenon
    <3> QED BY <3>1, <3>2, <3>3
  <2>6. soon >= ahead - 1
    <3>1. CASE o_pck_stb'
      BY <1>10, <1>12, <2>1, <2>2, <3>1
    <3>2. CASE ~o_pck_stb' /\ o_dh_stb'
      BY <1>10, <1>12, <2>1, <2>2, <3>2
    <3>3. CASE ~o_pck_stb' /\ ~o_dh_stb' /\ rx_stb'
      BY <1>10, <1>12, <2>1, <2>2, <3>3
    <3>4. CASE ~o_pck_stb' /\ ~o_dh_stb' /\ ~rx_stb'
      <4>0. PICK g \in Nat : g = gap'
        BY <2>4
      <4>1. soon = g + 3
        BY <2>2, <3>4, <4>0
      <4>2. g >= gap - 1 /\ gap \in Nat
        BY <1>10, <1>12, <2>4, <3>4, <4>0
      <4>3. ahead <= gap + 3
        <5>1. ahead \in {0, 1, 2, gap + 3}
          BY <2>1
        <5> QED BY <2>4, <5>1
      <4> QED BY <2>5, <4>1, <4>2, <4>3
    <3> QED BY <3>1, <3>2, <3>3, <3>4, Zenon
  <2>7. o_wb_cyc' /\ ~o_wb_cyc => busy_for' + soon >= CharTime - 1
    <3> SUFFICES ASSUME o_wb_cyc', ~o_wb_cyc PROVE busy_for' + soon >= CharTime - 1 OBVIOUS
    <3>1. o_pck_stb /\ busy_for' = 0
      BY <1>7, <1>11
    <3>2. gap >= CharTime - 3 /\ ~o_dh_stb /\ (rx_stb => CharTime = 2) /\ ~o_pck_stb'
      BY <1>1, <1>10, <3>1 DEF Line
    <3>3. soon >= CharTime - 1
      <4>1. CASE o_dh_stb'
        BY <1>10, <1>12, <2>2, <3>2, <4>1
      <4>2. CASE ~o_dh_stb' /\ rx_stb'
        BY <1>10, <1>12, <2>2, <3>2, <4>2
      <4>3. CASE ~o_dh_stb' /\ ~rx_stb'
        BY <1>10, <1>12, <2>2, <3>2, <4>3
      <4> QED BY <1>10, <4>1, <4>2, <4>3
    <3>4. busy_for' + soon >= CharTime - 1
      BY <1>12, <2>5, <3>1, <3>3
    <3> QED BY <3>4
  <2>8. o_wb_cyc => busy_for' + soon >= CharTime - 1
    <3>1. CASE busy_for = CharTime
      BY <1>11, <1>12, <2>5, <3>1
    <3>2. CASE busy_for < CharTime
      BY <1>11, <1>12, <2>3, <2>5, <2>6, <3>2
    <3> QED BY <1>12, <3>1, <3>2
  <2>9. o_wb_cyc' => busy_for' + soon >= CharTime - 1
    BY <2>7, <2>8
  <2> QED BY <2>9 DEF Slow, soon
<1>17. Quiet'
  <2> SUFFICES ASSUME o_rsp_stb', o_rsp_word' # EX!RSP_RESET
               PROVE  ~o_wb_cyc' /\ ~newaddr' /\ taken' = EX!NoReq
    BY <1>5 DEF Quiet
  <2>1. ~o_reset
    BY <1>7
  <2>2. CASE newaddr /\ ~o_wb_cyc /\ taken = EX!NoReq
    BY <1>1, <1>7, <2>2 DEF Line
  <2>3. CASE ~o_wb_cyc /\ taken # EX!NoReq /\ taken' = EX!NoReq
    BY <1>2, <1>7, <2>3
  <2> QED BY <1>9, <2>1, <2>2, <2>3
<1> QED BY <1>6, <1>13, <1>14, <1>15, <1>16, <1>17 DEF Timed

\* The timing of the channel, in every run.
THEOREM Timing == Spec => []Timed
<1> QED BY InitTimed, StepTimed, PTL DEF Spec

\* A late answer to a request that a reset abandoned comes before the next command
\* does, for which two more characters are due (hbexec.v:128-174).
THEOREM Resets == Spec => []ResetOutlastsDevice
<1>1. Timed => ResetOutlastsDevice
  BY DEF Timed, Clear, Abandoned, ResetOutlastsDevice, EX!Arrives
<1> QED BY <1>1, Timing, PTL

\* hbbus.v drops a command (:85, :122) only behind one that the bus has been serving
\* for longer than a character takes.
THEOREM Losses == Spec => []LostOnlyIfSlow
<1>1. Timed => LostOnlyIfSlow
  BY Constants DEF Timed, Flags, Slow, Ahead, LostOnlyIfSlow
<1> QED BY <1>1, Timing, PTL

\* Answers come with a clock between them, so that hbints.v, which has room for one
\* while another leaves, does not drop the second (hbints.v:93, :130).
THEOREM Spacing == Spec => AnswersSpaced
<1>1. Timed /\ [Next]_vars => [o_rsp_stb /\ o_rsp_stb' /\ o_rsp_word # EX!RSP_RESET
                                 => o_rsp_word' = EX!RSP_RESET]_vars
  <2> SUFFICES ASSUME Timed, Next, o_rsp_stb, o_rsp_stb', o_rsp_word # EX!RSP_RESET
               PROVE  o_rsp_word' = EX!RSP_RESET
    OBVIOUS
  <2>1. Flags /\ Shake /\ Quiet /\ Clear
    BY DEF Timed
  <2>2. ~o_wb_cyc /\ ~newaddr /\ taken = EX!NoReq
    BY <2>1 DEF Quiet
  <2>3. EX!BusClock(o_reset, o_pck_stb, AsNumber(o_pck_word))
    BY DEF Next
  <2>4. o_reset \in BOOLEAN /\ o_pck_stb \in BOOLEAN
    BY <2>1 DEF Flags
  <2>5. /\ o_reset => o_rsp_word' = EX!RSP_RESET
        /\ ~o_reset => FALSE
    BY <2>1, <2>2, <2>3, <2>4, BusStep
  <2> QED BY <2>4, <2>5
<1> QED BY <1>1, Timing, PTL DEF Spec, AnswersSpaced

-----------------------------------------------------------------------------
(* What a run of digits is worth.                                             *)

M == 4 * AddrSpace
Step(w, d) == (Base * w + Worth[d]) % M
\* f holds what has been read of ds after each digit.
Upto(f, ds, n) ==
    /\ f \in [0 .. n -> 0 .. M - 1]
    /\ f[0] = 0
    /\ \A k \in 1 .. n : f[k] = Step(f[k - 1], ds[k])
Reads(f, ds) == Upto(f, ds, Len(ds))

LEMMA Sizes ==
    /\ M \in Nat \ {0} /\ Base \in Nat /\ WordLen \in Nat \ {0} /\ "0" \in Nibble
    /\ \A d \in Nibble : Worth[d] \in Nat
    /\ Worth["0"] = 0 /\ 0 \in 0 .. M - 1
<1>1. Base \in Nat
  BY CmdAssumption, FS_CardinalityType DEF Base
<1> QED BY <1>1, CmdAssumption, WordAssumption DEF M

LEMMA StepType ==
    ASSUME NEW w \in 0 .. M - 1, NEW d \in Nibble
    PROVE  Step(w, d) \in 0 .. M - 1 /\ Base * w + Worth[d] \in Nat
<1>1. M \in Nat \ {0} /\ Base \in Nat /\ Worth[d] \in Nat /\ w \in Nat
  BY Sizes
<1>2. Base * w + Worth[d] \in Nat
  BY <1>1
<1> QED BY <1>1, <1>2, ModRange DEF Step

LEMMA Reading == ASSUME NEW ds \in Seq(Nibble) PROVE \E f : Reads(f, ds)
<1> DEFINE L == Len(ds)
<1> DEFINE S == {n \in Nat : n <= L => \E f : Upto(f, ds, n)}
<1>1. L \in Nat /\ \A k \in 1 .. L : ds[k] \in Nibble
  BY LenProperties
<1> HIDE DEF L
<1>2. 0 \in S
  <2> DEFINE f == [k \in 0 .. 0 |-> 0]
  <2>1. Upto(f, ds, 0)
    BY Sizes DEF Upto
  <2> HIDE DEF f
  <2> QED BY <2>1
<1>3. ASSUME NEW n \in S PROVE n + 1 \in S
  <2> SUFFICES ASSUME n + 1 <= L PROVE \E g : Upto(g, ds, n + 1)
    OBVIOUS
  <2>1. PICK f : Upto(f, ds, n)
    BY <1>1
  <2>2. n \in Nat /\ n \in 0 .. n /\ f[n] \in 0 .. M - 1 /\ ds[n + 1] \in Nibble
    BY <1>1, <2>1 DEF Upto
  <2> DEFINE new == Step(f[n], ds[n + 1])
  <2>3. new \in 0 .. M - 1
    BY <2>2, StepType
  <2> DEFINE g == [k \in 0 .. n + 1 |-> IF k = n + 1 THEN new ELSE f[k]]
  <2> HIDE DEF new
  <2>4. g \in [0 .. n + 1 -> 0 .. M - 1]
    BY <2>1, <2>2, <2>3 DEF Upto
  <2>5. g[0] = 0
    BY <2>1, <2>2 DEF Upto
  <2>6. ASSUME NEW k \in 1 .. n + 1 PROVE g[k] = Step(g[k - 1], ds[k])
    <3>1. CASE k = n + 1
      <4>1. g[k] = new /\ g[k - 1] = f[n] /\ k - 1 = n
        BY <2>2, <3>1
      <4> QED BY <3>1, <4>1 DEF new
    <3>2. CASE k # n + 1
      <4>1. k \in 1 .. n /\ g[k] = f[k] /\ g[k - 1] = f[k - 1]
        BY <2>2, <3>2
      <4> QED BY <2>1, <4>1 DEF Upto
    <3> QED BY <3>1, <3>2
  <2>7. Upto(g, ds, n + 1)
    BY <2>4, <2>5, <2>6 DEF Upto
  <2> HIDE DEF g
  <2> QED BY <2>7
<1>4. S = Nat
  <2>1. S \subseteq Nat
    OBVIOUS
  <2> HIDE DEF S
  <2> QED BY <1>2, <1>3, <2>1, Induction
<1>5. L \in S
  <2> HIDE DEF S
  <2> QED BY <1>1, <1>4
<1>6. \E f : Upto(f, ds, L)
  BY <1>1, <1>5
<1> QED BY <1>6 DEF Reads, L

LEMMA ReadsOne ==
    ASSUME NEW ds \in Seq(Nibble), NEW f, NEW g, Reads(f, ds),
           g[0] = 0, \A k \in 1 .. Len(ds) : g[k] = Step(g[k - 1], ds[k])
    PROVE  \A k \in 0 .. Len(ds) : g[k] = f[k]
<1> DEFINE S == {n \in Nat : n <= Len(ds) => g[n] = f[n]}
<1>1. Len(ds) \in Nat
  BY LenProperties
<1>2. 0 \in S
  BY DEF Reads, Upto
<1>3. ASSUME NEW n \in S PROVE n + 1 \in S
  <2> SUFFICES ASSUME n + 1 <= Len(ds) PROVE g[n + 1] = f[n + 1]
    OBVIOUS
  <2>1. n + 1 \in 1 .. Len(ds) /\ n + 1 - 1 = n /\ g[n] = f[n]
    BY <1>1
  <2> QED BY <2>1 DEF Reads, Upto
<1>4. S = Nat
  <2>1. S \subseteq Nat
    OBVIOUS
  <2> HIDE DEF S
  <2> QED BY <1>2, <1>3, <2>1, Induction
<1> QED BY <1>1, <1>4

LEMMA ValueIs ==
    ASSUME NEW ds \in Seq(Nibble), NEW f, Reads(f, ds)
    PROVE  Value(ds) = f[Len(ds)] /\ Value(ds) \in 0 .. M - 1
<1> DEFINE L == Len(ds)
<1> DEFINE Is(g) == g = [n \in 0 .. L |-> IF n = 0 THEN 0
                                          ELSE (Base * g[n - 1] + Worth[ds[n]]) % (4 * AddrSpace)]
<1> DEFINE value == CHOOSE g : Is(g)
<1>1. L \in Nat
  BY LenProperties
<1>2. Value(ds) = value[L]
  BY DEF Value
<1>3. Is(f)
  BY <1>1 DEF Reads, Upto, Step, M
<1>4. Is(value)
  BY <1>3
<1> HIDE DEF value
<1>5. value[0] = 0 /\ \A k \in 1 .. L : value[k] = Step(value[k - 1], ds[k])
  BY <1>1, <1>4 DEF Step, M
<1>6. \A k \in 0 .. L : value[k] = f[k]
  BY <1>5, ReadsOne
<1>7. L \in 0 .. L /\ f[L] \in 0 .. M - 1
  BY <1>1 DEF Reads, Upto
<1> QED BY <1>2, <1>6, <1>7

LEMMA ValueEmpty == Value(<<>>) = 0 /\ <<>> \in Seq(Nibble)
<1>1. <<>> \in Seq(Nibble) /\ Len(<<>>) = 0
  BY EmptySeq
<1>2. PICK f : Reads(f, <<>>)
  BY <1>1, Reading
<1> QED BY <1>1, <1>2, ValueIs DEF Reads, Upto

\* The zeros in an empty register are worth nothing.
LEMMA ValueZeros == Value(Zeros) = 0 /\ Zeros \in Seq(Nibble)
<1>1. WordLen \in Nat /\ Zeros \in [1 .. WordLen -> Nibble]
  BY Sizes DEF Zeros
<1>2. Zeros \in Seq(Nibble) /\ Len(Zeros) = WordLen /\ \A k \in 1 .. WordLen : Zeros[k] = "0"
  BY <1>1, IsASeq, LenProperties DEF Zeros
<1> DEFINE f == [k \in 0 .. WordLen |-> 0]
<1>3. Step(0, "0") = 0
  BY Sizes DEF Step
<1>4. Reads(f, Zeros)
  BY <1>1, <1>2, <1>3, Sizes DEF Reads, Upto
<1>5. f[WordLen] = 0
  BY <1>1
<1> HIDE DEF f
<1> QED BY <1>2, <1>4, <1>5, ValueIs

\* One more digit.
LEMMA ValueAppend ==
    ASSUME NEW ds \in Seq(Nibble), NEW d \in Nibble
    PROVE  Value(Append(ds, d)) = Step(Value(ds), d)
<1> DEFINE L == Len(ds)
<1> DEFINE es == Append(ds, d)
<1>1. /\ es \in Seq(Nibble) /\ Len(es) = L + 1 /\ L \in Nat
      /\ \A k \in 1 .. L : es[k] = ds[k]
      /\ es[L + 1] = d
  BY AppendProperties, LenProperties
<1> HIDE DEF es
<1>2. PICK f : Reads(f, es)
  BY <1>1, Reading
<1> DEFINE g == [k \in 0 .. L |-> f[k]]
<1>3. Reads(g, ds)
  <2>1. g \in [0 .. L -> 0 .. M - 1] /\ g[0] = 0
    BY <1>1, <1>2 DEF Reads, Upto
  <2>2. ASSUME NEW k \in 1 .. L PROVE g[k] = Step(g[k - 1], ds[k])
    <3>1. k \in 1 .. L + 1 /\ g[k] = f[k] /\ g[k - 1] = f[k - 1] /\ es[k] = ds[k]
      BY <1>1
    <3> QED BY <1>1, <1>2, <3>1 DEF Reads, Upto
  <2> QED BY <2>1, <2>2 DEF Reads, Upto
<1>4. g[L] = f[L] /\ L + 1 \in 1 .. L + 1 /\ L + 1 - 1 = L
  BY <1>1
<1> HIDE DEF g
<1>5. Value(ds) = g[L] /\ Value(es) = f[L + 1]
  BY <1>1, <1>2, <1>3, ValueIs
<1>6. f[L + 1] = Step(f[L], d)
  BY <1>1, <1>2, <1>4 DEF Reads, Upto
<1> QED BY <1>4, <1>5, <1>6 DEF es

LEMMA PayloadSeq ==
    ASSUME NEW w \in Payload
    PROVE  w \in Seq(Nibble) /\ Len(w) = WordLen
<1>1. WordLen \in Nat /\ w \in [1 .. WordLen -> Nibble]
  BY Sizes DEF Payload
<1>2. \A k \in 1 .. WordLen : w[k] \in Nibble
  BY <1>1
<1> DEFINE v == [k \in 1 .. WordLen |-> w[k]]
<1>3. v \in Seq(Nibble)
  BY <1>1, <1>2, IsASeq
<1>4. v = w
  BY <1>1
<1> HIDE DEF v
<1>5. w \in Seq(Nibble)
  BY <1>3, <1>4
<1>6. Len(w) \in Nat /\ DOMAIN w = 1 .. Len(w) /\ DOMAIN w = 1 .. WordLen
  BY <1>1, <1>5, LenProperties
<1>7. Len(w) = WordLen
  <2>1. 1 .. Len(w) = 1 .. WordLen
    BY <1>6
  <2>2. CASE Len(w) > WordLen
    BY <1>1, <1>6, <2>1, <2>2
  <2>3. CASE Len(w) < WordLen
    BY <1>1, <1>6, <2>1, <2>3
  <2> QED BY <1>1, <1>6, <2>2, <2>3
<1> QED BY <1>5, <1>7

\* The powers of the base are what they are called.
LEMMA Powers ==
    /\ Power[0] = 1 /\ Power[WordLen] = M
    /\ \A n \in 0 .. WordLen : Power[n] \in Nat
    /\ \A n \in 1 .. WordLen : Power[n] = Base * Power[n - 1]
<1> DEFINE Is(f, N) == f = [n \in 0 .. N |-> IF n = 0 THEN 1 ELSE Base * f[n - 1]]
<1> DEFINE S == {N \in Nat : \E f : Is(f, N)}
<1>1. 0 \in S
  <2> DEFINE f == [n \in 0 .. 0 |-> 1]
  <2>1. Is(f, 0)
    OBVIOUS
  <2> HIDE DEF f
  <2> QED BY <2>1
<1>2. ASSUME NEW N \in S PROVE N + 1 \in S
  <2>1. PICK f : Is(f, N)
    OBVIOUS
  <2>2. N \in Nat
    OBVIOUS
  <2> DEFINE g == [n \in 0 .. N + 1 |-> IF n = N + 1 THEN Base * f[N] ELSE f[n]]
  <2>3. ASSUME NEW n \in 0 .. N + 1 PROVE g[n] = IF n = 0 THEN 1 ELSE Base * g[n - 1]
    <3>1. CASE n = N + 1
      BY <2>2, <3>1
    <3>2. CASE n # N + 1
      <4>1. n \in 0 .. N /\ g[n] = f[n] /\ (n # 0 => g[n - 1] = f[n - 1])
        BY <2>2, <3>2
      <4>2. f[n] = IF n = 0 THEN 1 ELSE Base * f[n - 1]
        BY <2>1, <4>1
      <4> QED BY <4>1, <4>2
    <3> QED BY <3>1, <3>2
  <2>4. Is(g, N + 1)
    <3>1. g = [n \in 0 .. N + 1 |-> g[n]]
      OBVIOUS
    <3> HIDE DEF g
    <3> QED BY <2>3, <3>1
  <2> HIDE DEF g
  <2> QED BY <2>2, <2>4
<1>3. S = Nat
  <2>1. S \subseteq Nat
    OBVIOUS
  <2> HIDE DEF S
  <2> QED BY <1>1, <1>2, <2>1, Induction
<1>4. \E f : Is(f, WordLen)
  <2>1. WordLen \in S
    <3> HIDE DEF S
    <3> QED BY <1>3, Sizes
  <2> QED BY <2>1
<1>5. Is(Power, WordLen)
  BY <1>4, Zenon DEF Power
<1> DEFINE P == {n \in Nat : n <= WordLen => Power[n] \in Nat}
<1>6. WordLen \in Nat /\ Base \in Nat /\ Power[0] = 1
      /\ \A n \in 1 .. WordLen : Power[n] = Base * Power[n - 1]
  BY <1>5, Sizes
<1>7. P = Nat
  <2>1. 0 \in P /\ P \subseteq Nat
    BY <1>6
  <2>2. ASSUME NEW n \in P PROVE n + 1 \in P
    <3> SUFFICES ASSUME n + 1 <= WordLen PROVE Power[n + 1] \in Nat
      OBVIOUS
    <3>1. n + 1 \in 1 .. WordLen /\ n + 1 - 1 = n /\ Power[n] \in Nat
      BY <1>6
    <3> QED BY <1>6, <3>1
  <2> HIDE DEF P
  <2> QED BY <2>1, <2>2, Induction
<1>8. \A n \in 0 .. WordLen : Power[n] \in Nat
  BY <1>6, <1>7
<1> QED BY <1>6, <1>8, CmdAssumption DEF M

LEMMA Early == \A a, x, b \in Nat : (a * (x % M) + b) % M = (a * x + b) % M
<1>1. M \in Nat \ {0}
  BY Sizes
<1> QED BY <1>1, ModEarly

\* A digit shifted in at the bottom of a register is one more digit: the one that
\* is lost at the top is worth a multiple of what the register holds.
LEMMA ValueShift ==
    ASSUME NEW w \in Payload, NEW d \in Nibble
    PROVE  ShiftIn(w, d) \in Payload /\ Value(ShiftIn(w, d)) = Step(Value(w), d)
<1> DEFINE L == WordLen
<1> DEFINE v == ShiftIn(w, d)
<1>1. L \in Nat \ {0} /\ w \in Seq(Nibble) /\ Len(w) = L /\ w # <<>>
  BY Sizes, PayloadSeq, EmptySeq
<1>2. Tail(w) \in Seq(Nibble) /\ Len(Tail(w)) = L - 1 /\ \A k \in 1 .. L - 1 : Tail(w)[k] = w[k + 1]
  BY <1>1, HeadTailProperties
<1>3. /\ v \in Seq(Nibble) /\ Len(v) = L /\ v[L] = d
      /\ \A k \in 1 .. L - 1 : v[k] = w[k + 1]
  BY <1>1, <1>2, AppendProperties DEF ShiftIn
<1>4. v \in Payload
  BY <1>1, <1>3, LenProperties DEF Payload
<1> HIDE DEF v
<1>5. PICK f : Reads(f, w)
  BY <1>1, Reading
<1>6. PICK g : Reads(g, v)
  BY <1>3, Reading
<1>7. Value(w) = f[L] /\ Value(v) = g[L]
  BY <1>1, <1>3, <1>5, <1>6, ValueIs
<1>8. w[1] \in Nibble
  BY <1>1, LenProperties
<1> DEFINE c == Worth[w[1]]
<1>9. c \in Nat /\ M \in Nat \ {0} /\ Base \in Nat
  BY <1>8, Sizes
<1> HIDE DEF c
<1> DEFINE S == {k \in Nat : k <= L - 1 => f[k + 1] = (c * Power[k] + g[k]) % M}
<1>10. 0 \in S
  <2>1. f[1] = Step(f[0], w[1]) /\ f[0] = 0 /\ g[0] = 0
    BY <1>1, <1>3, <1>5, <1>6 DEF Reads, Upto
  <2>2. f[1] = c % M
    BY <1>9, <2>1 DEF Step, c
  <2> QED BY <1>9, <2>1, <2>2, Powers
<1>11. ASSUME NEW k \in S PROVE k + 1 \in S
  <2> SUFFICES ASSUME k + 1 <= L - 1
               PROVE  f[k + 1 + 1] = (c * Power[k + 1] + g[k + 1]) % M
    OBVIOUS
  <2>1. k \in Nat /\ k + 1 \in 1 .. L /\ k + 2 \in 1 .. L /\ k + 1 \in 1 .. L - 1
        /\ k + 2 - 1 = k + 1 /\ k + 1 - 1 = k /\ k + 1 + 1 = k + 2 /\ k \in 0 .. L
    BY <1>1
  <2>2. f[k + 1] = (c * Power[k] + g[k]) % M
    BY <1>1
  <2>3. f[k + 2] = Step(f[k + 1], w[k + 2]) /\ g[k + 1] = Step(g[k], w[k + 2])
        /\ g[k] \in Nat
    BY <1>1, <1>3, <1>5, <1>6, <2>1 DEF Reads, Upto
  <2> DEFINE b == Worth[w[k + 2]]
  <2> DEFINE p == Power[k]
  <2> DEFINE x == g[k]
  <2>4. b \in Nat /\ p \in Nat /\ x \in Nat /\ Power[k + 1] = Base * p
    <3>1. w[k + 2] \in Nibble
      BY <1>1, <2>1, LenProperties
    <3>2. p \in Nat /\ Power[k + 1] = Base * p
      BY <2>1, Powers
    <3> QED BY <2>3, <3>1, <3>2, Sizes
  <2>5. f[k + 2] = (Base * ((c * p + x) % M) + b) % M /\ g[k + 1] = (Base * x + b) % M
    BY <2>2, <2>3 DEF Step
  <2> HIDE DEF b, p, x
  <2>6. (Base * ((c * p + x) % M) + b) % M = (Base * (c * p + x) + b) % M
    <3>1. c * p + x \in Nat
      BY <1>9, <2>4
    <3> QED BY <1>9, <2>4, <3>1, ModEarly
  <2>7. Base * (c * p + x) + b = 1 * (Base * x + b) + c * (Base * p)
    <3>1. Base * (c * p + x) = Base * (c * p) + Base * x
      BY <1>9, <2>4
    <3>2. Base * (c * p) = c * (Base * p)
      BY <1>9, <2>4
    <3> QED BY <1>9, <2>4, <3>1, <3>2
  <2>8. (1 * ((Base * x + b) % M) + c * (Base * p)) % M = (1 * (Base * x + b) + c * (Base * p)) % M
    <3> DEFINE y == Base * x + b
    <3> DEFINE z == c * (Base * p)
    <3>1. y \in Nat /\ z \in Nat /\ 1 \in Nat
      BY <1>9, <2>4
    <3> HIDE DEF y, z
    <3>2. (1 * (y % M) + z) % M = (1 * y + z) % M
      BY <3>1, Early, Zenon
    <3> QED BY <3>2 DEF y, z
  <2>9. 1 * ((Base * x + b) % M) + c * (Base * p) = c * Power[k + 1] + g[k + 1]
    <3>1. (Base * x + b) % M \in Nat
      <4>1. Base * x + b \in Nat
        BY <1>9, <2>4
      <4> QED BY <1>9, <4>1, ModRange
    <3> DEFINE y == (Base * x + b) % M
    <3> HIDE DEF y
    <3>2. c * (Base * p) \in Nat
      BY <1>9, <2>4
    <3>3. 1 * y + c * (Base * p) = c * (Base * p) + y
      BY <3>1, <3>2 DEF y
    <3> QED BY <2>4, <2>5, <3>3 DEF y
  <2> QED BY <2>1, <2>5, <2>6, <2>7, <2>8, <2>9
<1>12. S = Nat
  <2>1. S \subseteq Nat
    OBVIOUS
  <2> HIDE DEF S
  <2> QED BY <1>10, <1>11, <2>1, Induction
<1>13. f[L] = (c * Power[L - 1] + g[L - 1]) % M
  <2>1. L - 1 \in Nat /\ L - 1 + 1 = L
    BY <1>1
  <2> QED BY <1>12, <2>1
<1>14. g[L] = Step(g[L - 1], d) /\ g[L - 1] \in Nat
  BY <1>1, <1>3, <1>6 DEF Reads, Upto
<1>15. Power[L - 1] \in Nat /\ M = Base * Power[L - 1]
  BY <1>1, Powers
<1> DEFINE p == Power[L - 1]
<1> DEFINE x == g[L - 1]
<1> DEFINE b == Worth[d]
<1>16. b \in Nat /\ p \in Nat /\ x \in Nat
  BY <1>14, <1>15, Sizes
<1>17. Step(f[L], d) = (Base * ((c * p + x) % M) + b) % M /\ g[L] = (Base * x + b) % M
  BY <1>13, <1>14 DEF Step
<1> HIDE DEF b, p, x
<1>18. (Base * ((c * p + x) % M) + b) % M = (Base * (c * p + x) + b) % M
  <2> DEFINE y == c * p + x
  <2>1. y \in Nat
    BY <1>9, <1>16
  <2> HIDE DEF y
  <2>2. (Base * (y % M) + b) % M = (Base * y + b) % M
    BY <1>9, <1>16, <2>1, Early, Zenon
  <2> QED BY <2>2 DEF y
<1>19. Base * (c * p + x) + b = M * c + (Base * x + b)
  <2>1. Base * (c * p + x) = Base * (c * p) + Base * x
    BY <1>9, <1>16
  <2>2. Base * (c * p) = (Base * p) * c
    BY <1>9, <1>16
  <2>3. Base * p = M
    BY <1>15 DEF p
  <2>4. M * c \in Nat /\ Base * x \in Nat
    BY <1>9, <1>16
  <2> QED BY <1>16, <2>1, <2>2, <2>3, <2>4
<1>20. (M * c + (Base * x + b)) % M = (Base * x + b) % M
  <2>1. Base * x + b \in Nat
    BY <1>9, <1>16
  <2> QED BY <1>9, <2>1, ModMore
<1>21. g[L] = Step(f[L], d)
  BY <1>17, <1>18, <1>19, <1>20
<1> QED BY <1>4, <1>7, <1>21 DEF v

-----------------------------------------------------------------------------
(* What was typed and what is on its way to the bus.                          *)

\* The types of what is on its way.
Codes == Nibble \cup CommandLetter \cup {"T", "OTHER"}
Parts ==
    /\ o_dh_bits \in Codes /\ letter \in Codes \ Nibble
    /\ r_cmd \in Command /\ o_pck_word \in Command
    /\ digits \in Seq(Nibble) /\ Len(digits) <= MaxDigits
    /\ rx_stb /\ rx_byte \in Nibble => Len(digits) < MaxDigits

\* The register of hbpack.v holds a command with this letter and these digits.
Packed(l, ds) ==
    /\ cmd_loaded = (l \in {"R", "W", "A", "S"})
    /\ cmd_loaded => r_cmd.sub = CmdSub(l) /\ Value(r_cmd.word) = Value(ds)

\* A command leaves that register; one has left it and goes to hbexec.v.
Goes == o_dh_stb /\ ~o_reset /\ o_dh_bits \notin Nibble /\ cmd_loaded /\ r_cmd.sub # "SPECIAL"
Comes == o_pck_stb /\ o_pck_word.sub # "SPECIAL"

\* The register is as far as what was typed, or one code behind.
Behind ==
    /\ o_reset => ~o_pck_stb /\ ~rx_stb /\ letter = "OTHER" /\ digits = <<>>
    /\ ~o_dh_stb /\ ~o_reset => Packed(letter, digits)
    /\ o_dh_stb /\ ~o_reset /\ o_dh_bits \in Nibble =>
         \E ds \in Seq(Nibble) : digits = Append(ds, o_dh_bits) /\ Packed(letter, ds)
    /\ o_dh_stb /\ ~o_reset /\ o_dh_bits \notin Nibble => letter = o_dh_bits /\ digits = <<>>

\* The command that was typed in full is the one that is on its way.
Kept == promised = IF Goes THEN <<AsNumber(r_cmd)>>
                   ELSE IF Comes THEN <<AsNumber(o_pck_word)>> ELSE <<>>

Parsed == Parts /\ Behind /\ Kept

LEMMA InitParsed == Init => Parsed
<1> SUFFICES ASSUME Init PROVE Parsed OBVIOUS
<1>1. /\ o_reset = TRUE /\ o_dh_stb = FALSE /\ o_dh_bits = "OTHER"
      /\ cmd_loaded = FALSE /\ o_pck_stb = FALSE /\ r_cmd = Empty /\ o_pck_word = Empty
      /\ rx_stb = FALSE /\ letter = "OTHER" /\ digits = <<>> /\ promised = <<>>
  BY DEF Init, DechexInit, PackInit
<1>2. Empty \in Command
  <2>1. Zeros \in Payload
    BY Sizes DEF Zeros, Payload
  <2> QED BY <2>1 DEF Empty, Command
<1>3. "OTHER" \in Codes \ Nibble
  <2>1. "OTHER" \notin Nibble
    BY DigitAssumption
  <2> QED BY <2>1 DEF Codes
<1>4. Parts
  BY <1>1, <1>2, <1>3, ValueEmpty, EmptySeq, CmdAssumption DEF Parts
<1>5. Behind
  BY <1>1 DEF Behind
<1>6. Kept
  BY <1>1 DEF Kept, Goes, Comes
<1> QED BY <1>4, <1>5, <1>6 DEF Parsed

\* What one clock does to hbdechex.v and to what was typed.
LEMMA Typing ==
    ASSUME Flags, Line, Parsed, Next
    PROVE  /\ o_reset' = (rx_stb /\ rx_byte = "T") /\ o_dh_stb' = (rx_stb /\ rx_byte # DEL)
           /\ o_dh_bits' = Code(rx_byte)
           /\ rx_stb' => ~rx_stb
           /\ rx_stb' /\ rx_byte' \in Nibble => Len(digits) < MaxDigits
           /\ \/ /\ ~rx_stb \/ rx_byte = DEL
                 /\ letter' = letter /\ digits' = digits
              \/ /\ rx_stb /\ rx_byte = "T"
                 /\ letter' = "OTHER" /\ digits' = <<>>
              \/ /\ rx_stb /\ rx_byte \in Nibble
                 /\ letter' = letter /\ digits' = Append(digits, rx_byte)
              \/ /\ rx_stb /\ rx_byte \notin Nibble \cup {"T", DEL}
                 /\ letter' = Code(rx_byte) /\ digits' = <<>>
<1>1. DechexTick(rx_stb, rx_byte) /\ Type /\ Meaning
  BY DEF Next
<1>2. /\ o_reset' = (rx_stb /\ rx_byte = "T") /\ o_dh_stb' = (rx_stb /\ rx_byte # DEL)
      /\ o_dh_bits' = Code(rx_byte)
  BY <1>1, Zenon DEF DechexTick
<1>3. rx_stb' => gap = 0 /\ (rx_byte' \in Nibble => Len(digits) < MaxDigits)
  BY <1>1 DEF Type
<1>4. rx_stb' => ~rx_stb
  BY <1>3, Constants DEF Line
<1>5. \/ /\ ~rx_stb \/ rx_byte = DEL
         /\ letter' = letter /\ digits' = digits
      \/ /\ rx_stb /\ rx_byte = "T"
         /\ letter' = "OTHER" /\ digits' = <<>>
      \/ /\ rx_stb /\ rx_byte \in Nibble
         /\ letter' = letter /\ digits' = Append(digits, rx_byte)
      \/ /\ rx_stb /\ rx_byte \notin Nibble \cup {"T", DEL}
         /\ letter' = Code(rx_byte) /\ digits' = <<>>
  BY <1>1 DEF Meaning
<1> QED BY <1>2, <1>3, <1>4, <1>5, Zenon

LEMMA StepParts == ASSUME Flags, Line, Parsed, Next PROVE Parts'
<1>1. Parts
  BY DEF Parsed
<1>2. Code(rx_byte) \in Codes /\ (rx_byte \notin Nibble => Code(rx_byte) \in Codes \ Nibble)
      /\ "OTHER" \in Codes \ Nibble
  <2>1. "OTHER" \notin Nibble
    BY DigitAssumption
  <2> QED BY <2>1 DEF Code, Codes
<1>3. o_dh_bits' \in Codes /\ letter' \in Codes \ Nibble
  BY <1>1, <1>2, Typing DEF Parts
<1>4. r_cmd' \in Command /\ o_pck_word' \in Command
  <2>1. PackTick(o_reset, o_dh_stb, o_dh_bits)
    BY DEF Next
  <2>2. r_cmd \in Command /\ o_pck_word \in Command /\ Zeros \in Payload
    BY <1>1, Sizes DEF Parts, Zeros, Payload
  <2>3. CASE o_reset /\ PackReset
    BY <2>2, <2>3 DEF PackReset, Empty, Command
  <2>4. CASE ~o_reset /\ o_dh_stb /\ o_dh_bits \notin Nibble /\ EndOfWord(o_dh_bits)
    <3>1. r_cmd' = [sub |-> CmdSub(o_dh_bits), word |-> Zeros] /\ o_pck_word' = r_cmd
      BY <2>4 DEF EndOfWord
    <3>2. CmdSub(o_dh_bits) \in {"RD", "WR", "ADDR", "SPECIAL"}
      <4>1. o_dh_bits \in {"R", "W", "A", "S", "T", "OTHER"}
        BY <1>1, <2>4 DEF Parts, Codes, CommandLetter
      <4> QED BY <4>1 DEF CmdSub
    <3> QED BY <2>2, <3>1, <3>2 DEF Command
  <2>5. CASE ~o_reset /\ o_dh_stb /\ o_dh_bits \in Nibble /\ NextDigit(o_dh_bits)
    <3>1. r_cmd' = [r_cmd EXCEPT !.word = ShiftIn(r_cmd.word, o_dh_bits)] /\ o_pck_word' = r_cmd
      BY <2>5 DEF NextDigit
    <3>2. r_cmd.word \in Payload
      BY <2>2 DEF Command
    <3>3. ShiftIn(r_cmd.word, o_dh_bits) \in Payload
      BY <2>5, <3>2, ValueShift
    <3> QED BY <2>2, <3>1, <3>3 DEF Command
  <2>6. CASE ~o_reset /\ ~o_dh_stb /\ o_pck_stb' = FALSE /\ UNCHANGED <<cmd_loaded, r_cmd, o_pck_word>>
    BY <2>2, <2>6
  <2> QED BY <2>1, <2>3, <2>4, <2>5, <2>6 DEF PackTick
<1>5. digits' \in Seq(Nibble) /\ Len(digits') <= MaxDigits
      /\ (rx_stb' /\ rx_byte' \in Nibble => Len(digits') < MaxDigits)
  <2>1. digits \in Seq(Nibble) /\ Len(digits) \in Nat /\ Len(digits) <= MaxDigits
        /\ <<>> \in Seq(Nibble) /\ Len(<<>>) = 0 /\ MaxDigits \in Nat
    BY <1>1, EmptySeq, LenProperties, CmdAssumption DEF Parts
  <2>2. rx_stb' => digits' = digits
    BY Typing, Zenon
  <2>3. CASE digits' = digits
    BY <2>1, <2>3, Typing
  <2>4. CASE ~rx_stb' /\ digits' = <<>>
    BY <2>1, <2>4
  <2>5. CASE ~rx_stb' /\ rx_stb /\ rx_byte \in Nibble /\ digits' = Append(digits, rx_byte)
    <3>1. Len(digits) < MaxDigits
      BY <1>1, <2>5 DEF Parts
    <3>2. Append(digits, rx_byte) \in Seq(Nibble) /\ Len(Append(digits, rx_byte)) = Len(digits) + 1
      BY <2>1, <2>5, AppendProperties
    <3> QED BY <2>1, <2>5, <3>1, <3>2
  <2> QED BY <2>2, <2>3, <2>4, <2>5, Typing, Zenon
<1> QED BY <1>3, <1>4, <1>5 DEF Parts

\* What one clock does to hbpack.v, in terms of what its register holds.
LEMMA Packing ==
    ASSUME Flags, Parsed, Next
    PROVE  /\ o_reset => cmd_loaded' = FALSE /\ o_pck_stb' = FALSE
           /\ ~o_reset /\ o_dh_stb /\ o_dh_bits \notin Nibble =>
                /\ cmd_loaded' = (o_dh_bits \in {"R", "W", "A", "S"})
                /\ o_pck_stb' = cmd_loaded /\ o_pck_word' = r_cmd
                /\ r_cmd' = [sub |-> CmdSub(o_dh_bits), word |-> Zeros]
           /\ ~o_reset /\ o_dh_stb /\ o_dh_bits \in Nibble =>
                /\ cmd_loaded' = cmd_loaded /\ o_pck_stb' = FALSE
                /\ r_cmd'.sub = r_cmd.sub /\ Value(r_cmd'.word) = Step(Value(r_cmd.word), o_dh_bits)
           /\ ~o_reset /\ ~o_dh_stb =>
                cmd_loaded' = cmd_loaded /\ r_cmd' = r_cmd /\ o_pck_stb' = FALSE
<1>1. PackTick(o_reset, o_dh_stb, o_dh_bits)
  BY DEF Next
<1>2. r_cmd \in Command /\ r_cmd.word \in Payload
  BY DEF Parsed, Parts, Command
<1>3. o_reset => cmd_loaded' = FALSE /\ o_pck_stb' = FALSE
  BY <1>1, Zenon DEF PackTick, PackReset
<1>4. ~o_reset /\ o_dh_stb /\ o_dh_bits \notin Nibble => EndOfWord(o_dh_bits)
  BY <1>1, Zenon DEF PackTick
<1>5. ~o_reset /\ o_dh_stb /\ o_dh_bits \in Nibble => NextDigit(o_dh_bits)
  BY <1>1, Zenon DEF PackTick
<1>6. ASSUME o_dh_bits \in Nibble, NextDigit(o_dh_bits)
      PROVE  /\ cmd_loaded' = cmd_loaded /\ o_pck_stb' = FALSE
             /\ r_cmd'.sub = r_cmd.sub /\ Value(r_cmd'.word) = Step(Value(r_cmd.word), o_dh_bits)
  <2>1. r_cmd' = [r_cmd EXCEPT !.word = ShiftIn(r_cmd.word, o_dh_bits)]
    BY <1>6, Zenon DEF NextDigit
  <2>2. r_cmd'.sub = r_cmd.sub /\ r_cmd'.word = ShiftIn(r_cmd.word, o_dh_bits)
    BY <1>2, <2>1 DEF Command
  <2>3. Value(ShiftIn(r_cmd.word, o_dh_bits)) = Step(Value(r_cmd.word), o_dh_bits)
    BY <1>2, <1>6, ValueShift
  <2>4. cmd_loaded' = cmd_loaded /\ o_pck_stb' = FALSE
    BY <1>6, Zenon DEF NextDigit
  <2> QED BY <2>2, <2>3, <2>4, Zenon
<1>7. ~o_reset /\ ~o_dh_stb =>
        cmd_loaded' = cmd_loaded /\ r_cmd' = r_cmd /\ o_pck_stb' = FALSE
  <2> SUFFICES ASSUME ~o_reset, ~o_dh_stb
               PROVE  cmd_loaded' = cmd_loaded /\ r_cmd' = r_cmd /\ o_pck_stb' = FALSE
    OBVIOUS
  <2>1. UNCHANGED <<cmd_loaded, r_cmd, o_pck_word>> /\ o_pck_stb' = FALSE
    BY <1>1, Zenon DEF PackTick
  <2> QED BY <2>1, Zenon
<1>8. EndOfWord(o_dh_bits) =>
        /\ cmd_loaded' = (o_dh_bits \in {"R", "W", "A", "S"})
        /\ o_pck_stb' = cmd_loaded /\ o_pck_word' = r_cmd
        /\ r_cmd' = [sub |-> CmdSub(o_dh_bits), word |-> Zeros]
  BY Zenon DEF EndOfWord
<1> QED BY <1>3, <1>4, <1>5, <1>6, <1>7, <1>8, Zenon

LEMMA StepBehind == ASSUME Flags, Line, Parsed, Next PROVE Behind'
<1>1. Parts /\ Behind
  BY DEF Parsed
<1>2. digits \in Seq(Nibble)
  BY <1>1 DEF Parts
\* What hbpack.v is told makes good what it was behind.
<1>3. o_reset => cmd_loaded' = FALSE /\ letter = "OTHER" /\ digits = <<>>
  BY <1>1, <1>2, Packing, Zenon DEF Behind
<1>4. o_dh_stb /\ ~o_reset /\ o_dh_bits \notin Nibble =>
        /\ cmd_loaded' = (letter \in {"R", "W", "A", "S"})
        /\ r_cmd' = [sub |-> CmdSub(letter), word |-> Zeros] /\ digits = <<>>
  BY <1>1, <1>2, Packing, Zenon DEF Behind
<1>5. Packed(letter, digits)'  <=>
        /\ cmd_loaded' = (letter' \in {"R", "W", "A", "S"})
        /\ cmd_loaded' => r_cmd'.sub = CmdSub(letter') /\ Value(r_cmd'.word) = Value(digits')
  BY DEF Packed
<1> DEFINE now == /\ cmd_loaded' = (letter \in {"R", "W", "A", "S"})
                  /\ cmd_loaded' => r_cmd'.sub = CmdSub(letter) /\ Value(r_cmd'.word) = Value(digits)
<1>6. now
  <2>1. CASE o_reset
    <3>1. (letter \in {"R", "W", "A", "S"}) = FALSE
      BY <1>3, <2>1
    <3> QED BY <1>3, <2>1, <3>1, Zenon
  <2>2. CASE o_dh_stb /\ ~o_reset /\ o_dh_bits \notin Nibble
    <3>1. r_cmd'.sub = CmdSub(letter) /\ r_cmd'.word = Zeros
      BY <1>4, <2>2
    <3>2. Value(Zeros) = Value(digits)
      BY <1>4, <2>2, ValueEmpty, ValueZeros
    <3> QED BY <1>4, <2>2, <3>1, <3>2, Zenon
  <2>3. CASE o_dh_stb /\ ~o_reset /\ o_dh_bits \in Nibble
    <3>1. PICK ds \in Seq(Nibble) : digits = Append(ds, o_dh_bits) /\ Packed(letter, ds)
      BY <1>1, <2>3 DEF Behind
    <3>2. Value(digits) = Step(Value(ds), o_dh_bits)
      BY <2>3, <3>1, ValueAppend
    <3>3. /\ cmd_loaded' = cmd_loaded
          /\ r_cmd'.sub = r_cmd.sub /\ Value(r_cmd'.word) = Step(Value(r_cmd.word), o_dh_bits)
      BY <2>3, <3>1, Packing, Zenon
    <3> QED BY <3>1, <3>2, <3>3, Zenon DEF Packed
  <2>4. CASE ~o_dh_stb /\ ~o_reset
    <3>1. Packed(letter, digits)
      BY <1>1, <2>4 DEF Behind
    <3>2. cmd_loaded' = cmd_loaded /\ r_cmd' = r_cmd
      BY <1>2, <2>4, Packing, Zenon
    <3> QED BY <3>1, <3>2, Zenon DEF Packed
  <2> QED BY <2>1, <2>2, <2>3, <2>4, Zenon
\* What is typed now is what hbpack.v is behind next.
<1>7. o_reset' => ~o_pck_stb' /\ ~rx_stb' /\ letter' = "OTHER" /\ digits' = <<>>
  <2> SUFFICES ASSUME o_reset'
               PROVE  ~o_pck_stb' /\ ~rx_stb' /\ letter' = "OTHER" /\ digits' = <<>>
    OBVIOUS
  <2>1. rx_stb /\ rx_byte = "T"
    BY Typing, Zenon
  <2>2. ~o_dh_stb /\ ~o_reset
    BY <1>1, <2>1 DEF Line, Behind
  <2>3. ~o_pck_stb'
    BY <1>2, <2>2, Packing, Zenon
  <2>4. "T" \notin Nibble /\ "T" # DEL
    BY DigitAssumption DEF Letter, DEL
  <2>5. ~rx_stb' /\ letter' = "OTHER" /\ digits' = <<>>
    BY <2>1, <2>4, Typing
  <2> QED BY <2>3, <2>5
<1>8. ~o_dh_stb' /\ ~o_reset' => Packed(letter, digits)'
  <2> SUFFICES ASSUME ~o_dh_stb', ~o_reset' PROVE Packed(letter, digits)'
    OBVIOUS
  <2>1. ~rx_stb \/ rx_byte = DEL
    BY Typing, Zenon
  <2>2. DEL \notin Nibble /\ DEL # "T"
    BY DigitAssumption DEF DEL
  <2>3. letter' = letter /\ digits' = digits
    BY <2>1, <2>2, Typing
  <2> QED BY <1>5, <1>6, <2>3, Zenon
<1>9. o_dh_stb' /\ ~o_reset' /\ o_dh_bits' \in Nibble =>
        \E ds \in Seq(Nibble) : digits' = Append(ds, o_dh_bits') /\ Packed(letter, ds)'
  <2> SUFFICES ASSUME o_dh_stb', ~o_reset', o_dh_bits' \in Nibble
               PROVE  /\ digits' = Append(digits, o_dh_bits')
                      /\ cmd_loaded' = (letter' \in {"R", "W", "A", "S"})
                      /\ cmd_loaded' => r_cmd'.sub = CmdSub(letter') /\ Value(r_cmd'.word) = Value(digits)
    BY <1>2 DEF Packed
  <2>1. rx_stb /\ rx_byte # "T" /\ rx_byte # DEL /\ o_dh_bits' = Code(rx_byte)
    BY Typing, Zenon
  <2>2. rx_byte \in Nibble /\ o_dh_bits' = rx_byte
    <3>1. "OTHER" \notin Nibble
      BY DigitAssumption
    <3> QED BY <2>1, <3>1 DEF Code
  <2>3. letter' = letter /\ digits' = Append(digits, rx_byte)
    BY <2>1, <2>2, Typing
  <2> QED BY <1>6, <2>2, <2>3, Zenon
<1>10. o_dh_stb' /\ ~o_reset' /\ o_dh_bits' \notin Nibble => letter' = o_dh_bits' /\ digits' = <<>>
  <2> SUFFICES ASSUME o_dh_stb', ~o_reset', o_dh_bits' \notin Nibble
               PROVE  letter' = o_dh_bits' /\ digits' = <<>>
    OBVIOUS
  <2>1. rx_stb /\ rx_byte # "T" /\ rx_byte # DEL /\ o_dh_bits' = Code(rx_byte)
    BY Typing, Zenon
  <2>2. rx_byte \notin Nibble
    BY <2>1 DEF Code
  <2> QED BY <2>1, <2>2, Typing
<1> QED BY <1>7, <1>8, <1>9, <1>10 DEF Behind

LEMMA StepKept == ASSUME Flags, Line, Parsed, Next PROVE Kept'
<1>1. Parts /\ Behind /\ Kept
  BY DEF Parsed
<1> DEFINE pending == IF Comes /\ promised # <<>> THEN Tail(promised) ELSE promised
<1>2. pending = IF Goes THEN <<AsNumber(r_cmd)>> ELSE <<>>
  <2>1. CASE Goes
    <3>1. ~Comes
      BY <2>1 DEF Goes, Comes, Line
    <3> QED BY <1>1, <2>1, <3>1 DEF Kept
  <2>2. CASE ~Goes /\ Comes
    <3>1. promised = <<AsNumber(o_pck_word)>>
      BY <1>1, <2>2 DEF Kept
    <3>2. promised # <<>> /\ Tail(promised) = <<>>
      BY <3>1
    <3> QED BY <2>2, <3>2
  <2>3. CASE ~Goes /\ ~Comes
    BY <1>1, <2>3 DEF Kept
  <2> QED BY <2>1, <2>2, <2>3
<1>3. \/ /\ ~rx_stb \/ rx_byte = DEL
         /\ promised' = pending
      \/ /\ rx_stb /\ rx_byte = "T"
         /\ promised' = <<>>
      \/ /\ rx_stb /\ rx_byte \in Nibble
         /\ promised' = pending
      \/ /\ rx_stb /\ rx_byte \notin Nibble \cup {"T", DEL}
         /\ promised' = IF letter \in {"R", "W", "A"} THEN Append(pending, Typed) ELSE pending
  <2>1. Meaning
    BY DEF Next
  <2> QED BY <2>1 DEF Meaning, Comes
<1> HIDE DEF pending
<1>4. Kept' <=> promised' = IF Goes' THEN <<AsNumber(r_cmd')>>
                            ELSE IF Comes' THEN <<AsNumber(o_pck_word')>> ELSE <<>>
  BY DEF Kept, AsNumber, Value
\* What hbpack.v hands over is what went.
<1>5. Goes => Comes' /\ o_pck_word' = r_cmd
  BY Packing, Zenon DEF Goes, Comes
<1>6. ~Goes => ~Comes'
  <2> SUFFICES ASSUME ~Goes, Comes' PROVE FALSE
    OBVIOUS
  <2>1. o_pck_stb' /\ o_pck_word'.sub # "SPECIAL"
    BY Zenon DEF Comes
  <2>2. ~o_reset /\ o_dh_stb /\ o_dh_bits \notin Nibble
    BY <2>1, Packing DEF Flags
  <2>3. cmd_loaded /\ o_pck_word' = r_cmd
    BY <2>1, <2>2, Packing, Zenon
  <2> QED BY <2>1, <2>2, <2>3 DEF Goes
<1>7. CASE (~rx_stb \/ rx_byte = DEL) /\ promised' = pending
  <2>1. ~o_dh_stb'
    BY <1>7, Typing, Zenon
  <2>2. ~Goes'
    BY <2>1, Zenon DEF Goes
  <2>3. CASE Goes
    BY <1>2, <1>4, <1>5, <1>7, <2>2, <2>3, Zenon
  <2>4. CASE ~Goes
    BY <1>2, <1>4, <1>6, <1>7, <2>2, <2>4, Zenon
  <2> QED BY <2>3, <2>4
<1>8. rx_stb => ~Goes /\ ~Comes' /\ pending = <<>> /\ ~o_dh_stb /\ ~o_reset
  BY <1>1, <1>2, <1>6 DEF Line, Goes, Behind
<1>9. CASE rx_stb /\ rx_byte = "T" /\ promised' = <<>>
  <2>1. o_reset'
    BY <1>9, Typing, Zenon
  <2>2. ~Goes'
    BY <2>1, Zenon DEF Goes
  <2> QED BY <1>4, <1>8, <1>9, <2>2, Zenon
<1>10. CASE rx_stb /\ rx_byte \in Nibble /\ promised' = pending
  <2>1. o_dh_bits' \in Nibble
    BY <1>10, Typing DEF Code
  <2>2. ~Goes'
    BY <2>1, Zenon DEF Goes
  <2> QED BY <1>4, <1>8, <1>10, <2>2, Zenon
<1>11. CASE /\ rx_stb /\ rx_byte \notin Nibble \cup {"T", DEL}
            /\ promised' = IF letter \in {"R", "W", "A"} THEN Append(pending, Typed) ELSE pending
  <2>1. o_dh_stb' /\ ~o_reset' /\ o_dh_bits' = Code(rx_byte)
    BY <1>11, Typing
  <2>2. o_dh_bits' \notin Nibble
    <3>1. "OTHER" \notin Nibble
      BY DigitAssumption
    <3> QED BY <1>11, <2>1, <3>1 DEF Code
  <2>3. cmd_loaded' = cmd_loaded /\ r_cmd' = r_cmd
    BY <1>8, <1>11, Packing, Zenon
  <2>4. Goes' <=> cmd_loaded /\ r_cmd.sub # "SPECIAL"
    BY <2>1, <2>2, <2>3, Zenon DEF Goes
  <2>5. Packed(letter, digits)
    BY <1>1, <1>8, <1>11 DEF Behind
  <2>6. CASE letter \in {"R", "W", "A"}
    <3>1. cmd_loaded /\ r_cmd.sub = CmdSub(letter) /\ Value(r_cmd.word) = Value(digits)
      BY <2>5, <2>6 DEF Packed
    <3>2. CmdSub(letter) # "SPECIAL"
      BY <2>6 DEF CmdSub
    <3>3. Goes' /\ AsNumber(r_cmd') = Typed
      BY <2>3, <2>4, <3>1, <3>2 DEF AsNumber, Typed
    <3>4. promised' = Append(<<>>, Typed)
      BY <1>8, <1>11, <2>6
    <3>5. Append(<<>>, Typed) = <<Typed>>
      OBVIOUS
    <3> QED BY <1>4, <3>3, <3>4, <3>5, Zenon
  <2>7. CASE letter \notin {"R", "W", "A"}
    <3>1. cmd_loaded => letter = "S" /\ r_cmd.sub = CmdSub(letter)
      BY <2>5, <2>7 DEF Packed
    <3>2. CmdSub("S") = "SPECIAL"
      BY DEF CmdSub
    <3>3. ~Goes'
      BY <2>4, <3>1, <3>2
    <3> QED BY <1>4, <1>8, <1>11, <2>7, <3>3
  <2> QED BY <2>6, <2>7
<1> QED BY <1>3, <1>7, <1>9, <1>10, <1>11, Zenon

\* The timing and the contents of the command channel, in every run.
THEOREM Contents == Spec => [](Timed /\ Parsed)
<1>1. Init => Timed /\ Parsed
  BY InitTimed, InitParsed
<1>2. Timed /\ Parsed /\ [Next]_vars => (Timed /\ Parsed)'
  <2>1. ASSUME Timed, Parsed, Next PROVE (Timed /\ Parsed)'
    <3>1. Flags /\ Line
      BY <2>1 DEF Timed
    <3>2. Parts' /\ Behind' /\ Kept'
      BY <2>1, <3>1, StepParts, StepBehind, StepKept
    <3>3. Timed'
      BY <2>1, StepTimed
    <3> QED BY <3>2, <3>3 DEF Parsed
  <2>2. ASSUME Timed, Parsed, UNCHANGED vars PROVE (Timed /\ Parsed)'
    <3>1. Timed'
      BY <2>2, StepTimed
    <3>2. /\ rx_stb' = rx_stb /\ rx_byte' = rx_byte /\ letter' = letter /\ digits' = digits
          /\ promised' = promised
          /\ o_reset' = o_reset /\ o_dh_stb' = o_dh_stb /\ o_dh_bits' = o_dh_bits
          /\ cmd_loaded' = cmd_loaded /\ o_pck_stb' = o_pck_stb /\ r_cmd' = r_cmd
          /\ o_pck_word' = o_pck_word
      BY <2>2 DEF vars, dechex_vars, pack_vars
    <3>3. Parts'
      BY <2>2, <3>2 DEF Parsed, Parts
    <3>4. Behind'
      BY <2>2, <3>2, Zenon DEF Parsed, Behind, Packed
    <3>5. Kept'
      BY <2>2, <3>2, Zenon DEF Parsed, Kept, Goes, Comes
    <3> QED BY <3>1, <3>3, <3>4, <3>5 DEF Parsed
  <2> QED BY <2>1, <2>2
<1> QED BY <1>1, <1>2, PTL DEF Spec

\* hbpack.v hands over the commands that were typed, whatever the number of digits.
THEOREM Commands == Spec => []CommandsAsTyped
<1>1. Timed /\ Parsed => CommandsAsTyped
  <2> SUFFICES ASSUME Timed, Parsed, Comes
               PROVE  promised # <<>> /\ AsNumber(o_pck_word) = Head(promised)
    BY DEF CommandsAsTyped, Comes
  <2>1. ~Goes
    BY DEF Timed, Line, Goes, Comes
  <2>2. promised = <<AsNumber(o_pck_word)>>
    BY <2>1 DEF Parsed, Kept
  <2> QED BY <2>2
<1> QED BY <1>1, Contents, PTL

-----------------------------------------------------------------------------
(* The types of the bus, for any command whose number fits its register.      *)

LEMMA BusConstants ==
    /\ AddrSpace \in Nat \ {0} /\ EX!Addr = 0 .. AddrSpace - 1 /\ EX!Word = 0 .. M - 1
    /\ Mapped \subseteq EX!Addr /\ PowerUp \subseteq EX!Word
    /\ Linger \in Nat /\ MaxWait \in Nat /\ 0 \in EX!Word /\ 0 \in EX!Addr
BY CmdAssumption DEF EX!Addr, EX!Word, M

LEMMA Addresses ==
    /\ \A a \in EX!Addr, i \in BOOLEAN : EX!Bump(a, i) \in EX!Addr /\ EX!RspAddr(a, i) \in EX!Response
    /\ \A a \in EX!Addr, w \in EX!Word : EX!Target(w, a) \in EX!Addr
<1>1. ASSUME NEW a \in EX!Addr, NEW i \in BOOLEAN PROVE EX!Bump(a, i) \in EX!Addr
  <2>1. a + (IF i THEN 1 ELSE 0) \in Nat
    BY BusConstants
  <2> QED BY <2>1, BusConstants, ModRange DEF EX!Bump
<1>2. ASSUME NEW a \in EX!Addr, NEW i \in BOOLEAN PROVE EX!RspAddr(a, i) \in EX!Response
  <2>1. 4 * a + (IF i THEN 0 ELSE 1) \in EX!Word
    BY BusConstants DEF M
  <2> QED BY <2>1 DEF EX!RspAddr, EX!Response, EX!RspSub
<1>3. ASSUME NEW a \in EX!Addr, NEW w \in EX!Word PROVE EX!Target(w, a) \in EX!Addr
  <2>1. w \in Nat /\ w \div 4 \in Nat
    BY BusConstants, Sizes
  <2>2. EX!WordAddr(w) + (IF EX!IsDiff(w) THEN a ELSE 0) \in Nat
    BY <2>1, BusConstants DEF EX!WordAddr
  <2> QED BY <2>2, BusConstants, ModRange DEF EX!Target
<1> QED BY <1>1, <1>2, <1>3

LEMMA BusTypes ==
    ASSUME EX!TypeOK, NEW reset \in BOOLEAN, NEW stb \in BOOLEAN, NEW cmd, cmd.word \in EX!Word,
           EX!BusClock(reset, stb, cmd)
    PROVE  EX!TypeOK'
<1> USE DEF EX!TypeOK, EX!ExecTypeOK
<1>1. PICK stall \in BOOLEAN, answer \in BOOLEAN :
         /\ EX!SlaveTick(stall, answer)
         /\ EX!ExecTick(reset, stb, cmd, stall, EX!Ack(stall, answer),
                        EX!Err(stall, answer), EX!ReadData(stall, answer))
  BY DEF EX!BusClock
<1> DEFINE ack == EX!Ack(stall, answer)
           err == EX!Err(stall, answer)
           data == EX!ReadData(stall, answer)
<1>2. EX!NoReq \in EX!Request /\ EX!OnBus \in EX!Request
  BY BusConstants DEF EX!NoReq, EX!OnBus, EX!Request
<1>3. EX!Held(stall) \in EX!Request
  BY <1>2 DEF EX!Held
<1>4. ack \in BOOLEAN /\ err \in BOOLEAN
  BY DEF EX!Ack, EX!Err, EX!Answers
<1>5. data \in EX!Word
  BY BusConstants DEF EX!ReadData, EX!Ack
<1>6. o_wb_cyc' \in BOOLEAN /\ o_wb_stb' \in BOOLEAN
  <2> HIDE DEF ack, err
  <2>1. EX!CycStb(reset, stb, cmd, stall, ack, err)
    BY <1>1 DEF EX!ExecTick, ack, err
  <2> QED BY <2>1, <1>4 DEF EX!CycStb, EX!CmdBus
<1>7. o_wb_we' \in BOOLEAN
  BY <1>1 DEF EX!ExecTick, EX!WriteEnable, EX!CmdWr
<1>8. o_wb_addr' \in EX!Addr /\ inc' \in BOOLEAN /\ newaddr' \in BOOLEAN
  BY <1>1, Addresses DEF EX!ExecTick, EX!Address, EX!IsHold
<1>9. o_wb_data' \in EX!Word
  BY <1>1 DEF EX!ExecTick, EX!WriteData
<1>10. o_rsp_stb' \in BOOLEAN /\ o_rsp_word' \in EX!Response
  <2> HIDE DEF ack, err, data
  <2>1. EX!Respond(reset, ack, err, data)
    BY <1>1 DEF EX!ExecTick, ack, err, data
  <2>2. EX!RspAddr(o_wb_addr, inc) \in EX!Response
    BY Addresses
  <2>3. {EX!RSP_RESET, EX!RSP_BUS_ERROR, EX!RSP_WRITE_ACKNOWLEDGEMENT, EX!RspData(data)}
            \subseteq EX!Response
    BY <1>5, BusConstants
       DEF EX!RSP_RESET, EX!RSP_BUS_ERROR, EX!RSP_WRITE_ACKNOWLEDGEMENT, EX!RspData,
           EX!Response, EX!RspSub
  <2> QED BY <2>1, <2>2, <2>3, <1>4 DEF EX!Respond
<1>11. mem' \in [Mapped -> EX!Word]
  BY <1>1 DEF EX!SlaveTick
<1>12. taken' \in EX!Request
  BY <1>1, <1>2, <1>3 DEF EX!SlaveTick
<1>13. late' \in 0 .. Linger
  BY <1>1, BusConstants DEF EX!SlaveTick
<1>14. waited' \in 0 .. MaxWait
  BY <1>1, BusConstants DEF EX!SlaveTick
<1>15. /\ EX!Addr' = EX!Addr /\ EX!Word' = EX!Word
  BY DEF EX!Addr, EX!Word
<1> QED
  BY <1>6, <1>7, <1>8, <1>9, <1>10, <1>11, <1>12, <1>13, <1>14, <1>15
     DEF EX!Response, EX!Request, EX!Addr, EX!Word

\* Every register of the command channel and of the bus keeps its range.
THEOREM Types == Spec => []TypeOK
<1>1. Init => EX!TypeOK
  <2> SUFFICES ASSUME Init PROVE EX!TypeOK OBVIOUS
  <2> USE DEF Init, EX!Init
  <2>1. EX!NoReq \in EX!Request
    BY BusConstants DEF EX!NoReq, EX!Request
  <2>2. EX!RSP_RESET \in EX!Response
    BY BusConstants DEF EX!RSP_RESET, EX!Response, EX!RspSub
  <2>3. EX!ExecTypeOK
    BY <2>2 DEF EX!ExecInit, EX!ExecTypeOK
  <2>4. mem \in [Mapped -> EX!Word]
    BY BusConstants DEF EX!SlaveInit
  <2>5. taken \in EX!Request /\ late \in 0 .. Linger /\ waited \in 0 .. MaxWait
    BY <2>1, BusConstants DEF EX!SlaveInit
  <2> QED BY <2>3, <2>4, <2>5 DEF EX!TypeOK
<1>2. EX!TypeOK /\ Timed /\ Parsed /\ [Next]_vars => EX!TypeOK'
  <2>1. ASSUME EX!TypeOK, Timed, Parsed, Next PROVE EX!TypeOK'
    <3>1. o_reset \in BOOLEAN /\ o_pck_stb \in BOOLEAN
      BY <2>1 DEF Timed, Flags
    <3>2. o_pck_word.word \in Payload
      BY <2>1 DEF Parsed, Parts, Command
    <3>3. Value(o_pck_word.word) \in 0 .. M - 1
      <4>1. o_pck_word.word \in Seq(Nibble)
        BY <3>2, PayloadSeq
      <4> QED BY <4>1, Reading, ValueIs
    <3>4. AsNumber(o_pck_word).word \in EX!Word
      BY <3>3, BusConstants DEF AsNumber
    <3>5. EX!BusClock(o_reset, o_pck_stb, AsNumber(o_pck_word))
      BY <2>1 DEF Next
    <3> QED BY <2>1, <3>1, <3>4, <3>5, BusTypes
  <2>2. ASSUME EX!TypeOK, UNCHANGED vars PROVE EX!TypeOK'
    BY <2>2 DEF vars, EX!vars, EX!exec_vars, EX!slave_vars, EX!TypeOK, EX!ExecTypeOK,
                EX!Response, EX!Request, EX!Addr, EX!Word
  <2> QED BY <2>1, <2>2
<1>3. EX!TypeOK /\ Timed /\ Parsed => TypeOK
  BY DEF Timed, Flags, Parsed, Parts, Codes, TypeOK, DechexTypeOK, PackTypeOK
<1> QED BY <1>1, <1>2, <1>3, Contents, PTL DEF Spec
=============================================================================

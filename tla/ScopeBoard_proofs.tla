--------------------------- MODULE ScopeBoard_proofs ---------------------------
(* Proofs about the scope and the programs that use it, for every memory size, *)
(* every holdoff, one clock or two, and every drift between the two.          *)
EXTENDS ScopeBoard, DataLemmas

\* The flags that a step reads are Boolean, and a request writes Boolean ones.
FlagsOK ==
    /\ sync \in BOOLEAN
    /\ {br_reset, br_disable, br_level_interrupt} \subseteq BOOLEAN
    /\ {dr_stopped, dr_triggered, r_reset_complete} \subseteq BOOLEAN
    /\ {q_reset_complete, qq_reset_complete} \subseteq BOOLEAN
    /\ {q_iflags.reset, r_iflags.reset} \subseteq BOOLEAN
    /\ {q_oflags.stopped, r_oflags.stopped} \subseteq BOOLEAN
    /\ request \in Writes \cup {NoRequest, ReadControl, ReadData}

\* A request to reset goes round a ring of six registers, three of each clock: up
\* they go one after another, and then down.
Ring ==
    IF sync THEN ~r_reset_complete /\ ~qq_reset_complete
    ELSE IF br_reset
    THEN /\ qq_reset_complete => q_reset_complete
         /\ q_reset_complete => r_reset_complete
         /\ r_reset_complete => r_iflags.reset
         /\ r_iflags.reset => q_iflags.reset
    ELSE /\ q_iflags.reset => r_iflags.reset
         /\ r_iflags.reset => r_reset_complete
         /\ r_reset_complete => q_reset_complete
         /\ q_reset_complete => qq_reset_complete

\* A capture that has not begun yet is still being asked for, or about to begin.
Asked == superseded => br_reset \/ (~sync /\ r_iflags.reset)

\* That the capture has stopped is seen later by each register on the way to the bus,
\* never together with the end of a reset, and stays seen until the next reset.
Seen ==
    /\ dr_stopped => dr_triggered /\ ~r_reset_complete
    /\ ~sync =>
        /\ q_oflags.stopped => ~q_reset_complete
        /\ r_oflags.stopped => ~qq_reset_complete
        /\ ~br_reset => /\ r_oflags.stopped => q_oflags.stopped
                        /\ q_oflags.stopped => dr_stopped

\* A capture that has rung as often as it may is remembered as such until it is cleared,
\* or its trigger is enabled once more.
Spent == br_disable \/ br_level_interrupt
Rung ==
    /\ rung \in Nat /\ enabled \in Nat /\ rung <= enabled + 1
    /\ rung = enabled + 1 => IF br_reset THEN bw_status.stopped => Spent
                             ELSE bw_status.stopped /\ Spent

IInv == FlagsOK /\ Ring /\ Asked /\ Seen /\ Rung

-----------------------------------------------------------------------------
(* What one edge of each clock does to the invariant.                         *)

LEMMA RequestType ==
    ASSUME NEW req \in Writes \cup {NoRequest, ReadControl, ReadData}
    PROVE  WritingControl(req) => req.reset \in BOOLEAN /\ req.disable \in BOOLEAN
<1>1. NoRequest.we = FALSE /\ ReadControl.we = FALSE /\ ReadData.we = FALSE
  BY DEF NoRequest, ReadControl, ReadData
<1>2. req \in {NoRequest, ReadControl, ReadData} => ~WritingControl(req)
  BY <1>1, Zenon DEF WritingControl
<1> QED BY <1>2, BoardAssumption

LEMMA InitIInv == Init => IInv
<1> SUFFICES ASSUME Init PROVE IInv OBVIOUS
<1> USE DEF Init, ScopeInit, NoFlags, NoStatus
<1>1. sync \in BOOLEAN
  BY BoardAssumption
<1>2. FlagsOK
  BY <1>1 DEF FlagsOK
<1>3. Ring /\ Asked /\ Seen /\ Rung
  BY DEF Ring, Asked, Seen, Rung
<1> QED BY <1>2, <1>3 DEF IInv

\* What an edge of the data clock does to the flags.
DataFlags ==
    /\ dr_triggered' \in BOOLEAN
    /\ dr_stopped' = (dr_triggered /\ ~dw_flags.reset /\ (dr_stopped \/ counter >= br_holdoff))
    /\ ~dw_flags.reset /\ dr_triggered => dr_triggered'
    /\ IF sync THEN UNCHANGED <<q_iflags, r_iflags, r_reset_complete>>
       ELSE /\ q_iflags'.reset = br_reset /\ r_iflags'.reset = q_iflags.reset
            /\ r_reset_complete' = r_iflags.reset

LEMMA DataEdgeFlags ==
    ASSUME IInv, NEW i_ce \in BOOLEAN, NEW i_trigger \in BOOLEAN,
           DataTick(i_ce, i_trigger, beat)
    PROVE  DataFlags
<1>1. Triggered(i_ce, i_trigger) /\ Stopped
  BY DEF DataTick
<1>2. dr_triggered \in BOOLEAN
  BY DEF IInv, FlagsOK
<1>3. dr_triggered' \in BOOLEAN /\ (~dw_flags.reset /\ dr_triggered => dr_triggered')
  BY <1>1, <1>2 DEF Triggered
<1>4. IF sync THEN UNCHANGED <<q_iflags, r_iflags, r_reset_complete>>
      ELSE /\ q_iflags'.reset = br_reset /\ r_iflags'.reset = q_iflags.reset
           /\ r_reset_complete' = r_iflags.reset
  BY DEF DataTick, bw_flags, dw_flags
<1> QED BY <1>1, <1>3, <1>4 DEF DataFlags, Stopped

\* What an edge of the bus clock does to them.
BusFlags(req) ==
    /\ br_reset' = (~bw_reset_complete /\ (br_reset \/ (WritingControl(req) /\ req.reset)))
    /\ br_disable' = IF WritingControl(req) THEN req.disable ELSE br_disable
    /\ br_level_interrupt' = (~bw_reset_complete /\ ~br_reset
                                 /\ bw_status.stopped /\ ~br_disable)
    /\ IF sync THEN UNCHANGED <<q_reset_complete, qq_reset_complete, q_oflags, r_oflags>>
       ELSE /\ q_reset_complete' = r_reset_complete
            /\ qq_reset_complete' = q_reset_complete
            /\ q_oflags'.stopped = (~br_reset /\ dr_stopped)
            /\ r_oflags'.stopped = (~br_reset /\ q_oflags.stopped)

LEMMA BusEdgeFlags ==
    ASSUME IInv, NEW req \in Writes \cup {NoRequest, ReadControl, ReadData},
           BusTick(req, beat)
    PROVE  BusFlags(req)
<1>1. Config(req) /\ LevelInterrupt
  BY DEF BusTick
<1>2. IF sync THEN UNCHANGED <<q_reset_complete, qq_reset_complete, q_oflags, r_oflags>>
      ELSE /\ q_reset_complete' = r_reset_complete
           /\ qq_reset_complete' = q_reset_complete
           /\ q_oflags'.stopped = (~br_reset /\ dr_stopped)
           /\ r_oflags'.stopped = (~br_reset /\ q_oflags.stopped)
  <2>1. CASE sync
    BY <2>1 DEF BusTick
  <2>2. CASE ~sync /\ br_reset
    <3>1. NoStatus.stopped = FALSE
      BY DEF NoStatus
    <3>2. q_oflags' = NoStatus /\ r_oflags' = NoStatus
          /\ q_reset_complete' = r_reset_complete /\ qq_reset_complete' = q_reset_complete
      BY <2>2 DEF BusTick
    <3> QED BY <2>2, <3>1, <3>2
  <2>3. CASE ~sync /\ ~br_reset
    BY <2>3 DEF BusTick, dr_status, IInv, FlagsOK
  <2> QED BY <2>1, <2>2, <2>3 DEF IInv, FlagsOK
<1> QED BY <1>1, <1>2 DEF BusFlags, Config, LevelInterrupt

\* What an edge of the bus clock does to the count of interrupts.
LEMMA RungStep ==
    ASSUME IInv, NEW req \in Writes \cup {NoRequest, ReadControl, ReadData},
           BusEdge(req), BusFlags(req), bw_status.stopped \in BOOLEAN,
           br_reset /\ br_reset' => ~bw_status'.stopped,
           ~br_reset /\ bw_status.stopped => bw_status'.stopped /\ ~bw_reset_complete
    PROVE  Rung'
<1>1. /\ rung \in Nat /\ enabled \in Nat /\ rung <= enabled + 1
      /\ rung = enabled + 1 => IF br_reset THEN bw_status.stopped => Spent
                               ELSE bw_status.stopped /\ Spent
  BY DEF IInv, Rung
<1>2. o_interrupt => bw_status.stopped /\ ~Spent
  BY DEF o_interrupt, Spent
<1>3. CASE br_reset /\ ~br_reset'
  BY <1>3 DEF BusEdge, Rung
<1>4. CASE ~(br_reset /\ ~br_reset')
  <2>1. /\ rung' = IF o_interrupt THEN rung + 1 ELSE rung
        /\ enabled' = IF Enables(req) THEN enabled + 1 ELSE enabled
    BY <1>4 DEF BusEdge
  <2>2. o_interrupt => rung <= enabled
    <3>1. o_interrupt => rung # enabled + 1
      BY <1>1, <1>2
    <3> QED BY <1>1, <3>1
  <2>3. rung' \in Nat /\ enabled' \in Nat /\ rung' <= enabled' + 1
        /\ (rung' = enabled' + 1 => ~Enables(req) /\ (o_interrupt \/ rung = enabled + 1))
    BY <1>1, <2>1, <2>2
  <2>4. CASE br_reset
    BY <1>4, <2>3, <2>4 DEF Rung
  <2>5. CASE ~br_reset
    <3> SUFFICES ASSUME rung' = enabled' + 1
                 PROVE  bw_status'.stopped /\ (br_disable' \/ br_level_interrupt')
      BY <2>3 DEF Rung, Spent
    <3>1. bw_status.stopped /\ bw_status'.stopped /\ ~bw_reset_complete
      BY <1>1, <1>2, <2>3, <2>5
    <3>2. br_disable => br_disable'
      <4>1. ~Enables(req)
        BY <2>3
      <4>2. WritingControl(req) => req.disable \in BOOLEAN
        BY RequestType
      <4> QED BY <3>1, <4>1, <4>2 DEF Enables, BusFlags
    <3>3. ~br_disable => br_level_interrupt'
      BY <2>5, <3>1, Zenon DEF BusFlags
    <3> QED BY <3>1, <3>2, <3>3
  <2> QED BY <2>4, <2>5
<1> QED BY <1>3, <1>4

\* The bus clock ticks alone.
LEMMA StepBus ==
    ASSUME IInv, NEW req \in {NoRequest, request}, BusClock(req), UNCHANGED sync
    PROVE  IInv'
<1> USE DEF IInv, FlagsOK
<1>1. req \in Writes \cup {NoRequest, ReadControl, ReadData}
  OBVIOUS
<1>2. BusFlags(req)
  BY <1>1, BusEdgeFlags DEF BusClock, BusEdge
<1>3. WritingControl(req) => req.reset \in BOOLEAN /\ req.disable \in BOOLEAN
  BY <1>1, RequestType
<1>4. ~sync /\ ~sync' /\ bw_reset_complete = qq_reset_complete
      /\ bw_status.stopped = r_oflags.stopped /\ bw_status'.stopped = r_oflags'.stopped
  BY DEF BusClock, bw_reset_complete, bw_status
<1>5. UNCHANGED data_vars
  BY DEF BusClock
<1>6. request' \in Writes \cup {NoRequest, ReadControl, ReadData}
  BY DEF BusClock, BusEdge, Master, Answered
<1>7. br_reset' \in BOOLEAN /\ br_disable' \in BOOLEAN /\ br_level_interrupt' \in BOOLEAN
  BY <1>2, <1>3, <1>4 DEF BusFlags
<1>8. FlagsOK'
  BY <1>2, <1>4, <1>5, <1>6, <1>7 DEF BusFlags, data_vars
<1>9. Ring'
  BY <1>2, <1>3, <1>4, <1>5 DEF BusFlags, Ring, data_vars
<1>10. Asked'
  <2>1. superseded' => superseded \/ AskReset(req)
    BY DEF BusClock
  <2>2. AskReset(req) => WritingControl(req) /\ req.reset /\ (br_reset \/ ~qq_reset_complete)
    BY <1>4 DEF AskReset
  <2>3. br_reset /\ qq_reset_complete => r_iflags.reset
    BY <1>4 DEF Ring
  <2>4. superseded' => br_reset' \/ r_iflags.reset
    BY <1>2, <1>3, <1>4, <2>1, <2>2, <2>3 DEF Asked, BusFlags
  <2> QED BY <1>4, <1>5, <2>4 DEF Asked, data_vars
<1>11. Seen'
  BY <1>2, <1>3, <1>4, <1>5 DEF BusFlags, Seen, Ring, data_vars
<1>12. Rung'
  <2>1. br_reset /\ br_reset' => ~r_oflags'.stopped
    BY <1>2, <1>4 DEF BusFlags
  <2>2. ~br_reset /\ r_oflags.stopped => r_oflags'.stopped /\ ~qq_reset_complete
    BY <1>2, <1>4 DEF BusFlags, Seen
  <2> QED BY <1>1, <1>2, <1>4, <2>1, <2>2, RungStep DEF BusClock
<1> QED BY <1>8, <1>9, <1>10, <1>11, <1>12

\* The data clock ticks alone.
LEMMA StepData ==
    ASSUME IInv, NEW i_ce \in BOOLEAN, NEW i_trigger \in BOOLEAN,
           DataClock(i_ce, i_trigger), UNCHANGED sync
    PROVE  IInv'
<1> USE DEF IInv, FlagsOK
<1>1. DataFlags
  BY DataEdgeFlags DEF DataClock, DataEdge
<1>2. ~sync /\ ~sync' /\ dw_flags.reset = r_iflags.reset
      /\ bw_status.stopped = r_oflags.stopped /\ bw_status'.stopped = r_oflags'.stopped
  BY DEF DataClock, dw_flags, bw_status
<1>3. UNCHANGED bus_vars /\ UNCHANGED request /\ UNCHANGED ring_vars
  BY DEF DataClock, tool_vars
<1>4. dr_stopped' \in BOOLEAN
  BY <1>1, Zenon DEF DataFlags
<1>5. FlagsOK'
  BY <1>1, <1>2, <1>3, <1>4 DEF DataFlags, bus_vars
<1>6. Ring'
  BY <1>1, <1>2, <1>3 DEF DataFlags, Ring, bus_vars
<1>7. Asked'
  <2>1. superseded' => superseded /\ ~r_iflags.reset
    BY <1>2 DEF DataClock, Superseded
  <2>2. superseded' => br_reset'
    BY <1>2, <1>3, <2>1 DEF Asked, bus_vars
  <2> QED BY <2>2 DEF Asked
<1>8. Seen'
  <2>1. dr_stopped' => dr_triggered' /\ ~r_reset_complete'
    BY <1>1, <1>2 DEF DataFlags
  <2>2. ~br_reset /\ dr_stopped => dr_stopped'
    BY <1>1, <1>2 DEF DataFlags, Seen, Ring
  <2> QED BY <1>2, <1>3, <2>1, <2>2 DEF Seen, bus_vars
<1>9. Rung'
  BY <1>2, <1>3 DEF Rung, Spent, bus_vars, ring_vars
<1> QED BY <1>5, <1>6, <1>7, <1>8, <1>9

\* Both are one.
LEMMA StepOne ==
    ASSUME IInv, NEW req \in {NoRequest, request}, NEW i_ce \in BOOLEAN,
           NEW i_trigger \in BOOLEAN, OneClock(req, i_ce, i_trigger), UNCHANGED sync
    PROVE  IInv'
<1> USE DEF IInv, FlagsOK
<1>1. req \in Writes \cup {NoRequest, ReadControl, ReadData}
  OBVIOUS
<1>2. BusFlags(req) /\ DataFlags
  BY <1>1, BusEdgeFlags, DataEdgeFlags DEF OneClock, BusEdge, DataEdge
<1>3. WritingControl(req) => req.reset \in BOOLEAN /\ req.disable \in BOOLEAN
  BY <1>1, RequestType
<1>4. sync /\ sync' /\ bw_reset_complete = br_reset /\ dw_flags.reset = br_reset
      /\ bw_status.stopped = dr_stopped /\ bw_status'.stopped = dr_stopped'
  BY DEF OneClock, bw_reset_complete, dw_flags, bw_flags, bw_status, dr_status
<1>5. request' \in Writes \cup {NoRequest, ReadControl, ReadData}
  BY DEF OneClock, BusEdge, Master, Answered
<1>6. dr_stopped' \in BOOLEAN
  BY <1>2, Zenon DEF DataFlags
<1>7. FlagsOK'
  BY <1>2, <1>3, <1>4, <1>5, <1>6 DEF BusFlags, DataFlags
<1>8. Ring'
  BY <1>2, <1>4 DEF BusFlags, DataFlags, Ring
<1>9. Asked'
  <2>1. superseded' => (AskReset(req) \/ superseded) /\ ~br_reset
    BY <1>4 DEF OneClock, Superseded
  <2>2. superseded' => WritingControl(req) /\ req.reset /\ ~br_reset
    BY <1>4, <2>1 DEF AskReset, Asked
  <2>3. superseded' => br_reset'
    BY <1>2, <1>3, <1>4, <2>2 DEF BusFlags
  <2> QED BY <2>3 DEF Asked
<1>10. Seen'
  BY <1>2, <1>4, <1>8 DEF DataFlags, Seen, Ring
<1>11. Rung'
  <2>1. br_reset => ~br_reset'
    BY <1>2, <1>4 DEF BusFlags
  <2>2. ~br_reset /\ dr_stopped => dr_stopped'
    BY <1>2, <1>4 DEF DataFlags, Seen
  <2> QED BY <1>1, <1>2, <1>4, <2>1, <2>2, RungStep DEF OneClock
<1> QED BY <1>7, <1>8, <1>9, <1>10, <1>11

-----------------------------------------------------------------------------
\* The way of a reset round its ring, and what the bus sees of a capture.
THEOREM Invariant == Spec => []IInv
<1>1. IInv /\ [Next]_vars => IInv'
  <2> SUFFICES ASSUME IInv, [Next]_vars PROVE IInv' OBVIOUS
  <2>1. CASE Program
    <3>1. request' \in Writes \cup {NoRequest, ReadControl, ReadData}
      BY <2>1 DEF Program, Start, Leave, IInv, FlagsOK
    <3>2. UNCHANGED <<sync, bus_vars, data_vars, superseded, ring_vars>>
      BY <2>1 DEF Program
    <3>3. bw_status' = bw_status
      BY <3>2 DEF bw_status, dr_status, bus_vars, data_vars
    <3> QED BY <3>1, <3>2, <3>3 DEF IInv, FlagsOK, Ring, Asked, Seen, Rung, Spent,
                                    bus_vars, data_vars, ring_vars
  <2>2. CASE Clock
    <3>1. UNCHANGED sync
      BY <2>2 DEF Clock
    <3>2. CASE \E req \in {NoRequest, request}, i_ce, i_trigger \in BOOLEAN :
                  OneClock(req, i_ce, i_trigger)
      BY <3>1, <3>2, StepOne
    <3>3. CASE \E req \in {NoRequest, request} : BusClock(req)
      BY <3>1, <3>3, StepBus
    <3>4. CASE \E i_ce, i_trigger \in BOOLEAN : DataClock(i_ce, i_trigger)
      BY <3>1, <3>4, StepData
    <3> QED BY <2>2, <3>2, <3>3, <3>4 DEF Clock
  <2>3. CASE UNCHANGED vars
    <3>1. UNCHANGED <<sync, bus_vars, data_vars, request, superseded, ring_vars>>
      BY <2>3 DEF vars, tool_vars
    <3>2. bw_status' = bw_status
      BY <3>1 DEF bw_status, dr_status, bus_vars, data_vars
    <3> QED BY <3>1, <3>2 DEF IInv, FlagsOK, Ring, Asked, Seen, Rung, Spent,
                                    bus_vars, data_vars, ring_vars
  <2> QED BY <2>1, <2>2, <2>3 DEF Next
<1> QED BY <1>1, InitIInv, PTL DEF Spec

LEMMA ReadFresh == IInv => NewCapture
<1> SUFFICES ASSUME IInv, bw_status.stopped, ~br_reset, superseded PROVE FALSE
  BY DEF NewCapture
<1>1. ~sync /\ r_iflags.reset
  BY DEF IInv, Asked
<1>2. qq_reset_complete
  BY <1>1 DEF IInv, Ring
<1> QED BY <1>1, <1>2 DEF IInv, Seen, bw_status

\* A capture that the bus sees stopped was begun after the last request to reset, the
\* requests made while another is pending included; only a request in the tail of a
\* reset is lost (wbscope.v:205-217).
THEOREM Fresh == Spec => []NewCapture
<1> QED BY ReadFresh, Invariant, PTL

\* A capture interrupts for one clock, however long it waits to be read, and for one more
\* each time that a program enables the trigger again (wbscope.v:520-528).
THEOREM Interrupts == Spec => []OneInterrupt
<1>1. IInv => OneInterrupt
  <2> SUFFICES ASSUME IInv PROVE OneInterrupt OBVIOUS
  <2>1. rung \in Nat /\ enabled \in Nat /\ rung <= enabled + 1
    BY DEF IInv, Rung
  <2>2. o_interrupt => rung # enabled + 1
    BY DEF IInv, Rung, Spent, o_interrupt
  <2> QED BY <2>1, <2>2 DEF OneInterrupt
<1> QED BY <1>1, Invariant, PTL

-----------------------------------------------------------------------------
(* Ranges, and how many answers a program still waits for.                    *)

Words == Labels \cup {Unset}
Holdoffs == 0 .. 2^HOLDOFFBITS - 1

Capture ==
    /\ counter \in Holdoffs /\ waddr \in 0 .. N - 1
    /\ mem \in [0 .. N - 1 -> Words] /\ data_pipe \in Words
    /\ beat \in Labels /\ trigger \in Words /\ dr_primed \in BOOLEAN /\ short \in BOOLEAN

Registers ==
    /\ br_holdoff \in Holdoffs /\ raddr \in 0 .. N - 1 /\ this_addr \in 0 .. N - 1
    /\ nxt_mem \in Words /\ first \in 0 .. N - 1
    /\ {br_pre_wb_ack, br_wb_ack} \subseteq BOOLEAN

\* A program has at most one errand left to send, or in the readout the words that are
\* missing; what it has sent is in the two registers of the acknowledgement.
Bit(b) == IF b THEN 1 ELSE 0
Errand ==
    /\ todo \in 0 .. N /\ owed = Bit(br_pre_wb_ack) + Bit(br_wb_ack)
    /\ \/ prog = "none" /\ request = NoRequest /\ todo = 0 /\ owed = 0 /\ scope = NewScope
       \/ prog = "wbregs" /\ request \in Writes /\ todo + owed <= 1 /\ scope = NewScope
       \/ /\ prog = "ready" /\ request = ReadControl /\ todo + owed = 1 /\ scope = NewScope
          /\ br_pre_wb_ack => read_address = 0
          /\ br_wb_ack => o_bus_data.lgmem = LGMEM
       \/ /\ prog = "decode" /\ request = ReadControl /\ todo + owed <= 1
          /\ scope.m_data = <<>>
       \/ /\ prog = "rawread" /\ request = ReadData /\ todo + owed = ToRead(scope)
          /\ scope.m_scoplen = N /\ scope.m_data \in Seq(Words) /\ Len(scope.m_data) <= N
          /\ DOMAIN scope = {"m_scoplen", "m_holdoff", "m_data"}
          /\ br_pre_wb_ack => read_address = 1
          /\ br_wb_ack => o_bus_data.data \in Words
       \/ /\ prog = "shown" /\ request = ReadData /\ todo = 0 /\ owed = 0
          /\ scope.m_scoplen = N /\ scope.m_data \in Seq(Words) /\ Len(scope.m_data) = N

TInv == Capture /\ Registers /\ Errand

LEMMA Sizes ==
    /\ N \in Nat \ {0} /\ 2 * N \in Nat \ {0} /\ 2^HOLDOFFBITS \in Nat \ {0}
    /\ 2^LGMEM = N
<1>1. N \in Nat \ {0}
  BY ScopeAssumption, PowerOfTwo DEF N
<1>2. 2^HOLDOFFBITS \in Nat \ {0}
  BY ScopeAssumption, PowerOfTwo
<1> QED BY <1>1, <1>2 DEF N

LEMMA InitTInv == Init => TInv
<1> SUFFICES ASSUME Init PROVE TInv OBVIOUS
<1> USE Sizes DEF Init, ScopeInit
<1>1. Capture
  <2>1. 0 \in 0 .. N - 1 /\ 0 \in Labels /\ 0 \in Holdoffs /\ Unset \in Words
    BY DEF Labels, Holdoffs, Words
  <2> QED BY <2>1 DEF Capture
<1>2. Registers
  <2>1. DefaultHoldoff \in Holdoffs /\ 0 \in 0 .. N - 1 /\ Unset \in Words
    BY ScopeAssumption DEF Words, Holdoffs
  <2> QED BY <2>1 DEF Registers
<1>3. Errand
  BY DEF Errand, Bit
<1> QED BY <1>1, <1>2, <1>3 DEF TInv

\* A step of the clocks is an edge of either, or both.
LEMMA Edges ==
    ASSUME Clock
    PROVE  /\ UNCHANGED <<sync, gaps>>
           /\ \/ \E req \in {NoRequest, request} : BusEdge(req)
              \/ UNCHANGED <<bus_vars, tool_vars>>
           /\ \/ \E i_ce, i_trigger \in BOOLEAN : Samples(i_ce) /\ DataEdge(i_ce, i_trigger)
              \/ UNCHANGED <<data_vars, sample_vars>>
BY DEF Clock, OneClock, BusClock, DataClock

LEMMA CaptureStep ==
    ASSUME Capture, NEW i_ce \in BOOLEAN, NEW i_trigger \in BOOLEAN, DataEdge(i_ce, i_trigger)
    PROVE  Capture'
<1> USE Sizes DEF Capture, DataEdge, DataTick
<1>1. counter' \in Holdoffs
  <2> DEFINE x == counter + 1
  <2> DEFINE m == 2^HOLDOFFBITS
  <2>1. x \in Nat /\ m \in Nat \ {0} /\ Holdoffs = 0 .. m - 1
    BY DEF Holdoffs
  <2>2. x % m \in Holdoffs
    <3> HIDE DEF x, m
    <3> QED BY <2>1, ModRange
  <2>3. 0 \in Holdoffs
    BY <2>1
  <2> QED BY <2>2, <2>3 DEF Counter
<1>2. waddr' \in 0 .. N - 1 /\ dr_primed' \in BOOLEAN
  <2>1. (waddr + 1) % N \in 0 .. N - 1
    <3> DEFINE x == waddr + 1
    <3>1. x \in Nat
      OBVIOUS
    <3> HIDE DEF x
    <3>2. x % N \in 0 .. N - 1
      BY <3>1, ModRange
    <3> QED BY <3>2 DEF x
  <2>2. \/ waddr' = 0 /\ dr_primed' = FALSE
        \/ waddr' = (waddr + 1) % N /\ dr_primed' = (dr_primed \/ waddr = N - 1)
        \/ waddr' = waddr /\ dr_primed' = dr_primed
    BY DEF Record
  <2>3. waddr' \in 0 .. N - 1
    BY <2>1, <2>2
  <2>4. dr_primed' \in BOOLEAN
    BY <2>2
  <2> QED BY <2>3, <2>4
<1>3. data_pipe' \in Words /\ mem' \in [0 .. N - 1 -> Words]
  BY DEF Record, Words
<1>4. beat' \in Labels
  <2>1. (beat + 1) % (2 * N) \in Labels
    <3> DEFINE x == beat + 1
    <3> DEFINE m == 2 * N
    <3>1. x \in Nat /\ m \in Nat \ {0} /\ Labels = 0 .. m - 1
      BY DEF Labels
    <3> HIDE DEF x, m
    <3>2. x % m \in Labels
      BY <3>1, ModRange
    <3> QED BY <3>2 DEF x, m
  <2>2. 0 \in Labels
    BY DEF Labels
  <2> QED BY <2>1, <2>2
<1>5. trigger' \in Words
  BY DEF Words
<1>6. short' \in BOOLEAN
  BY Zenon
<1> QED BY <1>1, <1>2, <1>3, <1>4, <1>5, <1>6

\* What a request says.
LEMMA WritesType ==
    ASSUME NEW req \in Writes \cup {NoRequest, ReadControl, ReadData}
    PROVE  /\ req.stb \in BOOLEAN /\ (req.stb => req # NoRequest)
           /\ WritingControl(req) => req \in Writes /\ req.holdoff \in Holdoffs
<1>1. /\ NoRequest.stb = FALSE /\ NoRequest.we = FALSE
      /\ ReadControl.stb = TRUE /\ ReadControl.we = FALSE
      /\ ReadData.stb = TRUE /\ ReadData.we = FALSE
  BY DEF NoRequest, ReadControl, ReadData
<1>2. req \in Writes => req.stb = TRUE /\ req.holdoff \in Holdoffs
  BY BoardAssumption DEF Holdoffs
<1>3. WritingControl(req) => req.we
  BY DEF WritingControl
<1> QED BY <1>1, <1>2, <1>3

LEMMA RegistersStep ==
    ASSUME Capture, Registers, NEW req \in Writes \cup {NoRequest, ReadControl, ReadData},
           BusEdge(req)
    PROVE  Registers'
<1> USE Sizes DEF Capture, Registers, BusEdge, BusTick
<1>1. br_holdoff' \in Holdoffs
  <2>1. WritingControl(req) => req.holdoff \in Holdoffs
    BY WritesType
  <2> QED BY <2>1 DEF Config
<1>2. raddr' \in 0 .. N - 1
  <2> DEFINE x == raddr + 1
  <2>1. x \in Nat /\ raddr' \in {0, x % N, raddr}
    BY DEF ReadAddress
  <2> HIDE DEF x
  <2>2. x % N \in 0 .. N - 1
    BY <2>1, ModRange
  <2> QED BY <2>1, <2>2
<1>3. this_addr' \in 0 .. N - 1
  <2> DEFINE x == raddr + waddr + (IF Reading(req) THEN 1 ELSE 0)
  <2>1. x \in Nat /\ this_addr' = x % N
    BY DEF ReadAddress
  <2> HIDE DEF x
  <2> QED BY <2>1, ModRange
<1>4. nxt_mem' \in Words
  BY DEF ReadAddress
<1>5. req.stb \in BOOLEAN
  BY WritesType
<1>6. br_pre_wb_ack' \in BOOLEAN /\ br_wb_ack' \in BOOLEAN
  BY <1>5 DEF Acknowledge
<1>7. first' \in 0 .. N - 1
  BY DEF Master, Answered
<1> QED BY <1>1, <1>2, <1>3, <1>4, <1>6, <1>7

\* What a program does at an edge of the bus clock, in numbers.
LEMMA Sending ==
    ASSUME Capture, Registers, Errand, NEW req \in {NoRequest, request}, BusEdge(req)
    PROVE  /\ req \in Writes \cup {NoRequest, ReadControl, ReadData}
           /\ req.stb \in BOOLEAN /\ (req.stb => req = request /\ todo > 0)
           /\ br_pre_wb_ack' = req.stb /\ br_wb_ack' = br_pre_wb_ack
           /\ owed \in 0 .. 2 /\ owed' = Bit(br_pre_wb_ack') + Bit(br_wb_ack')
           /\ owed' = owed + Bit(req.stb) - Bit(br_wb_ack)
           /\ Bit(req.stb) \in {0, 1} /\ Bit(br_wb_ack) \in {0, 1} /\ Bit(br_pre_wb_ack) \in {0, 1}
           /\ ~(br_wb_ack /\ prog = "ready") => todo' = todo - Bit(req.stb)
<1>1. req \in Writes \cup {NoRequest, ReadControl, ReadData}
  BY DEF Errand
<1>2. req.stb \in BOOLEAN /\ (req.stb => req # NoRequest)
  BY <1>1, WritesType
<1>3. Master(req) /\ Acknowledge(req)
  BY DEF BusEdge, BusTick
<1>4. req.stb => req = request /\ todo > 0
  BY <1>2, <1>3 DEF Master
<1> QED BY <1>1, <1>2, <1>3, <1>4 DEF Master, Acknowledge, Errand, Registers, Bit

LEMMA ErrandStep ==
    ASSUME Capture, Registers, Errand, NEW req \in {NoRequest, request}, BusEdge(req)
    PROVE  Errand'
<1> DEFINE sent == Bit(req.stb)
<1> DEFINE got == Bit(br_wb_ack)
<1>1. /\ req.stb \in BOOLEAN /\ (req.stb => req = request /\ todo > 0)
      /\ br_pre_wb_ack' = req.stb /\ br_wb_ack' = br_pre_wb_ack
      /\ owed \in 0 .. 2 /\ owed' = Bit(br_pre_wb_ack') + Bit(br_wb_ack')
      /\ owed' = owed + sent - got /\ sent \in {0, 1} /\ got \in {0, 1}
      /\ owed = Bit(br_pre_wb_ack) + got /\ Bit(br_pre_wb_ack) \in {0, 1}
      /\ (req.stb <=> sent = 1) /\ (br_wb_ack <=> got = 1)
  BY Sending DEF Errand, Bit
<1>2. ~(br_wb_ack /\ prog = "ready") => todo' = todo - sent
  BY Sending
<1>3. Master(req) /\ ReadAddress(req) /\ BusRead(beat)
  BY DEF BusEdge, BusTick
<1>4. todo \in 0 .. N /\ N \in Nat \ {0} /\ todo >= sent
  BY <1>1, Sizes DEF Errand
<1>5. br_wb_ack => Answered(o_bus_data)
  BY <1>3 DEF Master
<1>6. ~br_wb_ack => UNCHANGED <<prog, request, scope>>
  BY <1>3 DEF Master
<1> HIDE DEF sent, got
<1>7. ~(br_wb_ack /\ prog = "ready") => todo' \in 0 .. N /\ todo' + owed' = todo + owed - got
  BY <1>1, <1>2, <1>4
<1>8. CASE prog \in {"none", "shown"}
  <2>1. todo = 0 /\ owed = 0 /\ ~br_wb_ack
    BY <1>1, <1>8 DEF Errand
  <2>2. UNCHANGED <<prog, request, scope>> /\ todo' = 0 /\ owed' = 0
    BY <1>1, <1>2, <1>4, <1>6, <2>1
  <2> QED BY <1>1, <1>4, <1>8, <2>2 DEF Errand
<1>9. CASE prog \in {"wbregs", "decode"}
  <2>1. UNCHANGED <<prog, request, scope>>
    BY <1>5, <1>6, <1>9 DEF Answered
  <2>2. todo + owed <= 1 /\ todo' + owed' <= 1 /\ todo' \in 0 .. N
    BY <1>1, <1>4, <1>7, <1>9 DEF Errand
  <2> QED BY <1>1, <1>9, <2>1, <2>2 DEF Errand
<1>10. CASE prog = "ready" /\ ~br_wb_ack
  <2>1. UNCHANGED <<prog, request, scope>> /\ todo + owed = 1 /\ request = ReadControl
        /\ scope = NewScope
    BY <1>6, <1>10 DEF Errand
  <2>2. todo' + owed' = 1 /\ todo' \in 0 .. N
    BY <1>1, <1>7, <1>10, <2>1
  <2>3. br_pre_wb_ack' => read_address' = 0
    <3>1. ReadControl.addr = 0
      BY DEF ReadControl, NoRequest
    <3> QED BY <1>1, <1>3, <2>1, <3>1 DEF ReadAddress
  <2>4. br_wb_ack' => o_bus_data'.lgmem = LGMEM
    <3>1. br_wb_ack' => read_address = 0
      BY <1>1, <1>10 DEF Errand
    <3>2. br_wb_ack' => o_bus_data' = ControlWord
      BY <1>3, <3>1 DEF BusRead
    <3>3. ControlWord.lgmem = LGMEM
      BY DEF ControlWord
    <3> QED BY <3>2, <3>3
  <2> QED BY <1>1, <1>10, <2>1, <2>2, <2>3, <2>4 DEF Errand
<1>11. CASE prog = "ready" /\ br_wb_ack
  <2>1. todo = 0 /\ owed = 1 /\ scope = NewScope /\ o_bus_data.lgmem = LGMEM
        /\ ~br_pre_wb_ack /\ ~req.stb /\ owed' = 0
    BY <1>1, <1>4, <1>11 DEF Errand, Bit
  <2>2. ~br_pre_wb_ack' /\ ~br_wb_ack'
    BY <1>1, <2>1
  <2>3. scope' = [m_scoplen |-> N, m_holdoff |-> o_bus_data.holdoff, m_data |-> <<>>]
    BY <1>5, <1>11, <2>1, Sizes DEF Answered, Learn, NewScope
  <2>4. CASE Ready(o_bus_data)
    <3>1. prog' = "rawread" /\ request' = ReadData /\ todo' = ToRead(scope')
      BY <1>5, <1>11, <2>4 DEF Answered
    <3>2. scope'.m_scoplen = N /\ scope'.m_data = <<>> /\ Len(scope'.m_data) = 0
          /\ DOMAIN scope' = {"m_scoplen", "m_holdoff", "m_data"}
      BY <2>3
    <3>3. todo' \in 0 .. N /\ todo' + owed' = ToRead(scope')
      BY <1>4, <2>1, <3>1, <3>2 DEF ToRead
    <3>4. scope'.m_data \in Seq(Words)
      BY <3>2
    <3> QED BY <1>1, <1>4, <2>2, <3>1, <3>2, <3>3, <3>4 DEF Errand
  <2>5. CASE ~Ready(o_bus_data)
    <3>1. prog' = "decode" /\ request' = ReadControl /\ todo' = 1
      BY <1>5, <1>11, <2>5 DEF Answered
    <3> QED BY <1>1, <1>4, <2>1, <2>3, <3>1 DEF Errand
  <2> QED BY <2>4, <2>5
<1>12. CASE prog = "rawread"
  <2>1. /\ request = ReadData /\ todo + owed = ToRead(scope)
        /\ scope.m_scoplen = N /\ scope.m_data \in Seq(Words) /\ Len(scope.m_data) <= N
        /\ DOMAIN scope = {"m_scoplen", "m_holdoff", "m_data"}
        /\ br_pre_wb_ack => read_address = 1
        /\ br_wb_ack => o_bus_data.data \in Words
    BY <1>12 DEF Errand
  <2>2. br_pre_wb_ack' => read_address' = 1
    <3>1. ReadData.addr = 1
      BY DEF ReadData, NoRequest
    <3> QED BY <1>1, <1>3, <2>1, <3>1 DEF ReadAddress
  <2>3. br_wb_ack' => o_bus_data'.data \in Words
    <3>1. br_wb_ack' => read_address = 1
      BY <1>1, <2>1
    <3>2. nxt_mem \in Words /\ beat \in Words
      BY DEF Registers, Capture, Words
    <3>3. br_wb_ack' => o_bus_data' = [data |-> IF bw_status.stopped THEN nxt_mem ELSE beat]
      BY <1>3, <3>1 DEF BusRead
    <3> QED BY <3>2, <3>3
  <2>4. request' = ReadData
    BY <1>5, <1>6, <1>12, <2>1 DEF Answered
  <2>5. CASE ~br_wb_ack
    <3>1. UNCHANGED <<prog, scope>> /\ todo' + owed' = ToRead(scope) /\ todo' \in 0 .. N
      BY <1>1, <1>6, <1>7, <2>1, <2>5
    <3>2. ToRead(scope') = ToRead(scope)
      BY <3>1
    <3> QED BY <1>1, <1>12, <2>1, <2>2, <2>3, <2>4, <3>1, <3>2 DEF Errand
  <2>6. CASE br_wb_ack
    <3>1. scope' = Keep(scope, o_bus_data)
          /\ prog' = IF ToRead(scope) = 1 THEN "shown" ELSE "rawread"
      BY <1>5, <1>12, <2>6 DEF Answered
    <3>2. scope'.m_scoplen = N /\ scope'.m_data = Append(scope.m_data, o_bus_data.data)
          /\ DOMAIN scope' = {"m_scoplen", "m_holdoff", "m_data"}
      BY <2>1, <3>1 DEF Keep
    <3>3. scope'.m_data \in Seq(Words) /\ Len(scope'.m_data) = Len(scope.m_data) + 1
          /\ Len(scope.m_data) \in Nat
      BY <2>1, <2>6, <3>2, AppendProperties, LenProperties
    <3>4. owed >= 1 /\ got = 1
      BY <1>1, <2>6
    <3>5. N > 4 /\ ToRead(scope) = N - Len(scope.m_data) /\ ToRead(scope) >= 1
      BY <1>1, <1>4, <2>1, <3>4 DEF ToRead
    <3>6. ToRead(scope') = ToRead(scope) - 1
      BY <1>4, <3>2, <3>3, <3>5 DEF ToRead
    <3>7. todo' \in 0 .. N /\ todo' + owed' = ToRead(scope')
      BY <1>1, <1>4, <1>7, <1>12, <2>1, <3>3, <3>4, <3>5, <3>6
    <3>8. CASE ToRead(scope) = 1
      <4>1. todo' = 0 /\ owed' = 0 /\ prog' = "shown"
        <5>1. owed = 1 /\ todo = 0 /\ sent = 0
          BY <1>1, <1>4, <2>1, <3>4, <3>8
        <5>2. todo' = todo - sent
          BY <1>2, <1>12
        <5> QED BY <1>1, <3>1, <3>4, <3>8, <5>1, <5>2
      <4>2. Len(scope'.m_data) = N
        BY <1>4, <3>3, <3>5, <3>8
      <4> QED BY <1>1, <2>4, <3>2, <3>3, <3>7, <4>1, <4>2 DEF Errand
    <3>9. CASE ToRead(scope) # 1
      <4>1. prog' = "rawread" /\ Len(scope'.m_data) <= N
        BY <1>4, <3>1, <3>3, <3>5, <3>9
      <4> QED BY <1>1, <2>2, <2>3, <2>4, <3>2, <3>3, <3>7, <4>1 DEF Errand
    <3> QED BY <3>8, <3>9
  <2> QED BY <2>5, <2>6
<1> QED BY <1>8, <1>9, <1>10, <1>11, <1>12 DEF Errand

LEMMA ErrandProgram ==
    ASSUME Errand, Program
    PROVE  Errand'
<1>1. UNCHANGED <<br_pre_wb_ack, br_wb_ack, read_address, o_bus_data>>
  BY DEF Program, bus_vars
<1>2. N \in Nat \ {0}
  BY Sizes
<1>3. ASSUME NEW req \in Writes, Start("wbregs", req) PROVE Errand'
  BY <1>1, <1>2, <1>3 DEF Start, Errand, Bit
<1>4. CASE Start("ready", ReadControl)
  BY <1>1, <1>2, <1>4 DEF Start, Errand, Bit
<1>5. CASE Leave
  BY <1>1, <1>2, <1>5 DEF Leave, Errand, Bit
<1> QED BY <1>3, <1>4, <1>5 DEF Program

\* The ranges, and the errand of each program.
THEOREM Bounded == Spec => []TInv
<1>1. TInv /\ [Next]_vars => TInv'
  <2> SUFFICES ASSUME TInv, [Next]_vars PROVE TInv' OBVIOUS
  <2>1. CASE Program
    <3>1. Errand'
      BY <2>1, ErrandProgram DEF TInv
    <3>2. UNCHANGED <<bus_vars, data_vars, sample_vars>>
      BY <2>1 DEF Program
    <3>3. first' \in 0 .. N - 1
      BY <2>1, Sizes DEF Program, Start, Leave, TInv, Registers
    <3> QED BY <3>1, <3>2, <3>3 DEF TInv, Capture, Registers, bus_vars, data_vars, sample_vars
  <2>2. CASE Clock
    <3>1. Capture'
      <4>1. CASE UNCHANGED <<data_vars, sample_vars>>
        BY <4>1 DEF TInv, Capture, data_vars, sample_vars
      <4> QED BY <2>2, <4>1, Edges, CaptureStep DEF TInv
    <3>2. CASE \E req \in {NoRequest, request} : BusEdge(req)
      <4>1. PICK req \in {NoRequest, request} : BusEdge(req)
        BY <3>2
      <4>2. req \in Writes \cup {NoRequest, ReadControl, ReadData}
        BY <4>1, Sending DEF TInv
      <4> QED BY <3>1, <4>1, <4>2, RegistersStep, ErrandStep DEF TInv
    <3>3. CASE UNCHANGED <<bus_vars, tool_vars>>
      BY <3>1, <3>3 DEF TInv, Registers, Errand, bus_vars, tool_vars
    <3> QED BY <2>2, <3>2, <3>3, Edges
  <2>3. CASE UNCHANGED vars
    BY <2>3 DEF TInv, Capture, Registers, Errand, vars, bus_vars, data_vars, tool_vars, sample_vars
  <2> QED BY <2>1, <2>2, <2>3 DEF Next
<1> QED BY <1>1, InitTInv, PTL DEF Spec

\* Every register keeps its range, memscope asks for no more words than the memory has,
\* and at most two answers are due at a time.
THEOREM Typed == Spec => []TypeOK
<1>1. TInv /\ IInv => TypeOK
  <2> SUFFICES ASSUME TInv, IInv PROVE TypeOK OBVIOUS
  <2>1. /\ br_holdoff \in Holdoffs /\ counter \in Holdoffs
        /\ {raddr, waddr, this_addr} \subseteq 0 .. N - 1
        /\ \A a \in 0 .. N - 1 : mem[a] \in Words
        /\ beat \in Labels /\ trigger \in Words
    BY DEF TInv, Registers, Capture
  <2>2. prog \in {"none", "wbregs", "ready", "decode", "rawread", "shown"} /\ todo \in 0 .. N
    BY DEF TInv, Errand
  <2>3. owed \in 0 .. 2
    BY DEF TInv, Errand, Registers, Bit
  <2>4. Len(scope.m_data) <= N
    BY Sizes DEF TInv, Errand, NewScope
  <2>5. {rung, enabled} \subseteq Nat /\ first \in 0 .. N - 1
    BY DEF IInv, Rung, TInv, Registers
  <2> QED BY <2>1, <2>2, <2>3, <2>4, <2>5 DEF TypeOK, Holdoffs, Words
<1> QED BY <1>1, Bounded, Invariant, PTL

-----------------------------------------------------------------------------
(* What the memory holds.                                                     *)

\* How many samples ago a word was recorded, and whether it belongs to this capture:
\* the word at address 0 is stale until the memory has been filled once.
Age(a) == IF a < waddr THEN waddr - a ELSE waddr + N - a
Recorded(a) == dr_triggered \/ (dr_primed /\ a # waddr) \/ (1 <= a /\ a < waddr)

Order ==
    /\ dr_stopped => dr_triggered
    /\ dr_triggered => dr_primed
    /\ ~dr_triggered => counter = 0
    /\ (dr_primed \/ waddr >= 1) /\ ~dr_stopped =>
          data_pipe \in Labels /\ beat = Wrap(data_pipe + 1, 2 * N)
    /\ \A a \in 0 .. N - 1 : Recorded(a) =>
          mem[a] \in Labels /\ beat = Wrap(mem[a] + 1 + Age(a), 2 * N)

\* The three things an edge of the data clock may do.
Clears == ~dr_triggered' /\ ~dr_primed' /\ ~dr_stopped' /\ counter' = 0 /\ waddr' = 0
Takes ==
    /\ waddr' = Wrap(waddr + 1, N) /\ dr_primed' = (dr_primed \/ waddr = N - 1)
    /\ mem' = [mem EXCEPT ![waddr] = data_pipe] /\ data_pipe' = beat
    /\ beat' = Wrap(beat + 1, 2 * N)
    /\ (dr_triggered => dr_triggered') /\ (dr_triggered' => dr_primed)
    /\ counter' = IF dr_triggered THEN (counter + 1) % 2^HOLDOFFBITS ELSE counter
Waits ==
    /\ UNCHANGED <<waddr, dr_primed, mem, beat, counter, dr_triggered>>
    /\ dr_stopped \/ UNCHANGED data_pipe

LEMMA DataCases ==
    ASSUME IInv, Capture, Order, NEW i_ce \in BOOLEAN, NEW i_trigger \in BOOLEAN,
           DataEdge(i_ce, i_trigger)
    PROVE  /\ dw_flags.reset \in BOOLEAN
           /\ dw_flags.reset => Clears
           /\ ~dw_flags.reset /\ i_ce /\ ~dr_stopped => Takes
           /\ ~dw_flags.reset /\ ~(i_ce /\ ~dr_stopped) => Waits
           /\ dr_stopped' = (dr_triggered /\ ~dw_flags.reset
                               /\ (dr_stopped \/ counter >= br_holdoff))
<1> USE DEF DataEdge, DataTick
<1>1. dw_flags.reset \in BOOLEAN /\ dr_triggered \in BOOLEAN /\ dr_stopped \in BOOLEAN
      /\ dr_primed \in BOOLEAN
  BY DEF IInv, FlagsOK, dw_flags, bw_flags, Capture
<1>2. Triggered(i_ce, i_trigger) /\ Counter(i_ce) /\ Stopped /\ Record(i_ce, beat)
  OBVIOUS
<1>3. N \in Nat \ {0} /\ waddr \in 0 .. N - 1 /\ beat \in 0 .. 2 * N - 1
  BY Sizes DEF Capture, Labels
<1>4. (waddr + 1) % N = Wrap(waddr + 1, N)
  BY <1>3, WrapsOnce
<1>5. (beat + 1) % (2 * N) = Wrap(beat + 1, 2 * N)
  BY <1>3, Sizes, WrapsOnce
<1>6. ASSUME dw_flags.reset PROVE Clears
  BY <1>2, <1>6 DEF Triggered, Counter, Stopped, Record, Clears
<1>7. ASSUME ~dw_flags.reset, i_ce, ~dr_stopped PROVE Takes
  <2>1. dr_triggered' => dr_primed
    BY <1>1, <1>2, <1>7 DEF Triggered, dw_trigger, Order
  <2>2. dr_triggered => dr_triggered'
    BY <1>1, <1>2, <1>7 DEF Triggered
  <2>3. beat' = Wrap(beat + 1, 2 * N)
    BY <1>5, <1>7
  <2>4. waddr' = Wrap(waddr + 1, N) /\ dr_primed' = (dr_primed \/ waddr = N - 1)
        /\ mem' = [mem EXCEPT ![waddr] = data_pipe] /\ data_pipe' = beat
    BY <1>2, <1>4, <1>7 DEF Record
  <2>5. counter' = IF dr_triggered THEN (counter + 1) % 2^HOLDOFFBITS ELSE counter
    BY <1>1, <1>2, <1>7 DEF Counter
  <2> QED BY <1>2, <1>7, <2>1, <2>2, <2>3, <2>4, <2>5 DEF Takes
<1>8. ASSUME ~dw_flags.reset, ~(i_ce /\ ~dr_stopped) PROVE Waits
  <2>1. dr_triggered' = dr_triggered
    BY <1>1, <1>2, <1>8 DEF Triggered, Order
  <2>2. UNCHANGED <<waddr, dr_primed, mem, beat, counter>>
    BY <1>2, <1>8 DEF Record, Counter
  <2>3. dr_stopped \/ UNCHANGED data_pipe
    BY <1>2, <1>8 DEF Record
  <2> QED BY <1>2, <1>8, <2>1, <2>2, <2>3 DEF Waits
<1>9. dr_stopped' = (dr_triggered /\ ~dw_flags.reset /\ (dr_stopped \/ counter >= br_holdoff))
  BY <1>2 DEF Stopped
<1> QED
  <2> HIDE DEF DataEdge, DataTick
  <2>1. ~dw_flags.reset /\ i_ce /\ ~dr_stopped => Takes
    BY <1>7, Zenon
  <2>2. ~dw_flags.reset /\ ~(i_ce /\ ~dr_stopped) => Waits
    BY <1>8, Zenon
  <2> QED BY <1>1, <1>6, <1>9, <2>1, <2>2, Zenon

LEMMA OrderStep ==
    ASSUME IInv, Capture, Order, NEW i_ce \in BOOLEAN, NEW i_trigger \in BOOLEAN,
           DataEdge(i_ce, i_trigger)
    PROVE  Order'
<1>1. /\ dw_flags.reset \in BOOLEAN /\ dr_triggered \in BOOLEAN /\ dr_stopped \in BOOLEAN
      /\ dr_primed \in BOOLEAN /\ dr_triggered' \in BOOLEAN
      /\ N \in Nat \ {0} /\ waddr \in 0 .. N - 1 /\ beat \in Labels
  BY DataCases, DataEdgeFlags, Sizes DEF IInv, FlagsOK, Capture, DataEdge, DataFlags
<1>2. dr_stopped' = (dr_triggered /\ ~dw_flags.reset
                       /\ (dr_stopped \/ counter >= br_holdoff))
  BY DataCases
<1>3. CASE dw_flags.reset
  <2>1. Clears
    BY <1>3, DataCases
  <2>2. ASSUME NEW a \in 0 .. N - 1, Recorded(a)' PROVE FALSE
    BY <1>1, <2>1, <2>2 DEF Recorded, Clears
  <2> QED BY <1>1, <2>1, <2>2 DEF Order, Clears
<1>4. CASE ~dw_flags.reset /\ i_ce /\ ~dr_stopped
  <2>1. Takes
    BY <1>4, DataCases
  <2>2. dr_stopped' => dr_triggered'
    BY <1>2, <2>1 DEF Takes
  <2>3. dr_triggered' => dr_primed'
    BY <1>1, <2>1 DEF Takes
  <2>4. ~dr_triggered' => counter' = 0
    BY <1>1, <2>1 DEF Takes, Order
  <2>5. data_pipe' \in Labels /\ beat' = Wrap(data_pipe' + 1, 2 * N)
    BY <1>1, <2>1 DEF Takes
  <2>6. ASSUME NEW a \in 0 .. N - 1, Recorded(a)'
        PROVE  mem'[a] \in Labels /\ beat' = Wrap(mem'[a] + 1 + Age(a)', 2 * N)
    <3>1. CASE a = waddr
      <4>1. mem'[a] = data_pipe
        BY <2>1, <3>1 DEF Takes, Capture
      <4>2. Age(a)' = 1
        BY <1>1, <2>1, <3>1 DEF Takes, Age, Wrap
      <4>3. dr_primed \/ waddr >= 1
        BY <1>1, <2>1, <2>6, <3>1 DEF Takes, Recorded, Wrap
      <4>4. data_pipe \in Labels /\ beat = Wrap(data_pipe + 1, 2 * N)
        BY <1>4, <4>3 DEF Order
      <4> QED BY <1>1, <2>1, <4>1, <4>2, <4>4 DEF Takes, Wrap, Labels
    <3>2. CASE a # waddr
      <4>1. mem'[a] = mem[a]
        BY <2>1, <3>2 DEF Takes, Capture
      <4>2. Age(a)' = Age(a) + 1 /\ Age(a) \in 1 .. N - 1
        BY <1>1, <2>1, <3>2 DEF Takes, Age, Wrap
      <4>3. Recorded(a)
        BY <1>1, <2>1, <2>6, <3>2 DEF Takes, Recorded, Wrap
      <4>4. mem[a] \in Labels /\ beat = Wrap(mem[a] + 1 + Age(a), 2 * N)
        BY <4>3 DEF Order
      <4>5. beat' = Wrap(mem[a] + 1 + (Age(a) + 1), 2 * N)
        BY <1>1, <2>1, <4>2, <4>4 DEF Takes, Wrap, Labels
      <4> QED BY <4>1, <4>2, <4>4, <4>5
    <3> QED BY <3>1, <3>2
  <2> QED BY <2>2, <2>3, <2>4, <2>5, <2>6 DEF Order
<1>5. CASE ~dw_flags.reset /\ ~(i_ce /\ ~dr_stopped)
  <2>1. Waits
    BY <1>5, DataCases
  <2>2. ASSUME NEW a \in 0 .. N - 1 PROVE Recorded(a)' = Recorded(a) /\ Age(a)' = Age(a)
    BY <2>1 DEF Waits, Recorded, Age
  <2>3. dr_stopped => dr_stopped'
    BY <1>2, <1>5 DEF Order
  <2> QED BY <1>2, <2>1, <2>2, <2>3 DEF Order, Waits
<1> QED BY <1>1, <1>3, <1>4, <1>5

-----------------------------------------------------------------------------
(* Which sample triggered.                                                    *)

\* While a reset winds down the scope cannot have triggered, if the data clock is not
\* too fast: to be triggered it has to fill its memory first.
Slow == ~sync => 2 * Drift <= N
Since == IF ahead > 0 THEN ahead ELSE 0
Fill == IF dr_primed THEN waddr + N ELSE waddr
Unarmed == ~sync =>
    /\ ahead \in -Drift .. Drift
    /\ r_reset_complete => Fill = 0 /\ ~dr_triggered
    /\ ~br_reset /\ qq_reset_complete =>
         /\ ~dr_triggered
         /\ Fill <= (IF q_reset_complete THEN 0 ELSE Drift) + Since

\* The trigger is as many samples back as the counter says, and in the end as many as
\* the holdoff, less one when the capture is short.
Ahead == IF short THEN 1 ELSE 2
Marked ==
    dr_triggered /\ ~superseded /\ br_holdoff < N =>
      /\ trigger \in Labels
      /\ dr_stopped => beat = Wrap(trigger + br_holdoff + Ahead, 2 * N)
      /\ ~dr_stopped => counter <= br_holdoff /\ beat = Wrap(trigger + counter + 1, 2 * N)

LEMMA UnarmedData ==
    ASSUME IInv, Capture, Order, Slow, Unarmed, NEW i_ce \in BOOLEAN, NEW i_trigger \in BOOLEAN,
           DataClock(i_ce, i_trigger), UNCHANGED sync
    PROVE  Unarmed'
<1>1. /\ ~sync /\ ~sync' /\ ahead < Drift /\ ahead' = IF ahead < 0 THEN 1 ELSE ahead + 1
      /\ UNCHANGED <<br_reset, q_reset_complete, qq_reset_complete>>
      /\ DataEdge(i_ce, i_trigger)
  BY DEF DataClock, bus_vars
<1>2. Drift \in Nat \ {0} /\ 2 * Drift <= N /\ N \in Nat \ {0} /\ waddr \in 0 .. N - 1
      /\ ahead \in -Drift .. Drift /\ dr_primed \in BOOLEAN
  BY <1>1, Sizes, BoardAssumption DEF Slow, Unarmed, Capture
<1>3. DataFlags
  BY <1>1, DataEdgeFlags DEF DataEdge
<1>4. r_reset_complete' = dw_flags.reset /\ dr_stopped \in BOOLEAN
  BY <1>1, <1>3 DEF DataFlags, dw_flags, IInv, FlagsOK
<1>5. ahead' \in -Drift .. Drift /\ Since' = Since + 1 /\ Since \in 0 .. Drift - 1
  BY <1>1, <1>2 DEF Since
<1>6. CASE dw_flags.reset
  <2>1. Clears
    BY <1>1, <1>6, DataCases
  <2>2. Fill' = 0 /\ ~dr_triggered'
    BY <2>1 DEF Clears, Fill
  <2> QED BY <1>1, <1>2, <1>5, <2>2 DEF Unarmed
<1>7. CASE ~dw_flags.reset
  <2>1. Takes \/ Waits
    BY <1>1, <1>4, <1>7, DataCases
  <2>2. ASSUME ~br_reset, qq_reset_complete
        PROVE  /\ ~dr_triggered'
               /\ Fill' <= (IF q_reset_complete' THEN 0 ELSE Drift) + Since'
    <3> DEFINE bound == IF q_reset_complete THEN 0 ELSE Drift
    <3>1. ~dr_triggered /\ Fill <= bound + Since /\ bound \in 0 .. Drift
      BY <1>1, <1>2, <2>2 DEF Unarmed
    <3>2. (IF q_reset_complete' THEN 0 ELSE Drift) = bound
      BY <1>1
    <3> HIDE DEF bound
    <3>3. ~dr_primed /\ Fill = waddr
      BY <1>2, <1>5, <3>1 DEF Fill
    <3>4. CASE Takes
      <4>1. waddr' = Wrap(waddr + 1, N) /\ (dr_primed' <=> waddr = N - 1) /\ ~dr_triggered'
        BY <3>3, <3>4 DEF Takes
      <4>2. Fill' = waddr + 1
        <5>1. CASE waddr = N - 1
          BY <1>2, <4>1, <5>1 DEF Fill, Wrap
        <5>2. CASE waddr # N - 1
          BY <1>2, <4>1, <5>2 DEF Fill, Wrap
        <5> QED BY <5>1, <5>2
      <4> QED BY <1>2, <1>5, <3>1, <3>2, <3>3, <4>1, <4>2
    <3>5. CASE Waits
      <4>1. Fill' = Fill /\ dr_triggered' = dr_triggered
        BY <3>5 DEF Waits, Fill
      <4> QED BY <1>2, <1>5, <3>1, <3>2, <3>3, <4>1
    <3> QED BY <2>1, <3>4, <3>5
  <2> QED BY <1>1, <1>4, <1>5, <1>7, <2>2 DEF Unarmed
<1> QED BY <1>6, <1>7

LEMMA UnarmedBus ==
    ASSUME IInv, Capture, Slow, Unarmed, NEW req \in Writes \cup {NoRequest, ReadControl, ReadData},
           BusClock(req), UNCHANGED sync
    PROVE  Unarmed'
<1>1. /\ ~sync /\ ~sync' /\ ahead > -Drift /\ ahead' = IF ahead > 0 THEN -1 ELSE ahead - 1
      /\ UNCHANGED data_vars /\ BusTick(req, beat)
  BY DEF BusClock, BusEdge
<1>2. Drift \in Nat \ {0} /\ ahead \in -Drift .. Drift
  BY <1>1, BoardAssumption DEF Unarmed
<1>3. ahead' \in -Drift .. Drift /\ Since' = 0 /\ Since \in 0 .. Drift
  BY <1>1, <1>2 DEF Since
<1>4. Fill' = Fill /\ UNCHANGED <<dr_triggered, r_reset_complete>> /\ Fill \in Nat
  BY <1>1, Sizes DEF data_vars, Fill, Capture
<1>5. /\ q_reset_complete' = r_reset_complete /\ qq_reset_complete' = q_reset_complete
      /\ br_reset' = (~qq_reset_complete /\ (br_reset \/ (WritingControl(req) /\ req.reset)))
  BY <1>1, BusEdgeFlags DEF BusFlags, bw_reset_complete
<1>6. ASSUME ~br_reset', qq_reset_complete'
      PROVE  /\ ~dr_triggered'
             /\ Fill' <= (IF q_reset_complete' THEN 0 ELSE Drift) + Since'
  <2>1. CASE br_reset
    <3>1. r_reset_complete
      BY <1>1, <1>5, <1>6, <2>1 DEF IInv, Ring
    <3> QED BY <1>1, <1>3, <1>4, <1>5, <3>1 DEF Unarmed
  <2>2. CASE ~br_reset
    <3>1. q_reset_complete /\ qq_reset_complete
      BY <1>1, <1>5, <1>6, <2>2 DEF IInv, Ring
    <3>2. ~dr_triggered /\ Fill <= Since
      BY <1>1, <1>3, <1>4, <2>2, <3>1 DEF Unarmed
    <3>3. r_reset_complete => Fill = 0
      BY <1>1 DEF Unarmed
    <3> QED BY <1>2, <1>3, <1>4, <1>5, <3>2, <3>3 DEF IInv, FlagsOK
  <2> QED BY <2>1, <2>2 DEF IInv, FlagsOK
<1>7. r_reset_complete' => Fill' = 0 /\ ~dr_triggered'
  BY <1>1, <1>4 DEF Unarmed
<1> QED BY <1>1, <1>3, <1>6, <1>7 DEF Unarmed

\* A request to reset that is not taken changes the holdoff all the same.
LEMMA HoldoffKept ==
    ASSUME IInv, Unarmed, NEW req \in Writes \cup {NoRequest, ReadControl, ReadData},
           Config(req), ~AskReset(req), sync \/ dr_triggered
    PROVE  br_holdoff' = br_holdoff
<1> SUFFICES ASSUME br_holdoff' # br_holdoff PROVE FALSE OBVIOUS
<1>1. WritingControl(req) /\ req.reset /\ ~br_reset
  BY DEF Config
<1>2. bw_reset_complete
  BY <1>1 DEF AskReset
<1>3. ~sync /\ qq_reset_complete
  BY <1>1, <1>2 DEF bw_reset_complete
<1> QED BY <1>1, <1>3 DEF Unarmed

LEMMA MarkedStep ==
    ASSUME IInv, Capture, Registers, Order, Marked,
           NEW i_ce \in BOOLEAN, NEW i_trigger \in BOOLEAN,
           DataEdge(i_ce, i_trigger),
           dr_triggered' /\ ~superseded' => ~superseded /\ br_holdoff' = br_holdoff
    PROVE  Marked'
<1> SUFFICES ASSUME dr_triggered', ~superseded', br_holdoff' < N
             PROVE  /\ trigger' \in Labels
                    /\ dr_stopped' => beat' = Wrap(trigger' + br_holdoff' + Ahead', 2 * N)
                    /\ ~dr_stopped' => counter' <= br_holdoff' /\ beat' = Wrap(trigger' + counter' + 1, 2 * N)
  BY DEF Marked
<1>1. ~superseded /\ br_holdoff' = br_holdoff /\ br_holdoff < N /\ br_holdoff \in Nat /\ br_holdoff \in Holdoffs /\ counter \in Nat
      /\ counter \in Holdoffs /\ N \in Nat \ {0} /\ beat \in Labels
  BY Sizes DEF Registers, Capture, Holdoffs
<1>2. dr_triggered \in BOOLEAN /\ dr_stopped \in BOOLEAN
  BY DEF IInv, FlagsOK
<1>3. ~dw_flags.reset
  <2>1. ~Clears
    BY DEF Clears
  <2> QED BY <2>1, DataCases
<1>4. dr_stopped' = (dr_triggered /\ (dr_stopped \/ counter >= br_holdoff))
  BY <1>3, DataCases
<1>5. trigger' = IF dr_triggered THEN trigger ELSE beat
  BY <1>2, <1>3 DEF DataEdge
<1>6. (Takes /\ ~dr_stopped /\ i_ce) \/ (Waits /\ (dr_stopped \/ ~i_ce))
  <2>1. CASE i_ce /\ ~dr_stopped
    BY <1>3, <2>1, DataCases
  <2>2. CASE ~(i_ce /\ ~dr_stopped)
    BY <1>3, <2>2, DataCases
  <2> QED BY <2>1, <2>2
<1>10. Ahead' = IF dr_stopped' /\ ~dr_stopped THEN (IF i_ce THEN 2 ELSE 1) ELSE Ahead
  <2>1. short' = IF dr_stopped' /\ ~dr_stopped THEN ~i_ce ELSE short
    BY <1>3 DEF DataEdge
  <2>2. CASE dr_stopped' /\ ~dr_stopped
    <3>1. short' = ~i_ce
      BY <2>1, <2>2, Zenon
    <3> QED BY <2>2, <3>1 DEF Ahead
  <2>3. CASE ~(dr_stopped' /\ ~dr_stopped)
    <3>1. short' = short
      BY <2>1, <2>3, Zenon
    <3> QED BY <2>3, <3>1 DEF Ahead
  <2> QED BY <2>2, <2>3
<1>7. CASE ~dr_triggered
  <2>1. Takes
    BY <1>6, <1>7 DEF Waits
  <2>2. counter' = 0 /\ beat' = Wrap(beat + 1, 2 * N)
    BY <1>7, <2>1 DEF Takes, Order
  <2>3. ~dr_stopped' /\ trigger' = beat
    BY <1>4, <1>5, <1>7, Zenon
  <2>4. counter' <= br_holdoff' /\ beat' = Wrap(trigger' + counter' + 1, 2 * N)
    <3>1. counter' = 0 /\ trigger' + counter' + 1 = beat + 1
      BY <1>1, <2>2, <2>3 DEF Labels
    <3> QED BY <1>1, <2>2, <3>1
  <2> QED BY <1>1, <2>3, <2>4
<1>8. CASE dr_triggered /\ ~dr_stopped
  <2>1. trigger \in Labels /\ counter <= br_holdoff /\ beat = Wrap(trigger + counter + 1, 2 * N)
    BY <1>1, <1>8 DEF Marked
  <2>2. CASE Takes /\ i_ce
    <3>1. beat' = Wrap(trigger + counter + 2, 2 * N)
      <4>1. beat' = Wrap(beat + 1, 2 * N)
        BY <2>2 DEF Takes
      <4> QED BY <1>1, <2>1, <4>1 DEF Wrap, Labels
    <3>2. CASE counter = br_holdoff
      <4>1. counter >= br_holdoff
        BY <1>1, <3>2
      <4>2. dr_stopped' /\ trigger' = trigger
        BY <1>4, <1>5, <1>8, <4>1, Zenon
      <4>3. Ahead' = 2
        BY <1>8, <1>10, <2>2, <4>2
      <4> QED BY <1>1, <2>1, <3>1, <3>2, <4>2, <4>3
    <3>3. CASE counter < br_holdoff
      <4>1. counter' = (counter + 1) % 2^HOLDOFFBITS
        BY <1>8, <2>2 DEF Takes
      <4>2. counter' = counter + 1
        <5> DEFINE m == 2^HOLDOFFBITS
        <5> DEFINE x == counter + 1
        <5>1. x \in Nat /\ x < m /\ m \in Nat \ {0} /\ x \in 0 .. 2 * m - 1
          BY <1>1, <3>3, Sizes DEF Holdoffs
        <5>2. x % m = x
          <6> HIDE DEF m, x
          <6> QED BY <5>1, WrapsOnce DEF Wrap
        <5> QED BY <4>1, <5>2
      <4>3. ~(counter >= br_holdoff)
        BY <1>1, <3>3
      <4>4. ~dr_stopped' /\ trigger' = trigger
        BY <1>4, <1>5, <1>8, <4>3, Zenon
      <4>5. trigger + (counter + 1) + 1 = trigger + counter + 2 /\ counter + 1 <= br_holdoff
        BY <1>1, <2>1, <3>3 DEF Labels
      <4> QED BY <1>1, <2>1, <3>1, <4>2, <4>4, <4>5
    <3> QED BY <1>1, <2>1, <3>2, <3>3
  <2>3. CASE Waits /\ ~i_ce
    <3>1. UNCHANGED <<counter, beat>>
      BY <2>3 DEF Waits
    <3>2. trigger' = trigger
      BY <1>5, <1>8
    <3>3. CASE dr_stopped'
      <4>1. counter >= br_holdoff
        BY <1>4, <1>8, <3>3, Zenon
      <4>2. counter = br_holdoff
        BY <1>1, <2>1, <4>1
      <4>3. Ahead' = 1
        BY <1>8, <1>10, <2>3, <3>3
      <4> QED BY <1>1, <2>1, <3>1, <3>2, <3>3, <4>2, <4>3
    <3>4. CASE ~dr_stopped'
      BY <1>1, <2>1, <3>1, <3>2, <3>4
    <3> QED BY <3>3, <3>4
  <2> QED BY <1>6, <1>8, <2>2, <2>3
<1>9. CASE dr_triggered /\ dr_stopped
  <2>1. Waits
    BY <1>6, <1>9
  <2>2. UNCHANGED beat
    BY <2>1 DEF Waits
  <2>3. trigger \in Labels /\ beat = Wrap(trigger + br_holdoff + Ahead, 2 * N)
    BY <1>1, <1>9 DEF Marked
  <2>4. dr_stopped' /\ trigger' = trigger
    BY <1>4, <1>5, <1>9, Zenon
  <2>5. Ahead' = Ahead
    BY <1>9, <1>10
  <2> QED BY <1>1, <2>2, <2>3, <2>4, <2>5
<1> QED BY <1>2, <1>7, <1>8, <1>9

-----------------------------------------------------------------------------
(* What memscope reads.                                                       *)

\* A reset that has been asked for is seen before the program that asked has its answer.
Quiet == br_reset /\ bw_status.stopped => prog = "wbregs" /\ br_pre_wb_ack

\* A capture that memscope has found ready stays as it is while memscope reads it.
Found ==
    prog = "ready" /\ br_wb_ack =>
        /\ Ready(o_bus_data) => bw_status.stopped /\ ~br_reset
        /\ o_bus_data.holdoff = br_holdoff
Held ==
    prog \in {"rawread", "shown"} =>
        bw_status.stopped /\ ~br_reset /\ scope.m_holdoff = br_holdoff

\* The read address is ahead of the words by those on their way: one in nxt_mem, one in
\* o_bus_data.
Oldest(i) == mem[Wrap(waddr + i, N)]
Sent == N - todo
Place(i) == Wrap(first + i, N)
Fetched ==
    /\ prog = "rawread" /\ N > 4 =>
         /\ raddr = Place(Sent) /\ this_addr = Wrap(waddr + Place(Sent), N)
         /\ br_pre_wb_ack => nxt_mem = Oldest(Place(Sent - 1))
         /\ br_wb_ack => o_bus_data.data = Oldest(Place(Len(scope.m_data)))
    /\ prog \in {"rawread", "shown"} =>
         \A i \in 1 .. Len(scope.m_data) : scope.m_data[i] = Oldest(Place(i - 1))

\* Nobody writes to the scope, and the capture has stopped for the bus.
Reads == request \in {NoRequest, ReadControl, ReadData}

LEMMA ReadsOnly ==
    ASSUME Reads, NEW req \in {NoRequest, request}
    PROVE  ~WritingControl(req) /\ ~AskReset(req)
<1>1. NoRequest.we = FALSE /\ ReadControl.we = FALSE /\ ReadData.we = FALSE
  BY DEF NoRequest, ReadControl, ReadData
<1>2. req \in {NoRequest, ReadControl, ReadData}
  BY DEF Reads
<1>3. ~req.we
  BY <1>1, <1>2
<1> QED BY <1>3, Zenon DEF WritingControl, AskReset

LEMMA Frozen ==
    ASSUME IInv, Capture, Order, NEW i_ce \in BOOLEAN, NEW i_trigger \in BOOLEAN,
           DataEdge(i_ce, i_trigger), dr_stopped, ~br_reset
    PROVE  UNCHANGED <<mem, waddr>> /\ dr_stopped'
<1>1. ~dw_flags.reset
  BY DEF IInv, Seen, Ring, dw_flags, bw_flags
<1>2. Waits
  BY <1>1, DataCases
<1>3. dr_stopped'
  BY <1>1, DataCases DEF Order
<1> QED BY <1>2, <1>3 DEF Waits

LEMMA Still ==
    ASSUME IInv, Capture, Order, Clock, Reads, bw_status.stopped, ~br_reset
    PROVE  bw_status'.stopped /\ ~br_reset' /\ UNCHANGED <<mem, waddr, br_holdoff>>
<1>1. dr_stopped /\ UNCHANGED sync
  BY Edges DEF IInv, Seen, bw_status, dr_status
<1>2. UNCHANGED <<mem, waddr>> /\ dr_stopped'
  <2>1. CASE UNCHANGED <<data_vars, sample_vars>>
    BY <1>1, <2>1 DEF data_vars
  <2> QED BY <1>1, <2>1, Edges, Frozen
<1>3. CASE \E req \in {NoRequest, request} : BusEdge(req)
  <2>1. PICK req \in {NoRequest, request} : BusEdge(req)
    BY <1>3
  <2>2. ~WritingControl(req) /\ BusTick(req, beat) /\ Config(req)
        /\ req \in Writes \cup {NoRequest, ReadControl, ReadData}
    BY <2>1, ReadsOnly DEF BusEdge, BusTick, Reads
  <2>3. BusFlags(req) /\ br_holdoff' = br_holdoff
    BY <2>2, BusEdgeFlags DEF Config
  <2>4. ~br_reset'
    BY <2>2, <2>3 DEF BusFlags
  <2>5. ~sync => r_oflags'.stopped
    BY <2>3 DEF BusFlags, IInv, FlagsOK, Seen, bw_status
  <2> QED BY <1>1, <1>2, <2>3, <2>4, <2>5 DEF bw_status, dr_status
<1>4. CASE UNCHANGED <<bus_vars, tool_vars>>
  BY <1>1, <1>2, <1>4 DEF bw_status, dr_status, bus_vars
<1> QED BY <1>3, <1>4, Edges

LEMMA QuietStep ==
    ASSUME IInv, TInv, Quiet, Clock
    PROVE  Quiet'
<1>1. UNCHANGED sync
  BY Edges
<1>2. ASSUME NEW req \in {NoRequest, request}, BusEdge(req), ~br_reset, br_reset'
      PROVE  prog' = "wbregs" /\ br_pre_wb_ack'
  <2>1. /\ req \in Writes \cup {NoRequest, ReadControl, ReadData}
        /\ (req.stb => req = request) /\ br_pre_wb_ack' = req.stb
    BY <1>2, Sending DEF TInv
  <2>2. BusFlags(req)
    BY <1>2, <2>1, BusEdgeFlags DEF BusEdge
  <2>3. WritingControl(req)
    BY <1>2, <2>2 DEF BusFlags
  <2>4. req.stb /\ req = request /\ req.we /\ br_pre_wb_ack'
    BY <2>1, <2>3 DEF WritingControl
  <2>5. prog = "wbregs"
    <3>1. ~Reads
      BY <2>3, ReadsOnly
    <3> QED BY <3>1 DEF TInv, Errand, Reads
  <2>6. prog' = "wbregs"
    BY <1>2, <2>5 DEF BusEdge, Master, Answered
  <2> QED BY <2>4, <2>6
<1>3. ASSUME NEW req, NEW i_ce \in BOOLEAN, NEW i_trigger \in BOOLEAN,
             OneClock(req, i_ce, i_trigger), br_reset
      PROVE  ~bw_status'.stopped
  <2>1. DataFlags
    BY <1>3, DataEdgeFlags DEF OneClock, DataEdge
  <2> QED BY <1>1, <1>3, <2>1 DEF OneClock, DataFlags, dw_flags, bw_flags, bw_status, dr_status
<1>4. ASSUME NEW req \in {NoRequest, request}, BusClock(req), br_reset
      PROVE  ~bw_status'.stopped
  <2>1. req \in Writes \cup {NoRequest, ReadControl, ReadData}
    BY <1>4 DEF IInv, FlagsOK
  <2>2. BusFlags(req) /\ ~sync /\ ~sync'
    BY <1>1, <1>4, <2>1, BusEdgeFlags DEF BusClock, BusEdge
  <2> QED BY <1>4, <2>2 DEF BusFlags, bw_status
<1>5. CASE \E req \in {NoRequest, request}, i_ce, i_trigger \in BOOLEAN :
              Samples(i_ce) /\ OneClock(req, i_ce, i_trigger)
  BY <1>2, <1>3, <1>5 DEF Quiet, OneClock
<1>6. CASE \E req \in {NoRequest, request} : BusClock(req)
  BY <1>2, <1>4, <1>6 DEF Quiet, BusClock
<1>7. CASE \E i_ce, i_trigger \in BOOLEAN : DataClock(i_ce, i_trigger)
  <2>1. UNCHANGED <<sync, bus_vars, tool_vars>> /\ ~sync
    BY <1>1, <1>7 DEF DataClock
  <2> QED BY <2>1 DEF Quiet, bus_vars, tool_vars, bw_status
<1> QED BY <1>5, <1>6, <1>7 DEF Clock

\* In the programs that read, the requests are to read.
LEMMA ReadingOnly ==
    ASSUME TInv, prog \in {"ready", "rawread", "shown"}
    PROVE  Reads /\ prog # "wbregs"
BY DEF TInv, Errand, Reads

LEMMA HeldStep ==
    ASSUME IInv, TInv, Order, Quiet, Found, Held, Clock
    PROVE  Found' /\ Held'
<1>1. ASSUME prog = "ready", bw_status.stopped
      PROVE  ~br_reset /\ Reads /\ bw_status'.stopped /\ ~br_reset'
             /\ UNCHANGED br_holdoff
  <2>1. ~br_reset /\ Reads
    BY <1>1, ReadingOnly DEF Quiet
  <2> QED BY <1>1, <2>1, Still DEF TInv
<1>2. CASE UNCHANGED <<bus_vars, tool_vars>>
  <2>1. UNCHANGED <<prog, br_wb_ack, o_bus_data, br_holdoff, raddr, br_reset, scope>>
    BY <1>2 DEF bus_vars, tool_vars
  <2>2. Found'
    BY <1>1, <2>1 DEF Found
  <2>3. Held'
    <3>1. prog \in {"rawread", "shown"} => Reads /\ bw_status.stopped /\ ~br_reset
      BY ReadingOnly DEF Held
    <3>2. prog \in {"rawread", "shown"} => bw_status'.stopped
      BY <3>1, Still DEF TInv
    <3> QED BY <2>1, <3>2 DEF Held
  <2> QED BY <2>2, <2>3
<1>3. CASE \E req \in {NoRequest, request} : BusEdge(req)
  <2>1. PICK req \in {NoRequest, request} : BusEdge(req)
    BY <1>3
  <2>2. /\ Config(req) /\ ReadAddress(req) /\ BusRead(beat) /\ Master(req)
        /\ br_wb_ack' = br_pre_wb_ack
    BY <2>1 DEF BusEdge, BusTick, Acknowledge
  <2>3. Found'
    <3> SUFFICES ASSUME prog' = "ready", br_wb_ack'
                 PROVE  /\ Ready(o_bus_data') => bw_status'.stopped /\ ~br_reset'
                        /\ o_bus_data'.holdoff = br_holdoff'
      BY DEF Found, Ready
    <3>1. prog = "ready" /\ ~br_wb_ack
      BY <2>2 DEF Master, Answered
    <3>2. read_address = 0 /\ request = ReadControl /\ Reads
      BY <2>2, <3>1, ReadingOnly DEF TInv, Errand
    <3>3. o_bus_data' = ControlWord
      BY <2>2, <3>2 DEF BusRead
    <3>4. Ready(o_bus_data') => bw_status.stopped
      BY <3>3 DEF Ready, ControlWord
    <3>5. br_holdoff' = br_holdoff
      BY <2>2, <3>2, ReadsOnly DEF Config
    <3>6. o_bus_data'.holdoff = br_holdoff'
      BY <3>3, <3>5 DEF ControlWord
    <3> QED BY <1>1, <3>1, <3>4, <3>6
  <2>4. Held'
    <3> SUFFICES ASSUME prog' \in {"rawread", "shown"}
                 PROVE  bw_status'.stopped /\ ~br_reset' /\ scope'.m_holdoff = br_holdoff'
      BY DEF Held
    <3>1. CASE prog = "ready"
      <4>1. br_wb_ack /\ Ready(o_bus_data) /\ scope' = Learn(scope, o_bus_data)
        BY <2>2, <3>1 DEF Master, Answered
      <4>2. bw_status.stopped /\ o_bus_data.holdoff = br_holdoff
        BY <3>1, <4>1 DEF Found
      <4>3. scope = NewScope
        BY <3>1 DEF TInv, Errand
      <4>4. scope'.m_holdoff = o_bus_data.holdoff
        BY <4>1, <4>3 DEF Learn, NewScope
      <4> QED BY <1>1, <3>1, <4>2, <4>4
    <3>2. CASE prog \in {"rawread", "shown"}
      <4>1. bw_status'.stopped /\ ~br_reset' /\ br_holdoff' = br_holdoff
        BY <3>2, ReadingOnly, Still DEF Held, TInv
      <4>2. scope'.m_holdoff = scope.m_holdoff
        BY <2>2, <3>2 DEF Master, Answered, Keep, TInv, Errand
      <4> QED BY <3>2, <4>1, <4>2 DEF Held
    <3>3. prog \in {"ready", "rawread", "shown"}
      BY <2>2 DEF Master, Answered
    <3> QED BY <3>1, <3>2, <3>3
  <2> QED BY <2>3, <2>4
<1> QED BY <1>2, <1>3, Edges

LEMMA FetchedStep ==
    ASSUME IInv, TInv, Order, Quiet, Found, Held, Fetched, Clock
    PROVE  Fetched'
<1>1. N \in Nat \ {0} /\ waddr \in 0 .. N - 1 /\ raddr \in 0 .. N - 1 /\ this_addr \in 0 .. N - 1
      /\ todo \in 0 .. N /\ first \in 0 .. N - 1
  BY Sizes DEF TInv, Capture, Registers, Errand
<1>2. ASSUME prog \in {"rawread", "shown"}
      PROVE  UNCHANGED <<mem, waddr>> /\ bw_status.stopped
  BY <1>2, ReadingOnly, Still DEF Held, TInv
<1>3. ASSUME UNCHANGED <<mem, waddr>>
      PROVE  \A i : Oldest(i)' = Oldest(i)
  BY <1>3 DEF Oldest
<1>4. CASE UNCHANGED <<bus_vars, tool_vars>>
  <2>1. UNCHANGED <<prog, first, raddr, this_addr, br_pre_wb_ack, br_wb_ack, nxt_mem,
                    o_bus_data, scope, todo>>
    BY <1>4 DEF bus_vars, tool_vars
  <2> SUFFICES ASSUME prog \in {"rawread", "shown"} PROVE Fetched'
    BY <2>1 DEF Fetched
  <2>2. UNCHANGED <<mem, waddr>>
    BY <1>2
  <2> QED BY <2>1, <2>2 DEF Fetched, Oldest, Sent, Place
<1>5. CASE \E req \in {NoRequest, request} : BusEdge(req)
  <2>1. PICK req \in {NoRequest, request} : BusEdge(req)
    BY <1>5
  <2>2. ReadAddress(req) /\ BusRead(beat) /\ Master(req)
    BY <2>1 DEF BusEdge, BusTick
  <2> DEFINE sent == Bit(req.stb)
  <2> DEFINE got == Bit(br_wb_ack)
  <2>3. /\ req.stb \in BOOLEAN /\ (req.stb => req = request /\ todo > 0)
        /\ br_pre_wb_ack' = req.stb /\ br_wb_ack' = br_pre_wb_ack
        /\ (req.stb <=> sent = 1) /\ (br_wb_ack <=> got = 1) /\ sent \in {0, 1} /\ got \in {0, 1}
        /\ ~(br_wb_ack /\ prog = "ready") => todo' = todo - sent
        /\ owed = Bit(br_pre_wb_ack) + got
    BY <2>1, Sending DEF TInv, Errand, Bit
  <2> HIDE DEF sent, got
  <2>4. CASE prog = "ready"
    <3> SUFFICES ASSUME prog' \in {"rawread", "shown"} PROVE Fetched'
      BY DEF Fetched
    <3>1. br_wb_ack /\ Ready(o_bus_data) /\ scope' = Learn(scope, o_bus_data)
          /\ first' = raddr /\ todo' = ToRead(scope') /\ prog' = "rawread"
      BY <2>2, <2>4 DEF Master, Answered
    <3>2. todo = 0 /\ scope = NewScope /\ o_bus_data.lgmem = LGMEM /\ owed = 1 /\ Reads
      BY <1>1, <2>3, <2>4, <3>1, ReadingOnly DEF TInv, Errand, Bit
    <3>3. ~br_pre_wb_ack /\ ~req.stb
      BY <1>1, <2>3, <3>1, <3>2 DEF Bit, TInv, Registers
    <3>4. scope'.m_data = <<>> /\ scope'.m_scoplen = N
      BY <3>1, <3>2, Sizes DEF Learn, NewScope
    <3>5. N > 4 => Sent' = 0
      BY <1>1, <3>1, <3>4 DEF ToRead, Sent
    <3>6. bw_status.stopped /\ ~br_reset
      BY <2>4, <3>1 DEF Found
    <3>7. ~WritingControl(req)
      BY <3>2, ReadsOnly
    <3>8. raddr' = raddr /\ this_addr' = (raddr + waddr) % N
      BY <1>1, <2>2, <3>3, <3>6, <3>7 DEF ReadAddress, Reading
    <3>9. this_addr' = Wrap(waddr + raddr, N) /\ waddr' = waddr
      <4> DEFINE x == raddr + waddr
      <4>1. x \in 0 .. 2 * N - 1 /\ x = waddr + raddr
        BY <1>1
      <4>2. x % N = Wrap(x, N)
        <5> HIDE DEF x
        <5> QED BY <1>1, <4>1, WrapsOnce
      <4>3. waddr' = waddr
        BY <3>2, <3>6, Still DEF TInv
      <4> QED BY <3>8, <4>1, <4>2, <4>3
    <3>10. N > 4 => Place(Sent)' = raddr
      BY <1>1, <3>1, <3>5 DEF Place, Wrap
    <3>11. Len(scope'.m_data) = 0
      BY <3>4
    <3> QED BY <2>3, <3>3, <3>8, <3>9, <3>10, <3>11 DEF Fetched
  <2>5. CASE prog = "rawread"
    <3>1. UNCHANGED <<mem, waddr>> /\ bw_status.stopped /\ ~br_reset /\ Reads
      BY <1>2, <2>5, ReadingOnly DEF Held
    <3>2. \A i : Oldest(i)' = Oldest(i)
      BY <1>3, <3>1
    <3>3. /\ first' = first /\ request = ReadData /\ todo + owed = ToRead(scope)
          /\ scope.m_scoplen = N /\ scope.m_data \in Seq(Words) /\ Len(scope.m_data) \in 0 .. N
          /\ DOMAIN scope = {"m_scoplen", "m_holdoff", "m_data"}
          /\ br_pre_wb_ack => read_address = 1
          /\ todo' = todo - sent
      <4>1. first' = first
        BY <2>2, <2>5 DEF Master, Answered
      <4>2. scope.m_data \in Seq(Words) => Len(scope.m_data) \in Nat
        BY LenProperties
      <4> QED BY <1>1, <2>3, <2>5, <4>1, <4>2 DEF TInv, Errand
    <3>4. \A i \in 1 .. Len(scope.m_data) : scope.m_data[i] = Oldest(Place(i - 1))
      BY <2>5, <3>3 DEF Fetched
    <3>5. br_wb_ack => /\ scope' = Keep(scope, o_bus_data) /\ N > 4
                       /\ o_bus_data.data = Oldest(Place(Len(scope.m_data))) /\ o_bus_data.data \in Words
      <4>1. br_wb_ack => owed >= 1 /\ N > 4
        BY <1>1, <2>3, <3>3 DEF Bit, ToRead
      <4> QED BY <2>2, <2>5, <3>3, <4>1 DEF Master, Answered, Fetched, TInv, Errand
    <3>6. ~br_wb_ack => UNCHANGED <<prog, scope>>
      BY <2>2 DEF Master
    <3>7. Len(scope'.m_data) = Len(scope.m_data) + got
          /\ \A i \in 1 .. Len(scope'.m_data) : scope'.m_data[i] = Oldest(Place(i - 1))
      <4>1. CASE ~br_wb_ack
        BY <1>1, <2>3, <3>3, <3>4, <3>6, <4>1
      <4>2. CASE br_wb_ack
        <5>1. scope'.m_data = Append(scope.m_data, o_bus_data.data)
          BY <3>3, <3>5, <4>2 DEF Keep
        <5>2. /\ Len(scope'.m_data) = Len(scope.m_data) + 1
              /\ \A i \in 1 .. Len(scope.m_data) : scope'.m_data[i] = scope.m_data[i]
              /\ scope'.m_data[Len(scope.m_data) + 1] = o_bus_data.data
          BY <3>3, <3>5, <4>2, <5>1, AppendProperties
        <5>3. ASSUME NEW i \in 1 .. Len(scope'.m_data) PROVE scope'.m_data[i] = Oldest(Place(i - 1))
          <6>1. CASE i \in 1 .. Len(scope.m_data)
            BY <3>4, <5>2, <6>1
          <6>2. CASE i = Len(scope.m_data) + 1
            <7>1. i - 1 = Len(scope.m_data)
              BY <3>3, <6>2
            <7>2. scope'.m_data[i] = o_bus_data.data
              BY <5>2, <6>2
            <7>3. Oldest(Place(i - 1)) = Oldest(Place(Len(scope.m_data)))
              BY <7>1
            <7> QED BY <3>5, <4>2, <7>2, <7>3
          <6> QED BY <3>3, <5>2, <6>1, <6>2
        <5> QED BY <2>3, <4>2, <5>2, <5>3
      <4> QED BY <2>3, <4>1, <4>2
    <3>8. ASSUME N > 4
          PROVE  /\ raddr' = Place(Sent') /\ this_addr' = Wrap(waddr + Place(Sent'), N)
                 /\ br_pre_wb_ack' => nxt_mem' = Oldest(Place(Sent' - 1))
                 /\ br_wb_ack' => o_bus_data'.data = Oldest(Place(Len(scope'.m_data)))
      <4>1. raddr = Place(Sent) /\ this_addr = Wrap(waddr + Place(Sent), N)
            /\ (br_pre_wb_ack => nxt_mem = Oldest(Place(Sent - 1)))
        BY <2>5, <3>3, <3>8 DEF Fetched
      <4>2. Sent \in 0 .. N /\ Sent' = Sent + sent /\ (sent = 1 => Sent < N)
        BY <1>1, <2>3, <3>3 DEF Sent
      <4>3. Reading(req) <=> sent = 1
        <5>1. ReadData.we = FALSE /\ ReadData.addr = 1
          BY DEF ReadData, NoRequest
        <5> QED BY <2>3, <3>3, <5>1 DEF Reading
      <4>4. raddr' = IF sent = 1 THEN (raddr + 1) % N ELSE raddr
        BY <2>2, <3>1, <4>3, ReadsOnly DEF ReadAddress
      <4>5. raddr' = Place(Sent')
        <5>1. (raddr + 1) % N = Wrap(raddr + 1, N)
          <6> DEFINE x == raddr + 1
          <6>1. x \in 0 .. 2 * N - 1
            BY <1>1
          <6>2. x % N = Wrap(x, N)
            <7> HIDE DEF x
            <7> QED BY <1>1, <6>1, WrapsOnce
          <6> QED BY <6>2
        <5> QED BY <1>1, <2>3, <4>1, <4>2, <4>4, <5>1 DEF Place, Wrap
      <4>6. this_addr' = (raddr + waddr + sent) % N
        <5>1. this_addr' = (raddr + waddr + (IF Reading(req) THEN 1 ELSE 0)) % N
          BY <2>2 DEF ReadAddress
        <5>2. (IF Reading(req) THEN 1 ELSE 0) = sent
          BY <2>3, <4>3
        <5> QED BY <5>1, <5>2
      <4>7. this_addr' = Wrap(waddr + Place(Sent'), N)
        <5> DEFINE x == raddr + waddr + sent
        <5>1. x \in 0 .. 2 * N - 1
          BY <1>1, <2>3
        <5>2. x % N = Wrap(x, N)
          <6> HIDE DEF x
          <6> QED BY <1>1, <5>1, WrapsOnce
        <5>3. Wrap(x, N) = Wrap(waddr + Place(Sent'), N)
          BY <1>1, <2>3, <4>1, <4>2 DEF Place, Wrap
        <5> QED BY <4>6, <5>2, <5>3
      <4>8. br_pre_wb_ack' => nxt_mem' = Oldest(Place(Sent' - 1))
        <5>1. nxt_mem' = Oldest(Place(Sent))
          BY <2>2, <4>1 DEF ReadAddress, Oldest
        <5>2. sent = 1 => Sent' - 1 = Sent
          BY <4>2
        <5> QED BY <2>3, <5>1, <5>2
      <4>9. br_wb_ack' => o_bus_data'.data = Oldest(Place(Len(scope'.m_data)))
        <5> SUFFICES ASSUME br_pre_wb_ack
                     PROVE  o_bus_data'.data = Oldest(Place(Len(scope'.m_data)))
          BY <2>3
        <5>1. o_bus_data' = [data |-> nxt_mem]
          BY <2>2, <3>1, <3>3 DEF BusRead
        <5>2. Len(scope'.m_data) = Sent - 1
          <6>1. owed = 1 + got
            BY <2>3 DEF Bit
          <6>2. ToRead(scope) = N - Len(scope.m_data)
            BY <1>1, <3>3, <3>8 DEF ToRead
          <6>3. todo + owed = N - Len(scope.m_data)
            BY <3>3, <6>2
          <6>4. Len(scope.m_data) + got = N - todo - 1
            <7> DEFINE l == Len(scope.m_data)
            <7>1. l \in Nat
              BY <1>1, <3>3
            <7>2. got \in {0, 1}
              BY <2>3
            <7>3. todo + owed = N - l
              BY <6>3
            <7> HIDE DEF l
            <7>4. l + got = N - todo - 1
              BY <1>1, <6>1, <7>1, <7>2, <7>3
            <7> QED BY <7>4 DEF l
          <6> QED BY <3>7, <6>4 DEF Sent
        <5> QED BY <4>1, <5>1, <5>2
      <4> QED BY <4>5, <4>7, <4>8, <4>9
    <3>9. \A i : Place(i)' = Place(i)
      BY <3>3 DEF Place
    <3>10. Place(Sent)' = Place(Sent') /\ Place(Sent - 1)' = Place(Sent' - 1)
           /\ Place(Len(scope.m_data))' = Place(Len(scope'.m_data))
      BY <3>3 DEF Place
    <3> QED BY <3>1, <3>2, <3>7, <3>8, <3>9, <3>10 DEF Fetched
  <2>6. CASE prog = "shown"
    <3>1. ~br_wb_ack
      BY <2>3, <2>6 DEF TInv, Errand, Registers, Bit
    <3>2. UNCHANGED <<prog, scope, first>> /\ UNCHANGED <<mem, waddr>>
      BY <1>2, <2>2, <2>6, <3>1 DEF Master
    <3> QED BY <2>6, <3>2 DEF Fetched, Oldest, Place
  <2>7. prog' \in {"rawread", "shown"} => prog \in {"ready", "rawread", "shown"}
    BY <2>2 DEF Master, Answered
  <2> QED BY <2>4, <2>5, <2>6, <2>7 DEF Fetched
<1> QED BY <1>4, <1>5, Edges

-----------------------------------------------------------------------------
MInv == Order /\ Slow /\ Unarmed /\ Marked /\ Quiet /\ Found /\ Held /\ Fetched

LEMMA InitMInv ==
    ASSUME \A s \in Settings : s.sync \/ 2 * Drift <= N
    PROVE  Init => MInv
<1> SUFFICES ASSUME Init PROVE MInv OBVIOUS
<1> USE Sizes, BoardAssumption DEF Init, ScopeInit
<1>1. Order
  BY DEF Order, Recorded
<1>2. Slow
  BY DEF Slow
<1>3. Unarmed
  BY DEF Unarmed, Since
<1>4. Marked /\ Quiet /\ Found /\ Held /\ Fetched
  BY DEF Marked, Quiet, Found, Held, Fetched, bw_status, dr_status, NoStatus
<1> QED BY <1>1, <1>2, <1>3, <1>4 DEF MInv

LEMMA MInvProgram ==
    ASSUME TInv, MInv, Program
    PROVE  MInv'
<1>1. UNCHANGED <<sync, bus_vars, data_vars, gaps, ahead, sample_vars, superseded>>
  BY DEF Program
<1>2. bw_status' = bw_status
  BY <1>1 DEF bw_status, dr_status, bus_vars, data_vars
<1>3. Order' /\ Slow' /\ Unarmed' /\ Marked'
  <2>1. \A a : Recorded(a)' = Recorded(a) /\ Age(a)' = Age(a)
    BY <1>1 DEF Recorded, Age, data_vars
  <2>2. Order'
    BY <1>1, <2>1 DEF MInv, Order, data_vars, sample_vars
  <2> QED BY <1>1, <2>2 DEF MInv, Slow, Unarmed, Marked, Ahead, Fill, Since,
                            bus_vars, data_vars, sample_vars
<1>4. prog' \in {"none", "wbregs", "ready"} /\ owed = 0
  BY DEF Program, Start, Leave, TInv, Errand
<1>5. ~br_pre_wb_ack /\ ~br_wb_ack
  BY <1>4 DEF TInv, Errand, Registers, Bit
<1>6. Quiet'
  BY <1>1, <1>2, <1>5 DEF MInv, Quiet, bus_vars
<1>7. Found' /\ Held' /\ Fetched'
  BY <1>1, <1>4, <1>5 DEF Found, Held, Fetched, bus_vars
<1> QED BY <1>3, <1>6, <1>7 DEF MInv

LEMMA MInvClock ==
    ASSUME IInv, TInv, MInv, Clock
    PROVE  MInv'
<1> USE DEF MInv
<1>1. UNCHANGED <<sync, gaps>>
  BY Edges
<1>2. Found' /\ Held' /\ Fetched' /\ Quiet'
  BY HeldStep, FetchedStep, QuietStep
<1>3. Slow'
  BY <1>1 DEF Slow
<1>4. Order'
  <2>1. CASE UNCHANGED <<data_vars, sample_vars>>
    <3>1. \A a : Recorded(a)' = Recorded(a) /\ Age(a)' = Age(a)
      BY <2>1 DEF Recorded, Age, data_vars
    <3> QED BY <2>1, <3>1 DEF Order, data_vars, sample_vars
  <2> QED BY <2>1, Edges, OrderStep DEF TInv
<1>5. ASSUME NEW req \in {NoRequest, request}
      PROVE  req \in Writes \cup {NoRequest, ReadControl, ReadData}
  BY DEF IInv, FlagsOK
<1>6. CASE \E req \in {NoRequest, request}, i_ce, i_trigger \in BOOLEAN :
              Samples(i_ce) /\ OneClock(req, i_ce, i_trigger)
  <2>1. PICK req \in {NoRequest, request}, i_ce \in BOOLEAN, i_trigger \in BOOLEAN :
               Samples(i_ce) /\ OneClock(req, i_ce, i_trigger)
    BY <1>6
  <2>2. sync /\ sync' /\ Config(req) /\ DataEdge(i_ce, i_trigger)
        /\ superseded' = ((AskReset(req) \/ superseded) /\ ~dw_flags.reset)
    BY <1>1, <2>1 DEF OneClock, BusEdge, BusTick, Superseded
  <2>3. dr_triggered' /\ ~superseded' => ~superseded /\ br_holdoff' = br_holdoff
    <3>1. dr_triggered' => ~dw_flags.reset
      BY <2>2, DataCases DEF Clears, TInv
    <3>2. ~AskReset(req) => br_holdoff' = br_holdoff
      BY <1>5, <2>2, HoldoffKept
    <3> QED BY <2>2, <3>1, <3>2
  <2>4. Marked'
    BY <1>1, <2>1, <2>2, <2>3, MarkedStep DEF TInv
  <2> QED BY <1>2, <1>3, <1>4, <2>2, <2>4 DEF Unarmed
<1>7. CASE \E req \in {NoRequest, request} : BusClock(req)
  <2>1. PICK req \in {NoRequest, request} : BusClock(req)
    BY <1>7
  <2>2. Unarmed'
    BY <1>1, <1>5, <2>1, UnarmedBus DEF TInv
  <2>3. Config(req) /\ superseded' = (superseded \/ AskReset(req))
        /\ UNCHANGED <<data_vars, sample_vars>>
    BY <2>1 DEF BusClock, BusEdge, BusTick
  <2>4. dr_triggered /\ ~superseded' => ~superseded /\ br_holdoff' = br_holdoff
    BY <1>5, <2>3, HoldoffKept
  <2>5. Marked'
    BY <1>1, <2>3, <2>4 DEF Marked, Ahead, data_vars, sample_vars
  <2> QED BY <1>2, <1>3, <1>4, <2>2, <2>5
<1>8. CASE \E i_ce, i_trigger \in BOOLEAN : Samples(i_ce) /\ DataClock(i_ce, i_trigger)
  <2>1. PICK i_ce \in BOOLEAN, i_trigger \in BOOLEAN : Samples(i_ce) /\ DataClock(i_ce, i_trigger)
    BY <1>8
  <2>2. Unarmed'
    BY <1>1, <2>1, UnarmedData DEF TInv
  <2>3. DataEdge(i_ce, i_trigger) /\ superseded' = (superseded /\ ~dw_flags.reset)
        /\ UNCHANGED br_holdoff
    BY <2>1 DEF DataClock, Superseded, bus_vars
  <2>4. dr_triggered' => ~dw_flags.reset
    BY <2>3, DataCases DEF Clears, TInv
  <2>5. Marked'
    BY <1>1, <2>1, <2>3, <2>4, MarkedStep DEF TInv
  <2> QED BY <1>2, <1>3, <1>4, <2>2, <2>5
<1> QED BY <1>6, <1>7, <1>8 DEF Clock

\* Consecutive words are consecutive samples, the oldest first.
LEMMA Sequence ==
    ASSUME TInv, Order, dr_triggered, NEW i \in 0 .. N - 1
    PROVE  Oldest(i) \in Labels /\ beat = Wrap(Oldest(i) + 1 + (N - i), 2 * N)
<1> DEFINE a == Wrap(waddr + i, N)
<1>1. N \in Nat \ {0} /\ waddr \in 0 .. N - 1
  BY Sizes DEF TInv, Capture
<1>2. a \in 0 .. N - 1 /\ Age(a) = N - i
  BY <1>1 DEF Wrap, Age
<1>3. mem[a] \in Labels /\ beat = Wrap(mem[a] + 1 + Age(a), 2 * N)
  <2> HIDE DEF a
  <2> QED BY <1>2 DEF Order, Recorded
<1> QED BY <1>2, <1>3 DEF Oldest

\* When memscope has read a whole capture, the words are consecutive samples, from the
\* one at the address where the readout began on and round the memory.  The line that
\* writevcd marks is the trigger if that is the oldest one and i_ce was high when the
\* capture stopped; print marks it too, unless the trigger's value repeats that of the
\* sample before (wbscope.v:319, scopecls.cpp:170, :190).  With two clocks the data clock
\* may run half the memory for one clock of the bus, and no further.
THEOREM Marks ==
    ASSUME \A s \in Settings : s.sync \/ 2 * Drift <= N
    PROVE  Spec => []MarksTrigger
<1>1. IInv /\ TInv /\ MInv /\ [Next]_vars => MInv'
  <2> SUFFICES ASSUME IInv, TInv, MInv, [Next]_vars PROVE MInv' OBVIOUS
  <2>1. CASE UNCHANGED vars
    <3>1. UNCHANGED <<sync, bus_vars, data_vars, gaps, ahead, tool_vars, sample_vars, superseded>>
      BY <2>1 DEF vars
    <3>2. bw_status' = bw_status
      BY <3>1 DEF bw_status, dr_status, bus_vars, data_vars
    <3>3. \A a : Recorded(a)' = Recorded(a) /\ Age(a)' = Age(a) /\ Oldest(a)' = Oldest(a)
      BY <3>1 DEF Recorded, Age, Oldest, data_vars
    <3>4. Order' /\ Slow' /\ Unarmed' /\ Marked' /\ Quiet'
      BY <3>1, <3>2, <3>3 DEF MInv, Order, Slow, Unarmed, Marked, Ahead, Quiet, Fill, Since,
                              bus_vars, data_vars, tool_vars, sample_vars
    <3>5. Found' /\ Held'
      BY <3>1, <3>2 DEF MInv, Found, Held, bus_vars, tool_vars
    <3>6. Fetched'
      <4>1. /\ UNCHANGED <<prog, first, raddr, this_addr, br_pre_wb_ack, br_wb_ack, nxt_mem,
                           o_bus_data, scope, todo, waddr, mem>>
        BY <3>1 DEF bus_vars, tool_vars, data_vars
      <4>2. Fetched
        BY DEF MInv
      <4> QED BY <4>1, <4>2 DEF Fetched, Oldest, Sent, Place
    <3> QED BY <3>4, <3>5, <3>6 DEF MInv
  <2> QED BY <2>1, MInvProgram, MInvClock DEF Next
<1>2. IInv /\ TInv /\ MInv => MarksTrigger
  <2> SUFFICES ASSUME IInv, TInv, MInv, prog = "shown" PROVE MarksTrigger
    BY DEF MarksTrigger
  <2>1. N \in Nat \ {0} /\ br_holdoff \in Nat /\ beat \in Labels /\ first \in 0 .. N - 1
        /\ short \in BOOLEAN
    BY Sizes DEF TInv, Capture, Registers, Holdoffs
  <2>2. scope.m_scoplen = N /\ Len(scope.m_data) = N /\ scope.m_holdoff = br_holdoff
        /\ Positions(scope) = 0 .. N - 1
    BY DEF TInv, Errand, MInv, Held, Positions
  <2>3. dr_stopped /\ dr_triggered /\ ~superseded
    <3>1. ~superseded /\ bw_status.stopped /\ ~br_reset
      BY ReadFresh DEF MInv, Held, NewCapture
    <3> QED BY <3>1 DEF IInv, Seen, bw_status, dr_status
  <2>4. ASSUME NEW i \in 0 .. N - 1
        PROVE  Shown(i) \in Labels /\ beat = Wrap(Shown(i) + 1 + (N - i), 2 * N)
    <3> DEFINE p == (i + N - first) % N
    <3>1. p = Wrap(i + N - first, N) /\ p \in 0 .. N - 1
      <4> DEFINE x == i + N - first
      <4>1. x \in 0 .. 2 * N - 1
        BY <2>1
      <4>2. x % N = Wrap(x, N) /\ Wrap(x, N) \in 0 .. N - 1
        <5> HIDE DEF x
        <5>1. x % N = Wrap(x, N)
          BY <2>1, <4>1, WrapsOnce
        <5>2. Wrap(x, N) \in 0 .. N - 1
          BY <2>1, <4>1 DEF Wrap
        <5> QED BY <5>1, <5>2
      <4> QED BY <4>2
    <3>2. Shown(i) = Word(scope, p)
      BY DEF Shown
    <3> HIDE DEF p
    <3>3. Place(p) = i
      BY <2>1, <3>1 DEF Place, Wrap
    <3>4. p + 1 \in 1 .. Len(scope.m_data) /\ (p + 1) - 1 = p
      BY <2>1, <2>2, <3>1
    <3>5. scope.m_data[p + 1] = Oldest(Place((p + 1) - 1))
      BY <3>4 DEF MInv, Fetched
    <3>6. Shown(i) = Oldest(i)
      BY <3>2, <3>3, <3>4, <3>5 DEF Word
    <3> QED BY <2>3, <3>6, Sequence DEF MInv
  <2>5. ASSUME NEW i \in 0 .. N - 1
        PROVE  Shown(i) = (Shown(0) + i) % (2 * N)
    <3> DEFINE v == Shown(i)
    <3> DEFINE w == Shown(0)
    <3>1. v \in Labels /\ beat = Wrap(v + 1 + (N - i), 2 * N)
          /\ w \in Labels /\ beat = Wrap(w + 1 + (N - 0), 2 * N)
      BY <2>1, <2>4
    <3> HIDE DEF v, w
    <3>2. v = Wrap(w + i, 2 * N) /\ w + i \in 0 .. 2 * (2 * N) - 1
      BY <2>1, <3>1 DEF Wrap, Labels
    <3>3. (w + i) % (2 * N) = Wrap(w + i, 2 * N)
      <4> DEFINE m == 2 * N
      <4> DEFINE x == w + i
      <4>1. m \in Nat \ {0} /\ x \in 0 .. 2 * m - 1
        BY <2>1, <3>2
      <4>2. x % m = Wrap(x, m)
        <5> HIDE DEF m, x
        <5> QED BY <4>1, WrapsOnce
      <4> QED BY <4>2
    <3> QED BY <3>2, <3>3 DEF v, w
  <2>6. ASSUME NEW w \in Labels PROVE Before(w) = Wrap(w + 2 * N - 1, 2 * N)
    <3> DEFINE m == 2 * N
    <3> DEFINE x == w + 2 * N - 1
    <3>1. m \in Nat \ {0} /\ x \in 0 .. 2 * m - 1
      BY <2>1 DEF Labels
    <3>2. x % m = Wrap(x, m)
      <4> HIDE DEF m, x
      <4> QED BY <3>1, WrapsOnce
    <3> QED BY <3>2 DEF Before
  <2>7. Offset(scope) = N - br_holdoff - 1
    BY <2>2 DEF Offset, getaddresslen
  <2>8. CASE br_holdoff >= N
    <3>1. VcdMarks(scope) = {}
      BY <2>1, <2>2, <2>7, <2>8 DEF VcdMarks
    <3> QED BY <2>2, <2>5, <2>8, <3>1 DEF MarksTrigger
  <2>9. CASE br_holdoff < N
    <3> DEFINE k == N - br_holdoff - 1
    <3>1. k \in 0 .. N - 1 /\ k \in VcdMarks(scope) /\ ~(br_holdoff >= N)
      BY <2>1, <2>2, <2>7, <2>9 DEF VcdMarks
    <3> DEFINE v == Shown(k)
    <3>2. v \in Labels /\ beat = Wrap(v + 1 + (N - k), 2 * N)
      BY <2>4, <3>1
    <3>3. trigger \in Labels /\ beat = Wrap(trigger + br_holdoff + Ahead, 2 * N)
      BY <2>3, <2>9 DEF MInv, Marked
    <3>4. v = IF short THEN Before(trigger) ELSE trigger
      <4>1. v + 1 + (N - k) = v + br_holdoff + 2
        <5> HIDE DEF v
        <5> QED BY <2>1, <3>2 DEF Labels
      <4>2. Before(trigger) = Wrap(trigger + 2 * N - 1, 2 * N)
        BY <2>6, <3>3
      <4> HIDE DEF v, k
      <4>3. CASE short
        <5>1. beat = Wrap(trigger + br_holdoff + 1, 2 * N)
          BY <3>3, <4>3 DEF Ahead
        <5>2. v = Wrap(trigger + 2 * N - 1, 2 * N)
          BY <2>1, <2>9, <3>2, <3>3, <4>1, <5>1 DEF Wrap, Labels
        <5> QED BY <4>2, <4>3, <5>2
      <4>4. CASE ~short
        <5>1. beat = Wrap(trigger + br_holdoff + 2, 2 * N)
          BY <3>3, <4>4 DEF Ahead
        <5>2. v = trigger
          BY <2>1, <2>9, <3>2, <3>3, <4>1, <5>1 DEF Wrap, Labels
        <5> QED BY <4>4, <5>2
      <4> QED BY <4>3, <4>4
    <3>5. ASSUME first = 0, ~short, NEW signal \in Signals
          PROVE  k \in PrintMarks(scope, signal) <=>
                    \/ br_holdoff \in {0, N - 1}
                    \/ signal[trigger] # signal[Before(trigger)]
      <4>1. k \in PrintMarks(scope, signal) <=> k \in Printed(scope, signal)
        BY <2>7 DEF PrintMarks, Printed
      <4>2. k = 0 \/ k >= N - 1 <=> br_holdoff \in {0, N - 1}
        BY <2>1, <3>1
      <4>3. CASE br_holdoff \in {0, N - 1}
        BY <2>2, <3>1, <4>1, <4>2, <4>3 DEF Printed
      <4>4. CASE br_holdoff \notin {0, N - 1}
        <5>1. k \in 1 .. N - 1 /\ k - 1 \in 0 .. N - 1
          BY <2>1, <3>1, <4>2, <4>4
        <5>2. ASSUME NEW i \in 0 .. N - 1 PROVE Word(scope, i) = Shown(i)
          <6> DEFINE x == i + N - first
          <6>1. x \in 0 .. 2 * N - 1 /\ Wrap(x, N) = i
            BY <2>1, <3>5 DEF Wrap
          <6>2. x % N = Wrap(x, N)
            <7> HIDE DEF x
            <7> QED BY <2>1, <6>1, WrapsOnce
          <6> QED BY <6>1, <6>2 DEF Shown
        <5>3. Word(scope, k) = trigger
          BY <3>1, <3>4, <3>5, <5>2
        <5>4. Word(scope, k - 1) = Before(trigger)
          <6> DEFINE w == Shown(k - 1)
          <6>1. w \in Labels /\ beat = Wrap(w + 1 + (N - (k - 1)), 2 * N)
            BY <2>4, <5>1
          <6>2. Before(trigger) = Wrap(trigger + 2 * N - 1, 2 * N)
            BY <2>6, <3>3
          <6>3. trigger \in Labels /\ beat = Wrap(trigger + 1 + (N - k), 2 * N)
            BY <3>2, <3>4, <3>5
          <6> HIDE DEF w, k, v
          <6>4. w = Wrap(trigger + 2 * N - 1, 2 * N)
            BY <2>1, <5>1, <6>1, <6>3 DEF Wrap, Labels
          <6> QED BY <5>1, <5>2, <6>2, <6>4 DEF w
        <5>5. k \in Printed(scope, signal) <=> signal[Word(scope, k)] # signal[Word(scope, k - 1)]
          BY <2>2, <3>1, <4>2, <4>4 DEF Printed
        <5> QED BY <4>1, <4>4, <5>3, <5>4, <5>5
      <4> QED BY <4>3, <4>4
    <3> HIDE DEF k
    <3> QED BY <2>2, <2>5, <3>1, <3>4, <3>5 DEF MarksTrigger
  <2> QED BY <2>1, <2>8, <2>9
<1>3. Spec => []TInv
  BY Bounded
<1>4. Spec => []MInv
  BY <1>1, <1>3, InitMInv, Invariant, PTL DEF Spec
<1> QED BY <1>2, <1>3, <1>4, Invariant, PTL
=============================================================================

--------------------------- MODULE HbRspPath_proofs ---------------------------
(* Proofs about the response channel, for every number of digits in a word,   *)
(* every set of answers, every pace of the transmitter and every window.      *)
EXTENDS HbRspPath, SequenceTheorems, TLAPS

-----------------------------------------------------------------------------
(* Types.                                                                     *)

\* Shifting a digit in keeps the number of digits.
LEMMA ShiftInType ==
    ASSUME NEW w \in Payload, NEW d \in Nibble
    PROVE  ShiftIn(w, d) \in Payload
<1>1. w \in Seq(Nibble) /\ Len(w) = WordLen /\ WordLen \in Nat \ {0}
  BY WordAssumption DEF Payload
<1>2. Tail(w) \in Seq(Nibble) /\ Len(Tail(w)) = WordLen - 1
  BY <1>1
<1>3. Append(Tail(w), d) \in Seq(Nibble) /\ Len(Append(Tail(w), d)) = WordLen
  BY <1>1, <1>2
<1> QED BY <1>3, LenProperties DEF ShiftIn, Payload

\* The first digit of a word is a digit.
LEMMA HeadType ==
    ASSUME NEW w \in Payload
    PROVE  Head(w) \in Nibble
  BY WordAssumption DEF Payload

\* The words the blocks make up are responses.
LEMMA WordTypes ==
    /\ WordLen \in Nat \ {0} /\ "0" \in Nibble /\ Zeros \in Payload
    /\ INT_WORD \in Response /\ IDLE_WORD \in Response /\ RSP_RESET \in Response
    /\ Answers \subseteq Response
    /\ MaxTx \in Nat /\ Apart \in Nat \ {0} /\ IdleLimit \in Nat \ {0}
<1>1. Zeros \in Payload
  BY WordAssumption DEF Zeros, Payload
<1>2. {INT_WORD, IDLE_WORD, RSP_RESET, RSP_BUS_ERROR} \subseteq Response
  BY <1>1 DEF INT_WORD, IDLE_WORD, RSP_RESET, RSP_BUS_ERROR, Special, Response, RspSub,
              SpecialSub
<1>3. [sub : ValueSub, word : Payload] \subseteq Response
  BY DEF Response, RspSub
<1> QED
  BY <1>1, <1>2, <1>3, WordAssumption, PathAssumption, IdleAssumption

\* Every code prints as a character, and none as a line feed.
LEMMA CodeType ==
    ASSUME NEW bits
    PROVE  w_gx_char(bits) \in Char \ {LF}
  BY DigitAssumption DEF w_gx_char, Char, Letter, CR, LF, DEL, NUL

\* One clock keeps the two buffers in their types.
LEMMA IntsType ==
    ASSUME IntsTypeOK, NEW reset \in BOOLEAN, NEW interrupt \in BOOLEAN,
           NEW stb \in BOOLEAN, NEW word \in Response, NEW busy \in BOOLEAN,
           IntsTick(reset, interrupt, stb, word, busy)
    PROVE  IntsTypeOK'
<1> USE DEF IntsTypeOK, IntsTick
<1>1. int_state' \in BOOLEAN /\ pending_interrupt' \in BOOLEAN
  BY DEF IntState, PendingInterrupt, IntTaken
<1>2. loaded' \in BOOLEAN /\ o_int_stb' \in BOOLEAN /\ int_loaded' \in BOOLEAN
  BY DEF Buffer, o_int_busy
<1>3. o_int_word' \in Response
  BY WordTypes DEF Buffer
<1> QED BY <1>1, <1>2, <1>3

LEMMA IdleType ==
    ASSUME IdleTypeOK, NEW reset \in BOOLEAN, NEW stb \in BOOLEAN,
           NEW word \in Response, NEW busy \in BOOLEAN,
           IdleTick(reset, stb, word, busy)
    PROVE  IdleTypeOK'
<1> USE DEF IdleTypeOK, IdleTick
<1>1. idle_stb' \in BOOLEAN
  BY Zenon DEF IdleCounter
<1>2. idle_counter' \in 0 .. IdleLimit - 1
  <2>1. (idle_counter + 1) % IdleLimit \in 0 .. IdleLimit - 1 /\ 0 \in 0 .. IdleLimit - 1
    BY WordTypes
  <2> QED BY <2>1, Zenon DEF IdleCounter
<1>3. o_idl_stb' \in BOOLEAN
  BY DEF IdleStb, o_idl_busy
<1>4. o_idl_word' \in Response
  BY WordTypes DEF IdleWord
<1> QED BY <1>1, <1>2, <1>3, <1>4

\* One clock keeps the three blocks of the encoder in their types.
LEMMA DewordType ==
    ASSUME DewordTypeOK, NEW reset \in BOOLEAN, NEW stb \in BOOLEAN,
           NEW word \in Response, NEW busy \in BOOLEAN,
           DewordTick(reset, stb, word, busy)
    PROVE  DewordTypeOK'
<1> USE DEF DewordTypeOK, DewordTick
<1>1. word.word \in Payload /\ word.sub \in RspSub
  BY DEF Response
<1>2. ShiftIn(r_word, "0") \in Payload /\ Head(r_word) \in Nibble
  BY ShiftInType, HeadType, WordTypes
<1>3. o_dw_stb' \in BOOLEAN /\ r_len' \in 0 .. WordLen
  <2> DEFINE accept == stb /\ ~o_dw_busy
  <2>1. accept \in BOOLEAN
    OBVIOUS
  <2>2. \/ reset /\ r_len' = 0 /\ o_dw_stb' = FALSE
        \/ o_dw_stb' = TRUE /\ (r_len' = 0 \/ r_len' = WordLen)
        \/ o_dw_stb' = (r_len # 0) /\ r_len' = IF r_len # 0 THEN r_len - 1 ELSE 0
        \/ UNCHANGED <<o_dw_stb, r_len>>
    BY <2>1
  <2>3. o_dw_stb' \in BOOLEAN
    BY <2>2, Zenon
  <2> HIDE DEF accept
  <2> QED BY <2>2, <2>3, WordTypes
<1>4. r_word' \in Payload /\ o_dw_bits' \in Nibble \cup RspSub
  BY <1>1, <1>2
<1> QED BY <1>3, <1>4

LEMMA GenhexType ==
    ASSUME GenhexTypeOK, NEW reset \in BOOLEAN, NEW stb \in BOOLEAN,
           NEW bits, NEW busy \in BOOLEAN,
           GenhexTick(reset, stb, bits, busy)
    PROVE  GenhexTypeOK'
  BY CodeType DEF GenhexTypeOK, GenhexTick, o_gx_busy

LEMMA NewlineType ==
    ASSUME NewlineTypeOK, NEW reset \in BOOLEAN, NEW stb \in BOOLEAN,
           NEW byte \in Char, NEW busy \in BOOLEAN,
           NewlineTick(reset, stb, byte, busy)
    PROVE  NewlineTypeOK'
<1> USE DEF NewlineTypeOK
<1>1. CR \in Char /\ LF \in Char /\ DEL \in Char
  BY DEF Char
<1> QED
  BY <1>1 DEF NewlineTick, NewlineReset, PassOn, StartNewline, LineFeed, Rest,
              newline_vars

-----------------------------------------------------------------------------
(* The channel as a whole.                                                    *)

\* Everything that happens on one clock.
Clock(interrupt) ==
    /\ Path(interrupt) /\ Transmit /\ Receive /\ Respond
    /\ w_reset' \in BOOLEAN
    /\ History(interrupt)

LEMMA InitType == Init => TypeOK
<1> SUFFICES ASSUME Init PROVE TypeOK OBVIOUS
<1> USE DEF Init
<1>1. IntsTypeOK
  BY WordTypes DEF IntsInit, IntsTypeOK
<1>2. IdleTypeOK
  <2>1. 0 \in 0 .. IdleLimit - 1
    BY WordTypes
  <2> QED BY <2>1, WordTypes, Zenon DEF IdleInit, IdleTypeOK
<1>3. DewordTypeOK
  <2>1. 0 \in 0 .. WordLen
    BY WordTypes
  <2> QED BY <2>1, WordTypes, Zenon DEF DewordInit, DewordTypeOK
<1>4. GenhexTypeOK /\ NewlineTypeOK
  BY DEF GenhexInit, GenhexTypeOK, NewlineInit, NewlineTypeOK, Char
<1>5. tx_left \in 0 .. MaxTx /\ quiet \in 0 .. Apart - 1
      /\ m_cmd \in Char /\ owed \in Seq(Response)
  BY WordTypes DEF Char
<1> QED BY <1>1, <1>2, <1>3, <1>4, <1>5, WordTypes DEF TypeOK

\* One clock keeps every register, and what the host has read, in its type.
LEMMA StepType ==
    ASSUME TypeOK, NEW interrupt \in BOOLEAN, Clock(interrupt)
    PROVE  TypeOK'
<1> USE DEF TypeOK, Clock
<1>1. nl_busy \in BOOLEAN /\ hx_busy \in BOOLEAN /\ idl_busy \in BOOLEAN
      /\ tx_busy \in BOOLEAN /\ o_dw_busy \in BOOLEAN
  BY DEF nl_busy, o_nl_busy, hx_busy, o_gx_busy, idl_busy, o_idl_busy, tx_busy,
         o_dw_busy, DewordTypeOK
<1>2. IntsTypeOK'
  BY <1>1, IntsType DEF Path
<1>3. IdleTypeOK'
  BY <1>1, IdleType DEF Path, IntsTypeOK
<1>4. DewordTypeOK'
  BY <1>1, DewordType DEF Path, IdleTypeOK
<1>5. GenhexTypeOK'
  BY <1>1, GenhexType DEF Path, DewordTypeOK
<1>6. NewlineTypeOK'
  BY <1>1, NewlineType DEF Path, GenhexTypeOK
<1>7. tx_left' \in 0 .. MaxTx /\ quiet' \in 0 .. Apart - 1
  BY WordTypes DEF Transmit, tx_busy, Respond
<1>8. m_cmd' \in Char /\ m_word' \in Payload /\ m_isspace' \in BOOLEAN
  <2>1. (o_nl_byte \in {CR, LF}) \in BOOLEAN
    OBVIOUS
  <2> QED BY <2>1, ShiftInType, WordTypes DEF Receive, Ends, NewlineTypeOK
<1>9. rsp_stb' \in BOOLEAN /\ rsp_word' \in Response
  BY WordTypes DEF Respond
<1>10. owed' \in Seq(Response)
  <2> DEFINE left == IF Reads /\ ~torn /\ owed # <<>> THEN Tail(owed) ELSE owed
  <2>1. left \in Seq(Response)
    OBVIOUS
  <2> HIDE DEF left
  <2>2. Append(left, rsp_word) \in Seq(Response)
    BY <2>1
  <2> QED BY <2>1, <2>2 DEF History, left
<1>11. torn' \in BOOLEAN /\ armed' \in BOOLEAN
  BY DEF History, Ends
<1> QED BY <1>2, <1>3, <1>4, <1>5, <1>6, <1>7, <1>8, <1>9, <1>10, <1>11

\* The types of the whole channel and of what the host has read of it.
THEOREM Types == Spec => []TypeOK
<1>1. TypeOK /\ [Next]_vars => TypeOK'
  <2> SUFFICES ASSUME TypeOK, [Next]_vars PROVE TypeOK' OBVIOUS
  <2>1. CASE Next
    BY <2>1, StepType DEF Next, Clock
  <2>2. CASE UNCHANGED vars
    BY <2>2 DEF vars, path_vars, env_vars, ints_vars, idle_vars, deword_vars, genhex_vars,
                newline_vars, TypeOK, IntsTypeOK, IdleTypeOK, DewordTypeOK,
                GenhexTypeOK, NewlineTypeOK
  <2> QED BY <2>1, <2>2
<1> QED BY <1>1, InitType, PTL DEF Spec

-----------------------------------------------------------------------------
(* The newline.                                                               *)

\* hbnewline.v remembers a CR that it sent, until the LF is out; and a LF on the line
\* is its own, for nothing above sends one.
LineState ==
    /\ cr_state => last_cr
    /\ o_nl_stb /\ o_nl_byte = CR => cr_state
    /\ o_nl_stb /\ o_nl_byte = LF => last_cr /\ ~cr_state
    /\ o_gx_char # LF

LEMMA StepLineState ==
    ASSUME TypeOK, LineState, NEW interrupt \in BOOLEAN, Clock(interrupt)
    PROVE  LineState'
<1> USE DEF TypeOK, NewlineTypeOK, GenhexTypeOK, LineState
<1>1. NewlineTick(w_reset, o_gx_stb, o_gx_char, tx_busy)
  BY DEF Clock, Path
<1>2. tx_busy \in BOOLEAN
  BY DEF tx_busy
<1>3. o_gx_char' # LF
  BY CodeType DEF Clock, Path, GenhexTick
<1>4. CR # LF /\ DEL # LF /\ DEL # CR
  BY DEF CR, LF, DEL
<1>5. CASE w_reset
  BY <1>1, <1>3, <1>4, <1>5 DEF NewlineTick, NewlineReset
<1>6. CASE ~w_reset /\ o_gx_stb /\ ~o_nl_busy(tx_busy)
  BY <1>1, <1>3, <1>4, <1>6 DEF NewlineTick, PassOn
\* A CR is begun only when no character is at hand.
<1>7. CASE ~w_reset /\ ~(o_gx_stb /\ ~o_nl_busy(tx_busy)) /\ ~tx_busy
  <2>1. CASE StartNewline(o_gx_stb)
    BY <1>3, <1>4, <1>7, <2>1 DEF StartNewline, o_nl_busy
  <2>2. CASE LineFeed
    BY <1>3, <1>4, <2>2 DEF LineFeed
  <2>3. CASE Rest
    BY <1>3, <1>4, <2>3 DEF Rest
  <2> QED BY <1>1, <1>7, <2>1, <2>2, <2>3 DEF NewlineTick
<1>8. CASE ~w_reset /\ ~(o_gx_stb /\ ~o_nl_busy(tx_busy)) /\ tx_busy
  <2>1. UNCHANGED newline_vars
    BY <1>1, <1>8 DEF NewlineTick
  <2> QED BY <1>3, <2>1 DEF newline_vars
<1> QED BY <1>2, <1>5, <1>6, <1>7, <1>8

\* What hbnewline.v has on the line agrees with what it remembers
\* (hbnewline.v:68-155).
THEOREM LineStates == Spec => []LineState
<1>1. Init => LineState
  BY DEF Init, NewlineInit, GenhexInit, LineState, NUL, LF, CR
<1>2. TypeOK /\ LineState /\ [Next]_vars => LineState'
  <2> SUFFICES ASSUME TypeOK, LineState, [Next]_vars PROVE LineState' OBVIOUS
  <2>1. CASE Next
    BY <2>1, StepLineState DEF Next, Clock
  <2>2. CASE UNCHANGED vars
    BY <2>2 DEF vars, path_vars, genhex_vars, newline_vars, LineState
  <2> QED BY <2>1, <2>2
<1> QED BY <1>1, <1>2, Types, PTL DEF Spec

\* A carriage return that was sent is followed by a line feed, and a line feed by
\* no second one (hbnewline.v:185-195).
THEOREM Newlines == Spec => NewlinePairs
<1> DEFINE Pair == ~w_reset /\ Sends =>
          /\ o_nl_byte = CR => o_nl_stb' /\ o_nl_byte' = LF
          /\ o_nl_byte = LF => ~(o_nl_stb' /\ o_nl_byte' = LF)
<1>1. TypeOK /\ LineState /\ [Next]_vars => [Pair]_vars
  <2> SUFFICES ASSUME TypeOK, LineState, Next, ~w_reset, Sends
               PROVE  /\ o_nl_byte = CR => o_nl_stb' /\ o_nl_byte' = LF
                      /\ o_nl_byte = LF => ~(o_nl_stb' /\ o_nl_byte' = LF)
    BY DEF Pair
  <2> USE DEF LineState, TypeOK, NewlineTypeOK, GenhexTypeOK
  <2>1. NewlineTick(w_reset, o_gx_stb, o_gx_char, tx_busy)
    BY DEF Next, Path
  <2>2. o_nl_stb /\ ~tx_busy /\ CR # LF
    BY DEF Sends, CR, LF
  <2>3. CASE o_nl_byte = CR
    <3>1. cr_state /\ last_cr /\ o_nl_busy(tx_busy)
      BY <2>2, <2>3 DEF o_nl_busy
    <3>2. LineFeed
      BY <2>1, <2>2, <3>1 DEF NewlineTick, StartNewline, Rest
    <3> QED BY <2>2, <2>3, <3>2 DEF LineFeed
  <2>4. CASE o_nl_byte = LF
    <3>1. last_cr /\ ~cr_state
      BY <2>2, <2>4
    <3>2. PassOn(o_gx_char) \/ Rest
      BY <2>1, <2>2, <3>1 DEF NewlineTick, StartNewline, LineFeed
    <3> QED BY <2>2, <2>4, <3>2 DEF PassOn, Rest
  <2> QED BY <2>3, <2>4
<1> QED BY <1>1, Types, LineStates, PTL DEF Spec, NewlinePairs

-----------------------------------------------------------------------------
(* The interrupt.                                                             *)

\* A report in the buffer is a pending interrupt, a pending interrupt holds int_state
\* up, and the line has been low since the last report whenever hbints.v may or will
\* report.
ReportState ==
    /\ o_int_stb /\ int_loaded => pending_interrupt
    /\ pending_interrupt => int_state /\ armed
    /\ ~int_state => armed

LEMMA StepReportState ==
    ASSUME TypeOK, ReportState, NEW interrupt \in BOOLEAN, Clock(interrupt)
    PROVE  ReportState'
<1> USE DEF TypeOK, IntsTypeOK, ReportState
<1>1. IntsTick(w_reset, interrupt, rsp_stb, rsp_word, idl_busy)
  BY DEF Clock, Path
<1>2. armed' = (w_reset \/ ~interrupt \/ (armed /\ ~IntTaken(idl_busy)))
  BY DEF Clock, History
<1>3. idl_busy \in BOOLEAN
  BY DEF idl_busy, o_idl_busy, o_dw_busy, IdleTypeOK, DewordTypeOK
<1>4. o_int_stb' /\ int_loaded' => pending_interrupt'
  BY <1>1, <1>3 DEF IntsTick, Buffer, PendingInterrupt, IntTaken, o_int_busy
<1>5. pending_interrupt' => int_state' /\ armed'
  BY <1>1, <1>2, <1>3 DEF IntsTick, IntState, PendingInterrupt, IntTaken
<1>6. ~int_state' => armed'
  BY <1>1, <1>2, <1>3 DEF IntsTick, IntState
<1> QED BY <1>4, <1>5, <1>6

\* What hbints.v remembers agrees with what the line did (hbints.v:65-130).
THEOREM ReportStates == Spec => []ReportState
<1>1. Init => ReportState
  BY DEF Init, IntsInit, ReportState
<1>2. TypeOK /\ ReportState /\ [Next]_vars => ReportState'
  <2> SUFFICES ASSUME TypeOK, ReportState, [Next]_vars PROVE ReportState' OBVIOUS
  <2>1. CASE Next
    BY <2>1, StepReportState DEF Next, Clock
  <2>2. CASE UNCHANGED vars
    BY <2>2 DEF vars, path_vars, ints_vars, ReportState
  <2> QED BY <2>1, <2>2
<1> QED BY <1>1, <1>2, Types, PTL DEF Spec

\* An interrupt is reported at most once per assertion of the line
\* (hexbus/README.md:103-105; hbints.v:65-85).
THEOREM Reports == Spec => OneReportPerInterrupt
<1>1. ReportState => (IntTaken(idl_busy) /\ ~w_reset => armed)
  BY DEF ReportState, IntTaken
<1> QED BY <1>1, ReportStates, PTL DEF OneReportPerInterrupt

-----------------------------------------------------------------------------
(* The order of the responses.  What the host would have read when everything *)
(* up to some place of the channel has reached it is a record s; a character  *)
(* that passes from one place to the next leaves it as it is.                 *)

HostState == [cmd : Char, word : Payload, space : BOOLEAN, torn : BOOLEAN,
              owed : Seq(Response), ok : BOOLEAN]

\* A response has been read but for the character that ends it, and it is the right one.
Complete(s) == ~s.space /\ ~s.torn /\ s.cmd \in {"R", "K", "A", "T", "E"}
Right(s) == Complete(s) => /\ s.owed # <<>>
                           /\ s.cmd = w_gx_char(Head(s.owed).sub)
                           /\ s.word = Head(s.owed).word

\* The host reads c; ok says that no response so far was a wrong one.
Feed(s, c) ==
    IF c \in Nibble THEN [s EXCEPT !.word = ShiftIn(s.word, c), !.space = FALSE]
    ELSE [cmd |-> IF c \in {CR, LF} THEN s.cmd ELSE c, word |-> Zeros,
          space |-> c \in {CR, LF}, torn |-> FALSE,
          owed |-> IF Complete(s) /\ s.owed # <<>> THEN Tail(s.owed) ELSE s.owed,
          ok |-> s.ok /\ Right(s)]
Through(s, stb, c) == IF stb THEN Feed(s, c) ELSE s

\* One response more is owed.
More(s, r) == [s EXCEPT !.owed = Append(s.owed, r)]

\* Now, and when hbnewline.v, hbgenhex.v and hbdeword.v have sent what they hold.
Host == [cmd |-> m_cmd, word |-> m_word, space |-> m_isspace, torn |-> torn,
         owed |-> owed, ok |-> TRUE]
OnLine  == Through(Host, o_nl_stb, o_nl_byte)
Encoded == Through(OnLine, o_gx_stb, o_gx_char)
Sent    == Through(Encoded, o_dw_stb, w_gx_char(o_dw_bits))

LEMMA FeedType ==
    ASSUME NEW s \in HostState, NEW c \in Char
    PROVE  Feed(s, c) \in HostState
<1>1. CASE c \in Nibble
  <2>1. s.word \in Payload
    BY DEF HostState
  <2>2. ShiftIn(s.word, c) \in Payload
    BY <1>1, <2>1, ShiftInType
  <2> QED BY <1>1, <2>2 DEF Feed, HostState
<1>2. CASE c \notin Nibble
  <2>1. s.owed \in Seq(Response) /\ s.cmd \in Char /\ s.ok \in BOOLEAN /\ Zeros \in Payload
    BY WordTypes DEF HostState
  <2>2. (IF Complete(s) /\ s.owed # <<>> THEN Tail(s.owed) ELSE s.owed) \in Seq(Response)
    BY <2>1
  <2>3. (s.ok /\ Right(s)) \in BOOLEAN /\ (c \in {CR, LF}) \in BOOLEAN
    BY <2>1 DEF Right
  <2>4. (IF c \in {CR, LF} THEN s.cmd ELSE c) \in Char
    BY <2>1
  <2> QED BY <1>2, <2>1, <2>2, <2>3, <2>4, Zenon DEF Feed, HostState
<1> QED BY <1>1, <1>2

\* What a character that is no digit does.
LEMMA FeedOther ==
    ASSUME NEW s \in HostState, NEW c \in Char \ Nibble
    PROVE  /\ Feed(s, c).cmd = IF c \in {CR, LF} THEN s.cmd ELSE c
           /\ Feed(s, c).word = Zeros /\ ~Feed(s, c).torn
           /\ Feed(s, c).space = (c \in {CR, LF})
           /\ Feed(s, c).owed = IF Complete(s) /\ s.owed # <<>> THEN Tail(s.owed) ELSE s.owed
           /\ Feed(s, c).ok = (s.ok /\ Right(s))
  BY DEF Feed

\* What a digit does.
LEMMA FeedDigit ==
    ASSUME NEW s \in HostState, NEW c \in Nibble
    PROVE  /\ Feed(s, c).cmd = s.cmd /\ Feed(s, c).word = ShiftIn(s.word, c)
           /\ ~Feed(s, c).space /\ Feed(s, c).torn = s.torn
           /\ Feed(s, c).owed = s.owed /\ Feed(s, c).ok = s.ok
  BY DEF Feed, HostState

LEMMA HostEqual ==
    ASSUME NEW s \in HostState, NEW t \in HostState,
           s.cmd = t.cmd, s.word = t.word, s.space = t.space, s.torn = t.torn,
           s.owed = t.owed, s.ok = t.ok
    PROVE  s = t
  BY DEF HostState

\* A wrong response is not made good.
LEMMA FeedOk ==
    ASSUME NEW s \in HostState, NEW c \in Char, Feed(s, c).ok
    PROVE  s.ok /\ (c \notin Nibble => Right(s))
<1>1. CASE c \in Nibble
  <2>1. Feed(s, c).ok = s.ok
    BY <1>1, FeedDigit
  <2> QED BY <1>1, <2>1
<1>2. CASE c \notin Nibble
  <2>1. Feed(s, c).ok = (s.ok /\ Right(s))
    BY <1>2, FeedOther
  <2> QED BY <2>1
<1> QED BY <1>1, <1>2

\* After a newline, a line feed changes nothing.
LEMMA FeedLF ==
    ASSUME NEW s \in HostState, s.space, s.word = Zeros, ~s.torn
    PROVE  Feed(s, LF) = s
<1>1. LF \in Char /\ LF \notin Nibble
  BY DigitAssumption DEF Char
<1>2. Feed(s, LF) \in HostState /\ ~Complete(s) /\ Right(s)
  BY <1>1, FeedType DEF Complete, Right
<1>3. s.space = TRUE /\ s.torn = FALSE /\ s.ok \in BOOLEAN /\ Feed(s, LF).torn \in BOOLEAN
  BY <1>2 DEF HostState
<1> DEFINE t == Feed(s, LF)
<1>4. t.cmd = s.cmd /\ t.word = s.word /\ t.space = TRUE /\ ~t.torn /\ t.owed = s.owed
  BY <1>1, <1>2, FeedOther
<1>5. t.ok = s.ok
  <2>1. t.ok = (s.ok /\ Right(s))
    BY <1>1, FeedOther
  <2> QED BY <1>2, <1>3, <2>1
<1> HIDE DEF t
<1>6. t.torn = s.torn /\ t \in HostState
  BY <1>2, <1>3, <1>4 DEF t
<1> QED BY <1>3, <1>4, <1>5, <1>6, HostEqual DEF t

\* A carriage return before a character that is no digit changes nothing.
LEMMA FeedCR ==
    ASSUME NEW s \in HostState, NEW c \in Char \ Nibble
    PROVE  Feed(Feed(s, CR), c) = Feed(s, c)
<1> DEFINE t == Feed(s, CR)
<1>1. CR \in Char \ Nibble
  BY DigitAssumption DEF Char
<1>2. t \in HostState /\ Feed(s, c) \in HostState
  BY <1>1, FeedType
<1>3. /\ t.cmd = s.cmd /\ t.space = TRUE /\ t.ok = (s.ok /\ Right(s))
      /\ t.owed = IF Complete(s) /\ s.owed # <<>> THEN Tail(s.owed) ELSE s.owed
  BY <1>1, FeedOther
<1> HIDE DEF t
<1>4. ~Complete(t) /\ Right(t) /\ Feed(t, c) \in HostState
  BY <1>2, <1>3, FeedType DEF Complete, Right
<1>5. Feed(t, c).ok = Feed(s, c).ok
  <2>1. Feed(t, c).ok = (t.ok /\ Right(t)) /\ Feed(s, c).ok = (s.ok /\ Right(s))
    BY <1>2, FeedOther
  <2>2. t.ok \in BOOLEAN
    BY <1>2 DEF HostState
  <2> QED BY <1>3, <1>4, <2>1, <2>2
<1>6. Feed(t, c).torn = Feed(s, c).torn
  <2>1. ~Feed(t, c).torn /\ ~Feed(s, c).torn
    BY <1>2, FeedOther
  <2>2. Feed(t, c).torn \in BOOLEAN /\ Feed(s, c).torn \in BOOLEAN
    BY <1>2, <1>4 DEF HostState
  <2> QED BY <2>1, <2>2
<1>7. /\ Feed(t, c).cmd = Feed(s, c).cmd /\ Feed(t, c).word = Feed(s, c).word
      /\ Feed(t, c).space = Feed(s, c).space /\ Feed(t, c).owed = Feed(s, c).owed
  BY <1>2, <1>3, <1>4, FeedOther
<1> QED BY <1>2, <1>4, <1>5, <1>6, <1>7, HostEqual DEF t

\* It does not matter when one response more becomes owed, as long as those before it
\* are read right.
LEMMA FeedMore ==
    ASSUME NEW s \in HostState, NEW c \in Char, NEW r \in Response, Feed(s, c).ok
    PROVE  Feed(More(s, r), c) = More(Feed(s, c), r) /\ More(s, r) \in HostState
<1> DEFINE t == More(s, r)
<1>1. s.owed \in Seq(Response) /\ Append(s.owed, r) \in Seq(Response)
  BY DEF HostState
<1>2. t \in HostState /\ t.cmd = s.cmd /\ t.word = s.word /\ t.space = s.space
      /\ t.torn = s.torn /\ t.owed = Append(s.owed, r) /\ t.ok = s.ok
  BY <1>1 DEF More, HostState
<1>3. Feed(s, c) \in HostState
  BY FeedType
<1> DEFINE u == Feed(s, c)
<1> DEFINE v == More(u, r)
<1> HIDE DEF t, u
<1>4. u.owed \in Seq(Response) /\ Append(u.owed, r) \in Seq(Response) /\ u \in HostState
  BY <1>3 DEF HostState, u
<1>5. v \in HostState /\ v.cmd = u.cmd /\ v.word = u.word /\ v.space = u.space
      /\ v.torn = u.torn /\ v.owed = Append(u.owed, r) /\ v.ok = u.ok
  BY <1>4 DEF More, HostState
<1> HIDE DEF v
<1>6. Feed(t, c) \in HostState
  BY <1>2, FeedType
<1>7. CASE c \in Nibble
  <2>1. /\ Feed(t, c).owed = v.owed /\ Feed(t, c).cmd = v.cmd /\ Feed(t, c).word = v.word
        /\ Feed(t, c).torn = v.torn /\ Feed(t, c).ok = v.ok
    <3>1. /\ u.cmd = s.cmd /\ u.word = ShiftIn(s.word, c) /\ u.torn = s.torn
          /\ u.owed = s.owed /\ u.ok = s.ok
      BY <1>7, FeedDigit DEF u
    <3>2. /\ Feed(t, c).cmd = t.cmd /\ Feed(t, c).word = ShiftIn(t.word, c)
          /\ Feed(t, c).torn = t.torn /\ Feed(t, c).owed = t.owed /\ Feed(t, c).ok = t.ok
      BY <1>2, <1>7, FeedDigit
    <3> QED BY <1>2, <1>5, <3>1, <3>2, Zenon
  <2>2. ~Feed(t, c).space /\ ~u.space
    BY <1>2, <1>7, FeedDigit DEF u
  <2>3. Feed(t, c).space = v.space
    BY <1>4, <1>5, <1>6, <2>2 DEF HostState
  <2> QED BY <1>2, <1>5, <1>6, <2>1, <2>3, HostEqual DEF t, v, u
<1>8. CASE c \notin Nibble
  <2>1. Right(s) /\ s.ok
    BY <1>8, FeedOk
  <2>2. Complete(t) = Complete(s)
    BY <1>2 DEF Complete
  <2>3. Complete(s) => /\ Head(Append(s.owed, r)) = Head(s.owed)
                       /\ Tail(Append(s.owed, r)) = Append(Tail(s.owed), r)
    BY <1>1, <2>1 DEF Right
  <2>4. Append(s.owed, r) # <<>>
    BY <1>1
  <2>5. Right(t) /\ t.ok
    BY <1>2, <2>1, <2>2, <2>3, <2>4 DEF Right
  <2>6. Feed(t, c).owed = Append(u.owed, r)
    <3>1. u.owed = IF Complete(s) /\ s.owed # <<>> THEN Tail(s.owed) ELSE s.owed
      BY <1>8, FeedOther DEF u
    <3>2. Feed(t, c).owed = IF Complete(t) /\ t.owed # <<>> THEN Tail(t.owed) ELSE t.owed
      BY <1>2, <1>8, FeedOther
    <3> QED BY <1>2, <2>1, <2>2, <2>3, <2>4, <3>1, <3>2 DEF Right
  <2>7. Feed(t, c).cmd = u.cmd /\ Feed(t, c).word = u.word /\ Feed(t, c).space = u.space
    BY <1>2, <1>8, FeedOther DEF u
  <2>8. Feed(t, c).ok /\ u.ok /\ ~Feed(t, c).torn /\ ~u.torn
    BY <1>2, <1>8, <2>1, <2>5, FeedOther DEF u
  <2>9. Feed(t, c).ok = u.ok /\ Feed(t, c).torn = u.torn
    BY <1>4, <1>6, <2>8 DEF HostState
  <2> QED BY <1>2, <1>5, <1>6, <2>6, <2>7, <2>9, HostEqual DEF t, v, u
<1> QED BY <1>7, <1>8

\* What is left to read never grows by reading.
LEMMA FeedLength ==
    ASSUME NEW s \in HostState, NEW c \in Char
    PROVE  Len(Feed(s, c).owed) <= Len(s.owed)
<1>1. s.owed \in Seq(Response)
  BY DEF HostState
<1>2. CASE c \in Nibble
  BY <1>1, <1>2, FeedDigit
<1>3. CASE c \notin Nibble
  <2>1. Feed(s, c).owed = IF Complete(s) /\ s.owed # <<>> THEN Tail(s.owed) ELSE s.owed
    BY <1>3, FeedOther
  <2> QED BY <1>1, <2>1
<1> QED BY <1>2, <1>3

-----------------------------------------------------------------------------
(* The end of the channel.  Once everything below is sent the host has either *)
(* read no part of a response and is owed those that wait above, or it has    *)
(* read the front of one more whose last digits hbdeword.v still holds.       *)

Matches(w, s, len, word) ==
    /\ s.cmd = w_gx_char(w.sub)
    /\ \A j \in 1 .. WordLen :
         w.word[j] = IF j + len <= WordLen THEN s.word[j + len]
                     ELSE word[j - (WordLen - len)]

Awaits(s, waiting, len, word) ==
    \/ len = 0 /\ ~Complete(s) /\ s.owed = waiting
    \/ /\ Complete(s) /\ s.owed # <<>> /\ Tail(s.owed) = waiting
       /\ Matches(Head(s.owed), s, len, word)

\* A word the host is owed, and one whose digits are known.
Owes(w)   == w.sub \notin {"INT", "IDLE"}
Proper(w) == w.sub \in SpecialSub => w.word = Zeros

LEMMA PayloadEqual ==
    ASSUME NEW v \in Payload, NEW w \in Payload, \A j \in 1 .. WordLen : v[j] = w[j]
    PROVE  v = w
<1>1. v = [j \in 1 .. WordLen |-> v[j]] /\ w = [j \in 1 .. WordLen |-> w[j]]
  BY DEF Payload
<1>2. [j \in 1 .. WordLen |-> v[j]] = [j \in 1 .. WordLen |-> w[j]]
  OBVIOUS
<1> QED BY <1>1, <1>2, Zenon

\* The digits after one was shifted in.
LEMMA ShiftInAt ==
    ASSUME NEW w \in Payload, NEW d \in Nibble, NEW j \in 1 .. WordLen
    PROVE  ShiftIn(w, d)[j] = IF j < WordLen THEN w[j + 1] ELSE d
<1>1. w \in Seq(Nibble) /\ Len(w) = WordLen /\ WordLen \in Nat \ {0}
  BY WordAssumption DEF Payload
<1>2. Tail(w) \in Seq(Nibble) /\ Len(Tail(w)) = WordLen - 1
      /\ \A k \in 1 .. WordLen - 1 : Tail(w)[k] = w[k + 1]
  BY <1>1
<1> DEFINE t == Tail(w)
<1> HIDE DEF t
<1>3. t \in Seq(Nibble) /\ Len(t) = WordLen - 1
  BY <1>2 DEF t
<1>4. Append(t, d)[j] = IF j < WordLen THEN t[j] ELSE d
  BY <1>1, <1>3
<1> QED BY <1>1, <1>2, <1>4 DEF t, ShiftIn

\* The character that ends a response ends the right one.
LEMMA AwaitsRight ==
    ASSUME NEW s \in HostState, NEW waiting, NEW word, Awaits(s, waiting, 0, word)
    PROVE  Right(s) /\ waiting = IF Complete(s) /\ s.owed # <<>> THEN Tail(s.owed) ELSE s.owed
<1>1. CASE ~Complete(s)
  BY <1>1 DEF Awaits, Right
<1>2. CASE Complete(s)
  <2>1. s.owed # <<>> /\ Tail(s.owed) = waiting /\ Matches(Head(s.owed), s, 0, word)
    BY <1>2 DEF Awaits
  <2>2. s.owed \in Seq(Response) /\ s.word \in Payload
    BY DEF HostState
  <2>3. Head(s.owed) \in Response
    BY <2>1, <2>2
  <2>4. Head(s.owed).word \in Payload
    BY <2>3 DEF Response
  <2>5. \A j \in 1 .. WordLen : Head(s.owed).word[j] = s.word[j]
    BY <2>1, WordTypes DEF Matches
  <2>6. s.word = Head(s.owed).word
    BY <2>2, <2>4, <2>5, PayloadEqual
  <2> QED BY <1>2, <2>1, <2>6 DEF Matches, Right
<1> QED BY <1>1, <1>2

\* A newline after it.
LEMMA AwaitsEnd ==
    ASSUME NEW s \in HostState, NEW waiting, NEW word, Awaits(s, waiting, 0, word), s.ok
    PROVE  Awaits(Feed(s, CR), waiting, 0, word) /\ Feed(s, CR).ok
<1>1. CR \in Char \ Nibble
  BY DigitAssumption DEF Char
<1>2. Right(s) /\ Feed(s, CR).owed = waiting
  <2>1. Right(s) /\ waiting = IF Complete(s) /\ s.owed # <<>> THEN Tail(s.owed) ELSE s.owed
    BY AwaitsRight
  <2>2. Feed(s, CR).owed = IF Complete(s) /\ s.owed # <<>> THEN Tail(s.owed) ELSE s.owed
    BY <1>1, FeedOther
  <2> QED BY <2>1, <2>2
<1>3. Feed(s, CR).ok = (s.ok /\ Right(s)) /\ Feed(s, CR).space = (CR \in {CR, LF})
  BY <1>1, FeedOther
<1> QED BY <1>2, <1>3 DEF Awaits, Complete

\* The letter of the next word after it: hbdeword.v takes that word.
LEMMA AwaitsWord ==
    ASSUME NEW s \in HostState, NEW waiting, NEW word, Awaits(s, waiting, 0, word), s.ok,
           NEW w \in Response, Proper(w),
           Owes(w) => waiting # <<>> /\ Head(waiting) = w
    PROVE  /\ Awaits(Feed(s, w_gx_char(w.sub)), IF Owes(w) THEN Tail(waiting) ELSE waiting,
                     IF w.sub \in SpecialSub THEN 0 ELSE WordLen, w.word)
           /\ Feed(s, w_gx_char(w.sub)).ok
           /\ Owes(w) => Complete(Feed(s, w_gx_char(w.sub)))
<1> DEFINE c == w_gx_char(w.sub)
           t == Feed(s, c)
           len == IF w.sub \in SpecialSub THEN 0 ELSE WordLen
<1>1. w.sub \in RspSub /\ w.word \in Payload
  BY DEF Response
<1>2. c \in Letter /\ (Owes(w) <=> c \in {"R", "K", "A", "T", "E"})
  BY <1>1, DigitAssumption DEF w_gx_char, Letter, Owes, RspSub, SpecialSub, ValueSub
<1> HIDE DEF c
<1>3. c \in Char \ Nibble /\ c \notin {CR, LF}
  BY <1>2, DigitAssumption DEF Char, Letter, CR, LF
<1>4. t.cmd = c /\ t.word = Zeros /\ ~t.torn /\ t.owed = waiting /\ Right(s)
  <2>1. Right(s) /\ waiting = IF Complete(s) /\ s.owed # <<>> THEN Tail(s.owed) ELSE s.owed
    BY AwaitsRight
  <2>2. t.owed = IF Complete(s) /\ s.owed # <<>> THEN Tail(s.owed) ELSE s.owed
    BY <1>3, FeedOther
  <2>3. t.cmd = c /\ t.word = Zeros /\ ~t.torn
    BY <1>3, FeedOther
  <2> QED BY <2>1, <2>2, <2>3
<1>5. t.ok = (s.ok /\ Right(s)) /\ t.space = (c \in {CR, LF})
  BY <1>3, FeedOther
<1> HIDE DEF t
<1>6. t.ok /\ ~t.space
  BY <1>3, <1>4, <1>5
<1>7. Complete(t) <=> Owes(w)
  BY <1>2, <1>4, <1>6 DEF Complete
<1>8. CASE ~Owes(w)
  <2>1. len = 0
    BY <1>8 DEF Owes, SpecialSub
  <2> QED BY <1>4, <1>6, <1>7, <1>8, <2>1 DEF Awaits, t, c
<1>9. CASE Owes(w)
  <2>1. Matches(w, t, len, w.word)
    <3> SUFFICES ASSUME NEW j \in 1 .. WordLen
                 PROVE  w.word[j] = IF j + len <= WordLen THEN t.word[j + len]
                                    ELSE w.word[j - (WordLen - len)]
      BY <1>4 DEF Matches, c
    <3>1. WordLen \in Nat
      BY WordTypes
    <3>2. CASE w.sub \in SpecialSub
      BY <1>4, <3>1, <3>2 DEF Proper
    <3>3. CASE w.sub \notin SpecialSub
      <4>1. len = WordLen /\ ~(j + len <= WordLen) /\ j - (WordLen - len) = j
        BY <3>1, <3>3
      <4> QED BY <4>1
    <3> QED BY <3>2, <3>3
  <2> HIDE DEF len
  <2>2. Awaits(t, Tail(waiting), len, w.word)
    BY <1>4, <1>7, <1>9, <2>1 DEF Awaits
  <2> QED BY <1>6, <1>7, <1>9, <2>2 DEF t, c, len
<1> QED BY <1>8, <1>9

\* The next digit of it.
LEMMA AwaitsDigit ==
    ASSUME NEW s \in HostState, NEW waiting, NEW word \in Payload, NEW len \in 1 .. WordLen,
           Awaits(s, waiting, len, word)
    PROVE  /\ Awaits(Feed(s, Head(word)), waiting, len - 1, ShiftIn(word, "0"))
           /\ Feed(s, Head(word)).ok = s.ok /\ Complete(Feed(s, Head(word)))
<1> DEFINE d == Head(word)
           t == Feed(s, d)
           rest == ShiftIn(word, "0")
<1>1. d \in Nibble /\ d = word[1] /\ WordLen \in Nat \ {0} /\ s.word \in Payload
  BY HeadType, WordTypes DEF HostState, Payload
<1>2. /\ Complete(s) /\ s.owed # <<>> /\ Tail(s.owed) = waiting
      /\ Matches(Head(s.owed), s, len, word)
  BY DEF Awaits
<1> HIDE DEF d
<1>3. /\ t.cmd = s.cmd /\ t.word = ShiftIn(s.word, d) /\ ~t.space
      /\ t.torn = s.torn /\ t.owed = s.owed /\ t.ok = s.ok
  BY <1>1, FeedDigit
<1> HIDE DEF t
<1>4. Complete(t)
  BY <1>2, <1>3 DEF Complete
<1> DEFINE w == Head(s.owed)
<1> HIDE DEF w
<1>5. ASSUME NEW j \in 1 .. WordLen
      PROVE  w.word[j] = IF j + (len - 1) <= WordLen THEN t.word[j + (len - 1)]
                         ELSE rest[j - (WordLen - (len - 1))]
  <2>1. w.word[j] = IF j + len <= WordLen THEN s.word[j + len] ELSE word[j - (WordLen - len)]
    BY <1>2 DEF Matches, w
  <2>2. CASE j + (len - 1) < WordLen
    <3>1. j + (len - 1) \in 1 .. WordLen /\ j + (len - 1) + 1 = j + len /\ j + len <= WordLen
      BY <1>1, <2>2
    <3>2. t.word[j + (len - 1)] = s.word[j + len]
      BY <1>1, <1>3, <2>2, <3>1, ShiftInAt
    <3> QED BY <1>1, <2>1, <2>2, <3>1, <3>2
  <2>3. CASE j + (len - 1) = WordLen
    <3>1. ~(j + len <= WordLen) /\ j - (WordLen - len) = 1 /\ WordLen \in 1 .. WordLen
      BY <1>1, <2>3
    <3>2. t.word[WordLen] = d
      BY <1>1, <1>3, <3>1, ShiftInAt
    <3>3. w.word[j] = word[1]
      BY <2>1, <3>1
    <3>4. j + (len - 1) <= WordLen
      BY <1>1, <2>3
    <3> QED BY <1>1, <2>3, <3>2, <3>3, <3>4
  <2>4. CASE j + (len - 1) > WordLen
    <3> DEFINE k == j - (WordLen - (len - 1))
    <3>1. k \in 1 .. WordLen /\ k < WordLen /\ k + 1 = j - (WordLen - len)
          /\ ~(j + len <= WordLen) /\ ~(j + (len - 1) <= WordLen)
      BY <1>1, <2>4
    <3> HIDE DEF k
    <3>2. rest[k] = word[k + 1]
      BY <3>1, ShiftInAt, WordTypes
    <3>3. w.word[j] = word[k + 1]
      BY <2>1, <3>1
    <3> QED BY <3>1, <3>2, <3>3 DEF k
  <2> QED BY <1>1, <2>2, <2>3, <2>4
<1>6. Matches(w, t, len - 1, rest)
  <2> HIDE DEF rest
  <2> QED BY <1>2, <1>3, <1>5 DEF Matches, w
<1> HIDE DEF rest
<1>7. Awaits(t, waiting, len - 1, rest)
  BY <1>2, <1>3, <1>4, <1>6 DEF Awaits, w
<1> QED BY <1>3, <1>4, <1>7 DEF t, d, rest

\* One response more waits above.
LEMMA AwaitsMore ==
    ASSUME NEW s \in HostState, NEW waiting, NEW word, NEW len, NEW r \in Response,
           Awaits(s, waiting, len, word)
    PROVE  Awaits(More(s, r), Append(waiting, r), len, word)
<1> DEFINE t == More(s, r)
<1>1. s.owed \in Seq(Response)
  BY DEF HostState
<1>2. t.cmd = s.cmd /\ t.word = s.word /\ t.space = s.space
      /\ t.torn = s.torn /\ t.owed = Append(s.owed, r)
  BY DEF More, HostState
<1> HIDE DEF t
<1>3. Complete(t) <=> Complete(s)
  BY <1>2 DEF Complete
<1>4. CASE ~Complete(s)
  <2>1. len = 0 /\ s.owed = waiting
    BY <1>4 DEF Awaits
  <2> QED BY <1>2, <1>3, <1>4, <2>1 DEF Awaits, t
<1>5. CASE Complete(s)
  <2>1. s.owed # <<>> /\ Tail(s.owed) = waiting /\ Matches(Head(s.owed), s, len, word)
    BY <1>5 DEF Awaits
  <2>2. Append(s.owed, r) # <<>> /\ Head(Append(s.owed, r)) = Head(s.owed)
        /\ Tail(Append(s.owed, r)) = Append(Tail(s.owed), r)
    BY <1>1, <2>1
  <2>3. Matches(Head(t.owed), t, len, word)
    BY <1>2, <2>1, <2>2 DEF Matches
  <2>4. Tail(t.owed) = Append(waiting, r) /\ t.owed # <<>>
    BY <1>2, <2>1, <2>2
  <2> QED BY <1>3, <1>5, <2>3, <2>4 DEF Awaits, t
<1> QED BY <1>4, <1>5

-----------------------------------------------------------------------------
(* What the registers of the encoder and of the two buffers say of each other.*)

\* A code is a digit only behind the letter of its word; the CR of a newline that has
\* not gone out gives way to a letter, and no digit follows it.
EncoderState ==
    /\ ~o_dw_stb => r_len = 0
    /\ ~o_gx_stb /\ o_dw_stb => o_dw_bits \notin Nibble
    /\ cr_state /\ o_gx_stb => /\ o_gx_char \notin Nibble
                               /\ o_dw_stb => o_dw_bits \in Nibble
    /\ o_gx_stb => o_gx_char # CR
    /\ nl_loaded => ~cr_state /\ o_nl_stb
    /\ cr_state => last_cr /\ o_nl_stb /\ o_nl_byte = CR
    /\ o_nl_stb /\ ~nl_loaded => cr_state

\* A buffer holds a response or a word of its own making, and says which.
BufferState ==
    /\ Proper(rsp_word) /\ Proper(o_int_word) /\ Proper(o_idl_word)
    /\ Owes(rsp_word)
    /\ loaded => o_int_stb /\ ~int_loaded /\ Owes(o_int_word)
    /\ o_int_stb /\ ~loaded => int_loaded
    /\ int_loaded => o_int_word = INT_WORD
    /\ ~o_int_stb /\ pending_interrupt => int_loaded
    /\ ~o_idl_stb /\ o_idl_word # IDLE_WORD => ~o_dw_stb /\ ~idle_stb

\* The blocks of the channel on one clock without a reset.
LEMMA ClockDeword ==
    ASSUME TypeOK, ~w_reset, NEW interrupt \in BOOLEAN, Clock(interrupt)
    PROVE  \/ /\ o_idl_stb /\ ~o_dw_stb /\ o_dw_stb'
              /\ r_len' = IF o_idl_word.sub \in SpecialSub THEN 0 ELSE WordLen
              /\ r_word' = o_idl_word.word /\ o_dw_bits' = o_idl_word.sub
           \/ /\ ~(o_idl_stb /\ ~o_dw_stb) /\ ~hx_busy /\ o_dw_stb' = (r_len # 0)
              /\ r_len' = IF r_len # 0 THEN r_len - 1 ELSE 0
              /\ r_word' = ShiftIn(r_word, "0") /\ o_dw_bits' = Head(r_word)
           \/ ~(o_idl_stb /\ ~o_dw_stb) /\ hx_busy /\ UNCHANGED deword_vars
<1>1. DewordTick(w_reset, o_idl_stb, o_idl_word, hx_busy)
  BY DEF Clock, Path
<1>2. hx_busy \in BOOLEAN /\ o_dw_stb \in BOOLEAN /\ o_idl_stb \in BOOLEAN
  BY DEF hx_busy, o_gx_busy, TypeOK, GenhexTypeOK, DewordTypeOK, IdleTypeOK, nl_busy, o_nl_busy,
         NewlineTypeOK, tx_busy
<1> DEFINE accept == o_idl_stb /\ ~o_dw_stb
<1>3. o_dw_busy = o_dw_stb
  BY DEF o_dw_busy
<1>4. CASE accept
  <2>1. /\ o_dw_stb' = TRUE /\ r_len' = IF o_idl_word.sub \in SpecialSub THEN 0 ELSE WordLen
        /\ r_word' = o_idl_word.word /\ o_dw_bits' = o_idl_word.sub
    BY <1>1, <1>2, <1>3, <1>4 DEF DewordTick
  <2> QED BY <1>4, <2>1
<1>5. CASE ~accept /\ ~hx_busy
  <2>1. /\ o_dw_stb' = (r_len # 0) /\ r_len' = IF r_len # 0 THEN r_len - 1 ELSE 0
        /\ r_word' = ShiftIn(r_word, "0") /\ o_dw_bits' = Head(r_word)
    BY <1>1, <1>2, <1>3, <1>5 DEF DewordTick
  <2> QED BY <1>5, <2>1
<1>6. CASE ~accept /\ hx_busy
  <2>1. UNCHANGED deword_vars
    BY <1>1, <1>2, <1>3, <1>6 DEF DewordTick, deword_vars
  <2> QED BY <1>6, <2>1
<1> QED BY <1>2, <1>4, <1>5, <1>6

LEMMA ClockGenhex ==
    ASSUME TypeOK, ~w_reset, NEW interrupt \in BOOLEAN, Clock(interrupt)
    PROVE  \/ hx_busy /\ o_gx_stb /\ nl_busy /\ UNCHANGED genhex_vars
           \/ /\ ~hx_busy /\ ~(o_gx_stb /\ nl_busy)
              /\ o_gx_stb' = o_dw_stb /\ o_gx_char' = w_gx_char(o_dw_bits)
<1>1. GenhexTick(w_reset, o_dw_stb, o_dw_bits, nl_busy)
  BY DEF Clock, Path
<1>2. hx_busy = (o_gx_stb /\ nl_busy) /\ o_gx_stb \in BOOLEAN /\ o_dw_stb \in BOOLEAN
      /\ nl_busy \in BOOLEAN
  BY DEF hx_busy, o_gx_busy, TypeOK, GenhexTypeOK, DewordTypeOK, nl_busy, o_nl_busy,
         NewlineTypeOK, tx_busy
<1>3. CASE hx_busy
  BY <1>1, <1>2, <1>3 DEF GenhexTick, o_gx_busy, genhex_vars
<1>4. CASE ~hx_busy
  <2>1. o_gx_stb' = o_dw_stb /\ o_gx_char' = w_gx_char(o_dw_bits)
    BY <1>1, <1>2, <1>4 DEF GenhexTick, o_gx_busy
  <2> QED BY <1>2, <1>4, <2>1
<1> QED BY <1>3, <1>4

\* hbnewline.v starts a newline only when no character is at hand.
LEMMA ClockNewline ==
    ASSUME TypeOK, EncoderState, ~w_reset, NEW interrupt \in BOOLEAN, Clock(interrupt)
    PROVE  \/ o_gx_stb /\ ~nl_busy /\ PassOn(o_gx_char)
           \/ /\ ~o_gx_stb /\ ~tx_busy /\ ~cr_state /\ o_nl_stb' /\ o_nl_byte' = CR
              /\ cr_state' /\ last_cr' /\ ~nl_loaded'
           \/ ~tx_busy /\ cr_state /\ nl_busy /\ LineFeed
           \/ ~o_gx_stb /\ ~tx_busy /\ ~cr_state /\ Rest
           \/ tx_busy /\ (o_gx_stb => nl_busy) /\ UNCHANGED newline_vars
<1> USE DEF EncoderState, TypeOK, NewlineTypeOK, GenhexTypeOK
<1>1. NewlineTick(w_reset, o_gx_stb, o_gx_char, tx_busy)
  BY DEF Clock, Path
<1>2. nl_busy = o_nl_busy(tx_busy) /\ nl_busy \in BOOLEAN /\ tx_busy \in BOOLEAN
  BY DEF nl_busy, o_nl_busy, tx_busy
<1>3. CASE o_gx_stb /\ ~nl_busy
  BY <1>1, <1>2, <1>3 DEF NewlineTick
<1>4. CASE ~(o_gx_stb /\ ~nl_busy) /\ ~tx_busy
  <2>1. nl_busy <=> cr_state
    BY <1>2, <1>4 DEF o_nl_busy
  <2>2. CASE StartNewline(o_gx_stb)
    BY <1>2, <1>4, <2>1, <2>2 DEF StartNewline
  <2>3. CASE LineFeed
    BY <1>4, <2>1, <2>3 DEF LineFeed
  <2>4. CASE Rest
    BY <1>2, <1>4, <2>1, <2>4 DEF Rest
  <2> QED BY <1>1, <1>2, <1>4, <2>2, <2>3, <2>4 DEF NewlineTick
<1>5. CASE ~(o_gx_stb /\ ~nl_busy) /\ tx_busy
  <2>1. UNCHANGED newline_vars
    BY <1>1, <1>2, <1>5 DEF NewlineTick
  <2> QED BY <1>2, <1>5, <2>1
<1> QED BY <1>2, <1>3, <1>4, <1>5

\* A CR that waits and a character at hand: it came no later, so it is taken at once
\* unless the CR goes out first.
LEMMA WaitingCR ==
    ASSUME TypeOK, EncoderState, cr_state, tx_busy
    PROVE  ~nl_busy
  BY DEF EncoderState, nl_busy, o_nl_busy

\* The two codes that can come next are the two kinds of code there are.
LEMMA CodeKinds ==
    /\ \A c \in Nibble : w_gx_char(c) = c /\ c # CR /\ c # LF /\ c \in Char
    /\ \A c \in RspSub : w_gx_char(c) \in Letter /\ w_gx_char(c) # CR /\ c \notin Nibble
                         /\ w_gx_char(c) \notin Nibble /\ w_gx_char(c) \in Char
                         /\ w_gx_char(c) # LF
<1>1. \A c \in Nibble : w_gx_char(c) = c /\ c # CR /\ c # LF /\ c \in Char
  <2> TAKE c \in Nibble
  <2>1. w_gx_char(c) = c
    <3>1. c \notin RspSub
      BY DigitAssumption
    <3> QED BY <3>1 DEF w_gx_char, RspSub, SpecialSub, ValueSub
  <2>2. c # CR /\ c # LF /\ c \in Char
    BY DigitAssumption DEF Char
  <2> QED BY <2>1, <2>2
<1>2. \A c \in RspSub : w_gx_char(c) \in Letter /\ c \notin Nibble
  BY DigitAssumption DEF w_gx_char, Letter, RspSub, SpecialSub, ValueSub
<1>3. \A c \in Letter : c # CR /\ c # LF /\ c \notin Nibble /\ c \in Char
  BY DigitAssumption DEF Letter, CR, LF, Char
<1> QED BY <1>1, <1>2, <1>3

LEMMA StepEncoderState ==
    ASSUME TypeOK, EncoderState, NEW interrupt \in BOOLEAN, Clock(interrupt)
    PROVE  EncoderState'
<1> USE DEF TypeOK, DewordTypeOK, GenhexTypeOK, NewlineTypeOK
<1>1. CASE w_reset
  <2>1. ~o_dw_stb' /\ r_len' = 0 /\ ~o_gx_stb' /\ ~cr_state' /\ ~nl_loaded' /\ ~o_nl_stb'
    BY <1>1 DEF Clock, Path, DewordTick, GenhexTick, NewlineTick, NewlineReset
  <2> QED BY <2>1 DEF EncoderState
<1>2. CASE ~w_reset
  <2>1. ~o_dw_stb' => r_len' = 0
    BY <1>2, ClockDeword, WordTypes DEF EncoderState, deword_vars
  <2>2. ~o_gx_stb' /\ o_dw_stb' => o_dw_bits' \notin Nibble
    <3> SUFFICES ASSUME ~o_gx_stb', o_dw_stb' PROVE o_dw_bits' \notin Nibble
      OBVIOUS
    <3>1. ~hx_busy /\ ~o_dw_stb /\ r_len = 0
      BY <1>2, ClockGenhex DEF genhex_vars, EncoderState
    <3>2. o_dw_bits' = o_idl_word.sub
      BY <1>2, <3>1, ClockDeword
    <3>3. o_idl_word.sub \in RspSub
      BY DEF IdleTypeOK, Response
    <3> QED BY <3>2, <3>3, CodeKinds
  <2>3. o_gx_stb' => o_gx_char' # CR
    BY <1>2, ClockGenhex, CodeKinds DEF EncoderState, genhex_vars
  <2>4. ~(o_gx_stb /\ ~nl_busy /\ o_gx_char = CR)
    BY DEF EncoderState
  <2>5. /\ nl_loaded' => ~cr_state' /\ o_nl_stb'
        /\ cr_state' => last_cr' /\ o_nl_stb' /\ o_nl_byte' = CR
        /\ o_nl_stb' /\ ~nl_loaded' => cr_state'
    BY <1>2, <2>4, ClockNewline DEF EncoderState, PassOn, LineFeed, Rest, newline_vars
  <2>6. cr_state' => ~o_gx_stb
    BY <1>2, <2>4, ClockNewline, WaitingCR DEF EncoderState, PassOn, LineFeed, Rest, newline_vars
  <2>7. cr_state' /\ o_gx_stb' => /\ o_gx_char' \notin Nibble
                                  /\ o_dw_stb' => o_dw_bits' \in Nibble
    <3> SUFFICES ASSUME cr_state', o_gx_stb'
                 PROVE  /\ o_gx_char' \notin Nibble
                        /\ o_dw_stb' => o_dw_bits' \in Nibble
      OBVIOUS
    <3>1. ~o_gx_stb /\ ~hx_busy /\ o_dw_stb /\ o_gx_char' = w_gx_char(o_dw_bits)
      BY <1>2, <2>6, ClockGenhex
    <3>2. o_dw_bits \in RspSub
      BY <3>1 DEF EncoderState
    <3>3. o_dw_bits' = Head(r_word)
      BY <1>2, <3>1, ClockDeword
    <3> QED BY <3>1, <3>2, <3>3, CodeKinds, HeadType
  <2> QED BY <2>1, <2>2, <2>3, <2>5, <2>7 DEF EncoderState
<1> QED BY <1>1, <1>2

LEMMA Made ==
    /\ Proper(INT_WORD) /\ ~Owes(INT_WORD) /\ Proper(IDLE_WORD) /\ ~Owes(IDLE_WORD)
    /\ Proper(RSP_RESET) /\ Owes(RSP_RESET)
    /\ \A a \in Answers : Proper(a) /\ Owes(a)
<1>1. /\ Proper(INT_WORD) /\ ~Owes(INT_WORD) /\ Proper(IDLE_WORD) /\ ~Owes(IDLE_WORD)
      /\ Proper(RSP_RESET) /\ Owes(RSP_RESET) /\ Proper(RSP_BUS_ERROR) /\ Owes(RSP_BUS_ERROR)
  BY DEF INT_WORD, IDLE_WORD, RSP_RESET, RSP_BUS_ERROR, Special, Proper, Owes
<1>2. \A a \in [sub : ValueSub, word : Payload] : Proper(a) /\ Owes(a)
  BY DEF ValueSub, SpecialSub, Proper, Owes
<1> QED BY <1>1, <1>2, PathAssumption

LEMMA StepBufferState ==
    ASSUME TypeOK, BufferState, NEW interrupt \in BOOLEAN, Clock(interrupt)
    PROVE  BufferState'
<1> USE DEF TypeOK, IntsTypeOK, IdleTypeOK, DewordTypeOK
<1>1. IntsTick(w_reset, interrupt, rsp_stb, rsp_word, idl_busy)
      /\ IdleTick(w_reset, o_int_stb, o_int_word, o_dw_busy)
      /\ DewordTick(w_reset, o_idl_stb, o_idl_word, hx_busy) /\ Respond
  BY DEF Clock, Path
<1>2. idl_busy = (o_idl_stb /\ o_dw_stb) /\ o_dw_busy = o_dw_stb /\ o_int_busy = (o_int_stb /\ loaded)
      /\ o_idl_busy(o_dw_busy) = idl_busy /\ idl_busy \in BOOLEAN
  BY DEF idl_busy, o_idl_busy, o_dw_busy, o_int_busy
<1> DEFINE accept == rsp_stb /\ ~o_int_busy
<1>3. Proper(rsp_word') /\ Owes(rsp_word')
  BY <1>1, Made DEF Respond, BufferState
<1>4. Proper(o_int_word')
  BY <1>1, Made DEF IntsTick, Buffer, BufferState
<1>5. Proper(o_idl_word')
  BY <1>1, Made DEF IdleTick, IdleWord, BufferState
<1>6. loaded' => o_int_stb' /\ ~int_loaded' /\ Owes(o_int_word')
  BY <1>1, <1>2 DEF IntsTick, Buffer, BufferState
<1>7. o_int_stb' /\ ~loaded' => int_loaded'
  <2>1. CASE accept
    BY <1>1, <1>2, <2>1 DEF IntsTick, Buffer
  <2>2. CASE ~accept /\ (~idl_busy \/ ~o_int_stb)
    BY <1>1, <2>2 DEF IntsTick, Buffer
  <2>3. CASE ~accept /\ idl_busy /\ o_int_stb
    <3>1. UNCHANGED <<int_loaded, o_int_word>> /\ loaded' = (~w_reset /\ loaded)
          /\ o_int_stb' = (~w_reset /\ (pending_interrupt \/ loaded))
      BY <1>1, <1>2, <2>3 DEF IntsTick, Buffer
    <3> QED BY <2>3, <3>1 DEF BufferState
  <2> QED BY <2>1, <2>2, <2>3
<1>8. int_loaded' => o_int_word' = INT_WORD
  BY <1>1 DEF IntsTick, Buffer, BufferState
<1>9. ~o_int_stb' /\ pending_interrupt' => int_loaded'
  <2>1. CASE accept
    BY <1>1, <1>2, <2>1 DEF IntsTick, Buffer, PendingInterrupt
  <2>2. CASE ~accept /\ (~idl_busy \/ ~o_int_stb)
    BY <1>1, <2>2 DEF IntsTick, Buffer
  <2>3. CASE ~accept /\ idl_busy /\ o_int_stb
    <3>1. UNCHANGED <<int_loaded, o_int_word>> /\ (pending_interrupt' => ~w_reset)
          /\ o_int_stb' = /\ ~w_reset
                          /\ pending_interrupt \/ loaded
      BY <1>1, <1>2, <2>3 DEF IntsTick, Buffer, PendingInterrupt
    <3> QED BY <2>3, <3>1 DEF BufferState
  <2> QED BY <2>1, <2>2, <2>3
<1>10. ~o_idl_stb' /\ o_idl_word' # IDLE_WORD => ~o_dw_stb' /\ ~idle_stb'
  <2>1. CASE w_reset
    BY <1>1, <2>1 DEF DewordTick, IdleTick, IdleCounter
  <2>2. CASE ~w_reset
    <3> SUFFICES ASSUME ~o_idl_stb' PROVE o_idl_word' = IDLE_WORD
      OBVIOUS
    <3>1. ~(o_int_stb /\ ~idl_busy) /\ ~(idle_stb /\ ~o_idl_stb) /\ ~(o_idl_stb /\ o_dw_stb)
      BY <1>1, <1>2, <2>2 DEF IdleTick, IdleStb
    <3>2. o_idl_word' = IF ~o_dw_stb THEN IDLE_WORD ELSE o_idl_word
      BY <1>1, <1>2, <3>1 DEF IdleTick, IdleWord
    <3> QED BY <3>1, <3>2 DEF BufferState
  <2> QED BY <2>1, <2>2
<1> QED BY <1>3, <1>4, <1>5, <1>6, <1>7, <1>8, <1>9, <1>10 DEF BufferState

\* The registers of the encoder and of the buffers agree (hbdeword.v:65-106,
\* hbnewline.v:88-131, hbints.v:87-130, hbidle.v:85-109).
THEOREM RegisterStates == Spec => [](EncoderState /\ BufferState)
<1>1. Init => EncoderState /\ BufferState
  <2> SUFFICES ASSUME Init PROVE EncoderState /\ BufferState OBVIOUS
  <2>1. EncoderState
    BY DEF Init, DewordInit, GenhexInit, NewlineInit, EncoderState
  <2>2. BufferState
    BY Made DEF Init, IntsInit, IdleInit, BufferState
  <2> QED BY <2>1, <2>2
<1>2. TypeOK /\ EncoderState /\ BufferState /\ [Next]_vars => EncoderState' /\ BufferState'
  <2> SUFFICES ASSUME TypeOK, EncoderState, BufferState, [Next]_vars
               PROVE  EncoderState' /\ BufferState'
    OBVIOUS
  <2>1. CASE Next
    BY <2>1, StepEncoderState, StepBufferState DEF Next, Clock
  <2>2. CASE UNCHANGED vars
    <3>1. EncoderState'
      BY <2>2 DEF vars, path_vars, deword_vars, genhex_vars, newline_vars, EncoderState
    <3>2. BufferState'
      BY <2>2 DEF vars, path_vars, env_vars, ints_vars, idle_vars, deword_vars, BufferState
    <3> QED BY <3>1, <3>2
  <2> QED BY <2>1, <2>2
<1> QED BY <1>1, <1>2, Types, PTL DEF Spec

-----------------------------------------------------------------------------
(* One clock without a reset, place by place: what the host would have read   *)
(* changes only where hbdeword.v takes a word, gives a digit, or nothing is   *)
(* left to send and a newline is added.  The response that becomes owed on    *)
(* this clock is left out at first.                                           *)

HostNext == IF Sends THEN Feed(Host, o_nl_byte) ELSE Host
LineNext == Through(HostNext, o_nl_stb', o_nl_byte')
GoneNext == Through(LineNext, o_gx_stb', o_gx_char')
SentNext == Through(GoneNext, o_dw_stb', w_gx_char(o_dw_bits'))

LEMMA PlaceTypes ==
    ASSUME TypeOK
    PROVE  /\ Host \in HostState /\ OnLine \in HostState /\ Encoded \in HostState
           /\ Sent \in HostState /\ HostNext \in HostState
           /\ w_gx_char(o_dw_bits) \in Char
<1> USE DEF TypeOK, NewlineTypeOK, GenhexTypeOK, DewordTypeOK
<1>1. Host \in HostState
  BY DEF Host, HostState
<1> HIDE DEF TypeOK
<1>2. o_nl_byte \in Char /\ o_gx_char \in Char /\ w_gx_char(o_dw_bits) \in Char
  BY CodeType DEF TypeOK
<1>3. OnLine \in HostState /\ HostNext \in HostState
  BY <1>1, <1>2, FeedType DEF OnLine, Through, HostNext
<1>4. Encoded \in HostState
  BY <1>2, <1>3, FeedType DEF Encoded, Through
<1>5. Sent \in HostState
  BY <1>2, <1>4, FeedType DEF Sent, Through
<1> QED BY <1>1, <1>2, <1>3, <1>4, <1>5

LEMMA NextTypes ==
    ASSUME TypeOK, TypeOK'
    PROVE  /\ LineNext \in HostState /\ GoneNext \in HostState /\ SentNext \in HostState
           /\ o_nl_byte' \in Char /\ o_gx_char' \in Char /\ w_gx_char(o_dw_bits') \in Char
<1>1. o_nl_byte' \in Char /\ o_gx_char' \in Char /\ w_gx_char(o_dw_bits') \in Char
  BY CodeType DEF TypeOK, NewlineTypeOK, GenhexTypeOK
<1>2. HostNext \in HostState
  BY PlaceTypes
<1>3. LineNext \in HostState
  BY <1>1, <1>2, FeedType DEF LineNext, Through
<1>4. GoneNext \in HostState
  BY <1>1, <1>3, FeedType DEF GoneNext, Through
<1>5. SentNext \in HostState
  BY <1>1, <1>4, FeedType DEF SentNext, Through
<1> QED BY <1>1, <1>3, <1>4, <1>5

\* hbnewline.v: its character goes out, a CR gives way, a newline begins or ends.
LEMMA AtLine ==
    ASSUME TypeOK, EncoderState, ~w_reset, NEW interrupt \in BOOLEAN, Clock(interrupt)
    PROVE  /\ o_gx_stb /\ ~nl_busy => LineNext = Encoded
           /\ o_gx_stb /\ nl_busy => LineNext = OnLine
           /\ ~o_gx_stb => LineNext = OnLine \/ LineNext = Feed(OnLine, CR)
<1>1. Host \in HostState /\ OnLine \in HostState /\ CR \in Char \ Nibble /\ o_gx_char \in Char
  BY PlaceTypes, DigitAssumption DEF Char, TypeOK, GenhexTypeOK
<1>2. ~tx_busy => HostNext = OnLine
  BY DEF HostNext, Sends, OnLine, Through
<1>3. tx_busy => HostNext = Host
  BY DEF HostNext, Sends
<1>4. CASE o_gx_stb /\ ~nl_busy /\ PassOn(o_gx_char)
  <2>1. LineNext = Feed(HostNext, o_gx_char) /\ Encoded = Feed(OnLine, o_gx_char)
    BY <1>4 DEF LineNext, Encoded, Through, PassOn
  <2>2. CASE ~tx_busy
    BY <1>2, <1>4, <2>1, <2>2
  <2>3. CASE tx_busy /\ ~o_nl_stb
    <3>1. OnLine = Host
      BY <2>3 DEF OnLine, Through
    <3> QED BY <1>3, <1>4, <2>1, <2>3, <3>1
  <2>4. CASE tx_busy /\ o_nl_stb
    <3>1. cr_state /\ o_nl_byte = CR /\ o_gx_char \notin Nibble
      BY <1>4, <2>4 DEF nl_busy, o_nl_busy, EncoderState
    <3>2. OnLine = Feed(Host, CR)
      BY <2>4, <3>1 DEF OnLine, Through
    <3>3. Feed(OnLine, o_gx_char) = Feed(Host, o_gx_char)
      BY <1>1, <3>1, <3>2, FeedCR
    <3> QED BY <1>3, <1>4, <2>1, <2>4, <3>3
  <2> QED BY <2>2, <2>3, <2>4
<1>5. CASE ~o_gx_stb /\ ~tx_busy /\ o_nl_stb' /\ o_nl_byte' = CR
  BY <1>2, <1>5 DEF LineNext, Through
<1>6. CASE ~tx_busy /\ cr_state /\ nl_busy /\ LineFeed
  <2>1. OnLine = Feed(Host, CR) /\ LineNext = Feed(OnLine, LF)
    BY <1>2, <1>6 DEF LineNext, OnLine, Through, EncoderState, LineFeed
  <2>2. OnLine.word = Zeros /\ ~OnLine.torn /\ OnLine.space = (CR \in {CR, LF})
    BY <1>1, <2>1, FeedOther
  <2>3. LineNext = OnLine
    BY <1>1, <2>1, <2>2, FeedLF
  <2> QED BY <1>6, <2>3
<1>7. CASE ~o_gx_stb /\ ~tx_busy /\ Rest
  BY <1>2, <1>7 DEF LineNext, Through, Rest
<1>8. CASE tx_busy /\ (o_gx_stb => nl_busy) /\ UNCHANGED newline_vars
  BY <1>3, <1>8 DEF LineNext, OnLine, Through, newline_vars
<1> QED BY <1>4, <1>5, <1>6, <1>7, <1>8, ClockNewline

\* hbgenhex.v: it holds its character, or takes the next code.
LEMMA AtHex ==
    ASSUME TypeOK, EncoderState, ~w_reset, NEW interrupt \in BOOLEAN, Clock(interrupt)
    PROVE  /\ hx_busy => GoneNext = Encoded
           /\ ~hx_busy /\ o_dw_stb => GoneNext = Sent
           /\ ~hx_busy /\ ~o_dw_stb => GoneNext = Sent \/ GoneNext = Feed(Sent, CR)
<1>1. /\ Encoded \in HostState /\ OnLine \in HostState
      /\ w_gx_char(o_dw_bits) \in Char /\ o_dw_bits \in Nibble \cup RspSub
  BY PlaceTypes DEF TypeOK, DewordTypeOK
<1>2. CASE hx_busy
  <2>1. o_gx_stb /\ nl_busy /\ UNCHANGED genhex_vars
    BY <1>2, ClockGenhex
  <2>2. LineNext = OnLine
    BY <2>1, AtLine
  <2> QED BY <1>2, <2>1, <2>2 DEF GoneNext, Encoded, Through, genhex_vars
<1>3. CASE ~hx_busy
  <2>1. ~(o_gx_stb /\ nl_busy) /\ o_gx_stb' = o_dw_stb /\ o_gx_char' = w_gx_char(o_dw_bits)
    BY <1>3, ClockGenhex
  <2>2. LineNext = Encoded \/ (~o_gx_stb /\ LineNext = Feed(Encoded, CR))
    <3>1. CASE o_gx_stb
      BY <2>1, <3>1, AtLine
    <3>2. CASE ~o_gx_stb
      <4>1. Encoded = OnLine
        BY <3>2 DEF Encoded, Through
      <4> QED BY <3>2, <4>1, AtLine
    <3> QED BY <3>1, <3>2
  <2>3. CASE o_dw_stb
    <3>1. GoneNext = Feed(LineNext, w_gx_char(o_dw_bits))
          /\ Sent = Feed(Encoded, w_gx_char(o_dw_bits))
      BY <2>1, <2>3 DEF GoneNext, Sent, Through
    <3>2. CASE LineNext = Encoded
      BY <1>3, <2>3, <3>1, <3>2
    <3>3. CASE ~o_gx_stb /\ LineNext = Feed(Encoded, CR)
      <4>1. o_dw_bits \in RspSub
        BY <1>1, <2>3, <3>3 DEF EncoderState
      <4>2. w_gx_char(o_dw_bits) \in Char \ Nibble
        BY <1>1, <4>1, CodeKinds
      <4>3. GoneNext = Sent
        BY <1>1, <3>1, <3>3, <4>2, FeedCR
      <4> QED BY <1>3, <2>3, <4>3
    <3> QED BY <2>2, <3>2, <3>3
  <2>4. CASE ~o_dw_stb
    <3>1. GoneNext = LineNext /\ Sent = Encoded
      BY <2>1, <2>4 DEF GoneNext, Sent, Through
    <3> QED BY <1>3, <2>2, <2>4, <3>1
  <2> QED BY <2>3, <2>4
<1> QED BY <1>2, <1>3

\* hbdeword.v takes a word, gives a digit, or does nothing; a newline may be added when
\* it holds nothing.
TakesWord == /\ o_idl_stb /\ ~o_dw_stb /\ r_len = 0 /\ o_dw_stb'
             /\ o_dw_bits' = o_idl_word.sub /\ r_word' = o_idl_word.word
             /\ r_len' = IF o_idl_word.sub \in SpecialSub THEN 0 ELSE WordLen
             /\ SentNext = Feed(Sent, w_gx_char(o_idl_word.sub))
GivesDigit == /\ o_dw_stb /\ ~hx_busy /\ r_len # 0 /\ o_dw_stb'
              /\ o_dw_bits' = Head(r_word) /\ r_word' = ShiftIn(r_word, "0")
              /\ r_len' = r_len - 1
              /\ SentNext = Feed(Sent, Head(r_word))
Goes == /\ ~(o_idl_stb /\ ~o_dw_stb) /\ ~hx_busy /\ r_len = 0 /\ r_len' = 0 /\ ~o_dw_stb'
        /\ SentNext = Sent \/ (~o_dw_stb /\ SentNext = Feed(Sent, CR))
Holds == hx_busy /\ ~(o_idl_stb /\ ~o_dw_stb) /\ UNCHANGED deword_vars /\ SentNext = Sent

LEMMA AtWord ==
    ASSUME TypeOK, EncoderState, ~w_reset, NEW interrupt \in BOOLEAN, Clock(interrupt)
    PROVE  TakesWord \/ GivesDigit \/ Goes \/ Holds
<1>1. Sent \in HostState /\ r_word \in Payload /\ o_idl_word.sub \in RspSub
  BY PlaceTypes DEF TypeOK, DewordTypeOK, IdleTypeOK, Response
<1>2. ~o_dw_stb => Sent = Encoded
  BY DEF Sent, Through
<1>3. CASE /\ o_idl_stb /\ ~o_dw_stb /\ o_dw_stb'
           /\ r_len' = IF o_idl_word.sub \in SpecialSub THEN 0 ELSE WordLen
           /\ r_word' = o_idl_word.word /\ o_dw_bits' = o_idl_word.sub
  <2> DEFINE c == w_gx_char(o_idl_word.sub)
  <2>1. c \in Char \ Nibble
    BY <1>1, CodeKinds
  <2>2. SentNext = Feed(GoneNext, c)
    BY <1>3 DEF SentNext, Through
  <2> HIDE DEF c
  <2>3. GoneNext = Sent \/ GoneNext = Feed(Sent, CR)
    BY <1>2, <1>3, AtHex
  <2>4. SentNext = Feed(Sent, c)
    BY <1>1, <2>1, <2>2, <2>3, FeedCR
  <2> QED BY <1>3, <2>4 DEF TakesWord, EncoderState, c
<1>4. CASE /\ ~(o_idl_stb /\ ~o_dw_stb) /\ ~hx_busy /\ o_dw_stb' = (r_len # 0)
           /\ r_len' = IF r_len # 0 THEN r_len - 1 ELSE 0
           /\ r_word' = ShiftIn(r_word, "0") /\ o_dw_bits' = Head(r_word)
  <2>1. CASE r_len # 0
    <3>1. o_dw_stb /\ o_dw_stb' /\ GoneNext = Sent /\ r_len' = r_len - 1
      BY <1>4, <2>1, AtHex DEF EncoderState
    <3>2. w_gx_char(o_dw_bits') = Head(r_word)
      BY <1>1, <1>4, HeadType, CodeKinds
    <3>3. SentNext = Feed(Sent, Head(r_word))
      BY <3>1, <3>2 DEF SentNext, Through
    <3> QED BY <1>4, <2>1, <3>1, <3>3 DEF GivesDigit
  <2>2. CASE r_len = 0
    <3>1. ~o_dw_stb' /\ r_len' = 0 /\ SentNext = GoneNext
      BY <1>4, <2>2 DEF SentNext, Through
    <3>2. GoneNext = Sent \/ (~o_dw_stb /\ GoneNext = Feed(Sent, CR))
      BY <1>4, AtHex
    <3> QED BY <1>4, <2>2, <3>1, <3>2 DEF Goes
  <2> QED BY <2>1, <2>2
<1>5. CASE ~(o_idl_stb /\ ~o_dw_stb) /\ hx_busy /\ UNCHANGED deword_vars
  <2>1. GoneNext = Encoded
    BY <1>5, AtHex
  <2>2. SentNext = Sent
    BY <1>5, <2>1 DEF SentNext, Sent, Through, deword_vars
  <2> QED BY <1>5, <2>2 DEF Holds
<1> QED BY <1>3, <1>4, <1>5, ClockDeword

-----------------------------------------------------------------------------
(* The responses are in order.                                                *)

\* The responses that wait in the two buffers, the older one first.
IdleOwed == IF o_idl_stb /\ Owes(o_idl_word) THEN <<o_idl_word>> ELSE <<>>
IntOwed  == IF o_int_stb /\ loaded THEN <<o_int_word>> ELSE <<>>
Waiting  == IdleOwed \o IntOwed

\* What waits once hbdeword.v has taken a word, and what becomes owed.
Taken == IF o_idl_stb /\ ~o_dw_stb /\ Owes(o_idl_word) THEN Tail(Waiting) ELSE Waiting
New   == IF rsp_stb THEN <<rsp_word>> ELSE <<>>

\* The host has read, and will read of what is on its way, only what it is owed; the
\* rest of that waits in the buffers.
OrderState ==
    /\ Sent.ok
    /\ Awaits(Sent, Waiting, r_len, r_word)
    /\ o_dw_stb /\ o_dw_bits \notin {"INT", "IDLE"} => Complete(Sent)

\* A response comes only when the buffer of hbints.v is free.
Room == rsp_stb => ~loaded

LEMMA WaitingType ==
    ASSUME TypeOK
    PROVE  /\ IdleOwed \in Seq(Response) /\ IntOwed \in Seq(Response)
           /\ Waiting \in Seq(Response) /\ Taken \in Seq(Response)
           /\ o_idl_stb /\ Owes(o_idl_word) => /\ Waiting # <<>>
                                               /\ Head(Waiting) = o_idl_word
                                               /\ Tail(Waiting) = IntOwed
           /\ ~(o_idl_stb /\ Owes(o_idl_word)) => Waiting = IntOwed
<1>1. o_idl_word \in Response /\ o_int_word \in Response
  BY DEF TypeOK, IntsTypeOK, IdleTypeOK
<1>2. IdleOwed \in Seq(Response) /\ IntOwed \in Seq(Response)
  BY <1>1 DEF IdleOwed, IntOwed
<1>3. CASE o_idl_stb /\ Owes(o_idl_word)
  <2> DEFINE q == IntOwed
  <2> HIDE DEF q
  <2>1. q \in Seq(Response)
    BY <1>2 DEF q
  <2>2. /\ <<o_idl_word>> \o q \in Seq(Response) /\ <<o_idl_word>> \o q # <<>>
        /\ Head(<<o_idl_word>> \o q) = o_idl_word /\ Tail(<<o_idl_word>> \o q) = q
    BY <1>1, <2>1
  <2>3. Waiting = <<o_idl_word>> \o q
    BY <1>3 DEF Waiting, IdleOwed, q
  <2> QED BY <1>2, <1>3, <2>1, <2>2, <2>3 DEF Taken, q
<1>4. CASE ~(o_idl_stb /\ Owes(o_idl_word))
  <2>1. Waiting = IntOwed
    <3>1. IdleOwed = <<>>
      BY <1>4 DEF IdleOwed
    <3> QED BY <1>2, <3>1 DEF Waiting
  <2> QED BY <1>2, <1>4, <2>1 DEF Taken
<1> QED BY <1>3, <1>4

\* The buffers hand on what waits, in order.
LEMMA WaitingNext ==
    ASSUME TypeOK, TypeOK', BufferState, Room, ~w_reset, NEW interrupt \in BOOLEAN,
           Clock(interrupt)
    PROVE  Waiting' = Taken \o New
<1> USE DEF TypeOK, IntsTypeOK, IdleTypeOK, DewordTypeOK
<1>1. IntsTick(w_reset, interrupt, rsp_stb, rsp_word, idl_busy)
      /\ IdleTick(w_reset, o_int_stb, o_int_word, o_dw_busy)
  BY DEF Clock, Path
<1>2. idl_busy = (o_idl_stb /\ o_dw_stb) /\ o_dw_busy = o_dw_stb /\ o_int_busy = (o_int_stb /\ loaded)
      /\ o_idl_busy(o_dw_busy) = idl_busy /\ idl_busy \in BOOLEAN
  BY DEF idl_busy, o_idl_busy, o_dw_busy, o_int_busy
<1>3. /\ Waiting = IdleOwed \o IntOwed /\ Waiting' = IdleOwed' \o IntOwed'
      /\ IntOwed \in Seq(Response) /\ IdleOwed \in Seq(Response) /\ rsp_word \in Response
  BY WaitingType DEF Waiting
<1>4. loaded => o_int_stb /\ Owes(o_int_word)
  BY DEF BufferState
<1>5. o_int_stb /\ ~loaded => ~Owes(o_int_word)
  BY Made DEF BufferState
<1>6. IntOwed = IF loaded THEN <<o_int_word>> ELSE <<>>
  BY <1>4 DEF IntOwed
\* hbidle.v takes the word of hbints.v.
<1>7. CASE o_int_stb /\ ~idl_busy
  <2>1. o_idl_stb' /\ o_idl_word' = o_int_word
    BY <1>1, <1>2, <1>7 DEF IdleTick, IdleStb, IdleWord
  <2>2. IdleOwed' = IntOwed
    BY <1>4, <1>5, <1>6, <1>7, <2>1 DEF IdleOwed, Owes
  <2>3. Taken = IntOwed
    BY <1>2, <1>7, WaitingType DEF Taken
  <2>4. IntOwed' = New
    <3>1. CASE rsp_stb
      BY <1>1, <1>2, <3>1 DEF IntsTick, Buffer, Room, IntOwed, New
    <3>2. CASE ~rsp_stb
      BY <1>1, <1>2, <1>7, <3>2 DEF IntsTick, Buffer, IntOwed, New
    <3> QED BY <3>1, <3>2
  <2> QED BY <1>3, <2>2, <2>3, <2>4
\* It holds its own.
<1>8. CASE idl_busy
  <2>1. o_idl_stb' /\ o_idl_word' = o_idl_word
    BY <1>1, <1>2, <1>8 DEF IdleTick, IdleStb, IdleWord
  <2>2. IdleOwed' = IdleOwed /\ Taken = Waiting
    BY <1>2, <1>8, <2>1 DEF IdleOwed, Taken
  <2>3. CASE rsp_stb
    <3>1. IntOwed = <<>> /\ IntOwed' = <<rsp_word>> /\ New = <<rsp_word>>
      BY <1>1, <1>2, <2>3 DEF IntsTick, Buffer, Room, IntOwed, New
    <3>2. IdleOwed \o <<>> = IdleOwed
      BY <1>3
    <3> QED BY <1>3, <2>2, <3>1, <3>2
  <2>4. CASE ~rsp_stb
    <3>1. IntOwed' = IntOwed /\ New = <<>>
      BY <1>1, <1>2, <1>4, <1>8, <2>4 DEF IntsTick, Buffer, IntOwed, New
    <3>2. Waiting \o <<>> = Waiting
      BY WaitingType
    <3> QED BY <1>3, <2>2, <3>1, <3>2
  <2> QED BY <2>3, <2>4
\* Neither holds a word.
<1>9. CASE ~o_int_stb /\ ~idl_busy
  <2>1. ~loaded /\ IntOwed = <<>>
    BY <1>4, <1>6, <1>9
  <2>2. o_idl_stb' => ~o_idl_stb /\ idle_stb /\ (o_dw_stb => o_idl_word' = o_idl_word)
    BY <1>1, <1>2, <1>9 DEF IdleTick, IdleStb, IdleWord
  <2>3. ~o_dw_stb => o_idl_word' = IDLE_WORD
    BY <1>1, <1>2, <1>9 DEF IdleTick, IdleWord
  <2>4. o_idl_stb' => o_idl_word' = IDLE_WORD
    BY <2>2, <2>3 DEF BufferState
  <2>5. IdleOwed' = <<>>
    BY <2>4, Made DEF IdleOwed
  <2>6. Taken = <<>>
    BY <1>2, <1>9, <2>1, WaitingType DEF Taken
  <2>7. IntOwed' = New
    <3>1. CASE rsp_stb
      BY <1>1, <1>2, <3>1 DEF IntsTick, Buffer, Room, IntOwed, New
    <3>2. CASE ~rsp_stb
      BY <1>1, <1>2, <2>1, <3>2 DEF IntsTick, Buffer, IntOwed, New
    <3> QED BY <3>1, <3>2
  <2> QED BY <1>3, <2>5, <2>6, <2>7
<1> QED BY <1>2, <1>7, <1>8, <1>9

\* The end of the channel, before the response of this clock.
LEMMA SentNextOrder ==
    ASSUME TypeOK, EncoderState, BufferState, OrderState, ~w_reset,
           NEW interrupt \in BOOLEAN, Clock(interrupt)
    PROVE  /\ SentNext.ok /\ Awaits(SentNext, Taken, r_len', r_word')
           /\ o_dw_stb' /\ o_dw_bits' \notin {"INT", "IDLE"} => Complete(SentNext)
<1>1. /\ Sent \in HostState /\ r_word \in Payload /\ o_idl_word \in Response
      /\ r_len \in 0 .. WordLen
  BY PlaceTypes DEF TypeOK, DewordTypeOK, IdleTypeOK
<1>2. Sent.ok /\ Awaits(Sent, Waiting, r_len, r_word)
  BY DEF OrderState
<1>3. ~(o_idl_stb /\ ~o_dw_stb) => Taken = Waiting
  BY DEF Taken
<1>4. CASE TakesWord
  <2> USE DEF TakesWord
  <2>1. Proper(o_idl_word) /\ Taken = IF Owes(o_idl_word) THEN Tail(Waiting) ELSE Waiting
    BY <1>4 DEF BufferState, Taken
  <2>2. Owes(o_idl_word) => Waiting # <<>> /\ Head(Waiting) = o_idl_word
    BY <1>4, WaitingType
  <2>3. Awaits(Sent, Waiting, 0, r_word)
    BY <1>2, <1>4
  <2>4. /\ Awaits(SentNext, IF Owes(o_idl_word) THEN Tail(Waiting) ELSE Waiting,
                  IF o_idl_word.sub \in SpecialSub THEN 0 ELSE WordLen, o_idl_word.word)
        /\ SentNext.ok /\ (Owes(o_idl_word) => Complete(SentNext))
    BY <1>1, <1>2, <1>4, <2>1, <2>2, <2>3, AwaitsWord
  <2>5. Awaits(SentNext, Taken, r_len', r_word')
    BY <1>4, <2>1, <2>4
  <2>6. o_dw_bits' \notin {"INT", "IDLE"} => Complete(SentNext)
    BY <1>4, <2>4 DEF Owes
  <2> QED BY <2>4, <2>5, <2>6
<1>5. CASE GivesDigit
  <2>1. r_len \in 1 .. WordLen
    BY <1>1, <1>5, WordTypes DEF GivesDigit
  <2>2. /\ Awaits(SentNext, Waiting, r_len - 1, ShiftIn(r_word, "0"))
        /\ SentNext.ok = Sent.ok /\ Complete(SentNext)
    BY <1>1, <1>2, <1>5, <2>1, AwaitsDigit DEF GivesDigit
  <2> QED BY <1>2, <1>3, <1>5, <2>2 DEF GivesDigit
<1>6. CASE Goes
  <2>1. Awaits(Sent, Waiting, 0, r_word)
    BY <1>2, <1>6 DEF Goes
  <2>2. Awaits(SentNext, Waiting, 0, r_word) /\ SentNext.ok
    BY <1>1, <1>2, <1>6, <2>1, AwaitsEnd DEF Goes
  <2>3. Awaits(SentNext, Waiting, 0, r_word')
    BY <2>2, WordTypes DEF Awaits, Matches
  <2> QED BY <1>3, <1>6, <2>2, <2>3 DEF Goes
<1>7. CASE Holds
  BY <1>2, <1>3, <1>7 DEF Holds, deword_vars, OrderState
<1> QED BY <1>4, <1>5, <1>6, <1>7, AtWord

\* The host on one clock without a reset.
LEMMA HostAfter ==
    ASSUME TypeOK, ~w_reset, NEW interrupt \in BOOLEAN, Clock(interrupt), HostNext.ok
    PROVE  Host' = IF rsp_stb THEN More(HostNext, rsp_word) ELSE HostNext
<1> USE DEF TypeOK, NewlineTypeOK
<1>1. Receive /\ History(interrupt)
  BY DEF Clock
<1> DEFINE left == IF Reads /\ ~torn /\ owed # <<>> THEN Tail(owed) ELSE owed
           next == [cmd |-> m_cmd', word |-> m_word', space |-> m_isspace', torn |-> torn',
                    owed |-> left, ok |-> TRUE]
<1>2. owed' = (IF rsp_stb THEN Append(left, rsp_word) ELSE left) /\ torn' = (torn /\ ~Ends)
  BY <1>1 DEF History
<1>3. Host \in HostState
  BY PlaceTypes
<1>4. next = HostNext
  <2>1. CASE ~Sends
    <3>1. ~Ends /\ ~Reads /\ UNCHANGED <<m_cmd, m_word, m_isspace>>
      BY <1>1, <2>1 DEF Receive, Ends, Reads
    <3>2. left = owed /\ torn' = torn
      BY <1>2, <3>1
    <3> QED BY <2>1, <3>1, <3>2 DEF HostNext, Host
  <2>2. CASE Sends /\ o_nl_byte \in Nibble
    <3>1. /\ ~Ends /\ ~Reads /\ m_word' = ShiftIn(m_word, o_nl_byte)
          /\ m_isspace' = FALSE /\ m_cmd' = m_cmd
      BY <1>1, <2>2 DEF Receive, Ends, Reads
    <3>2. left = owed /\ torn' = torn
      BY <1>2, <3>1
    <3> QED BY <2>2, <3>1, <3>2 DEF HostNext, Host, Feed
  <2>3. CASE Ends
    <3>1. /\ m_word' = Zeros /\ m_isspace' = (o_nl_byte \in {CR, LF})
          /\ m_cmd' = IF o_nl_byte \in {CR, LF} THEN m_cmd ELSE o_nl_byte
          /\ Sends /\ o_nl_byte \notin Nibble /\ torn' = FALSE
      BY <1>1, <1>2, <2>3 DEF Receive, Ends
    <3>2. (Reads /\ ~torn) <=> Complete(Host)
      BY <2>3 DEF Reads, Complete, Host
    <3>3. HostNext = Feed(Host, o_nl_byte) /\ Feed(Host, o_nl_byte).ok
      BY <3>1 DEF HostNext
    <3>4. HostNext = [cmd |-> IF o_nl_byte \in {CR, LF} THEN m_cmd ELSE o_nl_byte, word |-> Zeros,
                      space |-> o_nl_byte \in {CR, LF}, torn |-> FALSE,
                      owed |-> IF Complete(Host) /\ owed # <<>> THEN Tail(owed) ELSE owed,
                      ok |-> TRUE /\ Right(Host)]
      BY <3>1, <3>3 DEF Feed, Host
    <3>5. (TRUE /\ Right(Host)) = TRUE
      BY <3>3, <3>4 DEF Right
    <3>6. left = IF Complete(Host) /\ owed # <<>> THEN Tail(owed) ELSE owed
      BY <3>2
    <3> QED BY <3>1, <3>4, <3>5, <3>6
  <2> QED BY <2>1, <2>2, <2>3 DEF Ends
<1> DEFINE more == Append(left, rsp_word)
<1> HIDE DEF left, more
<1>5. CASE rsp_stb
  BY <1>2, <1>4, <1>5 DEF Host, More, more
<1>6. CASE ~rsp_stb
  BY <1>2, <1>4, <1>6 DEF Host
<1> QED BY <1>5, <1>6

\* A response that becomes owed is added to what the host would have read everywhere.
LEMMA SentAfter ==
    ASSUME TypeOK, TypeOK', ~w_reset, NEW interrupt \in BOOLEAN, Clock(interrupt), SentNext.ok
    PROVE  Sent' = IF rsp_stb THEN More(SentNext, rsp_word) ELSE SentNext
<1>1. /\ HostNext \in HostState /\ LineNext \in HostState /\ GoneNext \in HostState
      /\ o_nl_byte' \in Char /\ o_gx_char' \in Char /\ w_gx_char(o_dw_bits') \in Char
      /\ rsp_word \in Response
  BY PlaceTypes, NextTypes DEF TypeOK
<1>2. GoneNext.ok
  BY <1>1, FeedOk DEF SentNext, Through
<1>3. LineNext.ok
  BY <1>1, <1>2, FeedOk DEF GoneNext, Through
<1>4. HostNext.ok
  BY <1>1, <1>3, FeedOk DEF LineNext, Through
<1>5. Host' = IF rsp_stb THEN More(HostNext, rsp_word) ELSE HostNext
  BY <1>4, HostAfter
<1>6. OnLine' = IF rsp_stb THEN More(LineNext, rsp_word) ELSE LineNext
  BY <1>1, <1>3, <1>5, FeedMore DEF OnLine, LineNext, Through
<1>7. Encoded' = IF rsp_stb THEN More(GoneNext, rsp_word) ELSE GoneNext
  BY <1>1, <1>2, <1>6, FeedMore DEF Encoded, GoneNext, Through
<1> QED BY <1>1, <1>7, FeedMore DEF Sent, SentNext, Through

LEMMA StepOrderState ==
    ASSUME TypeOK, EncoderState, BufferState, OrderState, Room, NEW interrupt \in BOOLEAN,
           Clock(interrupt)
    PROVE  OrderState'
<1>1. TypeOK'
  BY StepType
<1>2. CASE w_reset
  <2>1. /\ ~o_dw_stb' /\ r_len' = 0 /\ ~o_gx_stb' /\ ~o_nl_stb' /\ ~o_idl_stb' /\ ~o_int_stb'
        /\ owed' = <<>> /\ torn' = (m_isspace' = FALSE)
    BY <1>2 DEF Clock, Path, DewordTick, GenhexTick, NewlineTick, NewlineReset, IntsTick, Buffer,
                IdleTick, IdleStb, History
  <2>2. Sent' = Host' /\ Waiting' = <<>>
    BY <2>1 DEF Sent, Encoded, OnLine, Through, Waiting, IdleOwed, IntOwed
  <2>3. m_isspace' \in BOOLEAN
    BY <1>1 DEF TypeOK
  <2>4. ~Complete(Host)' /\ Host'.ok /\ Host'.owed = <<>>
    BY <2>1, <2>3 DEF Complete, Host
  <2> QED BY <2>1, <2>2, <2>4 DEF OrderState, Awaits, Complete
<1>3. CASE ~w_reset
  <2>1. /\ SentNext.ok /\ Awaits(SentNext, Taken, r_len', r_word')
        /\ o_dw_stb' /\ o_dw_bits' \notin {"INT", "IDLE"} => Complete(SentNext)
    BY <1>3, SentNextOrder
  <2>2. /\ Sent' = IF rsp_stb THEN More(SentNext, rsp_word) ELSE SentNext
        /\ Waiting' = Taken \o New
    BY <1>1, <1>3, <2>1, SentAfter, WaitingNext
  <2>3. SentNext \in HostState /\ rsp_word \in Response /\ Taken \in Seq(Response)
    BY <1>1, NextTypes, WaitingType DEF TypeOK
  <2>4. CASE rsp_stb
    <3>1. Waiting' = Append(Taken, rsp_word)
      BY <2>2, <2>3, <2>4 DEF New
    <3>2. Sent'.ok = SentNext.ok /\ (Complete(SentNext) => Complete(Sent'))
      BY <2>2, <2>3, <2>4 DEF More, HostState, Complete
    <3>3. Awaits(Sent', Waiting', r_len', r_word')
      BY <2>1, <2>2, <2>3, <2>4, <3>1, AwaitsMore
    <3> QED BY <2>1, <3>2, <3>3 DEF OrderState
  <2>5. CASE ~rsp_stb
    <3>1. Waiting' = Taken /\ Sent' = SentNext
      BY <2>2, <2>3, <2>5 DEF New
    <3> QED BY <2>1, <3>1 DEF OrderState
  <2> QED BY <2>4, <2>5
<1> QED BY <1>2, <1>3

-----------------------------------------------------------------------------
(* The buffer of hbints.v is free when a response comes, although nothing     *)
(* holds hbexec.v back.  That takes a host that leaves at most two responses  *)
(* outstanding: the second one waits in hbints.v only while the channel is    *)
(* busy with a word of its own making, or with the one before it, and then    *)
(* the host is owed both.                                                     *)

\* Clocks until hbdeword.v gives up the word it holds, when it holds a word with no
\* digits and hbidle.v waits for it.
Drain == IF ~(o_idl_stb /\ o_dw_stb) THEN 0 ELSE IF hx_busy THEN tx_left + 1 ELSE 1

TimingState ==
    /\ rsp_stb => Len(owed) <= 1 /\ quiet = Apart - 1 /\ ~loaded
    /\ Len(owed) <= 2
    /\ loaded /\ Len(owed) <= 1 => Drain <= quiet
    /\ ~o_gx_stb /\ o_dw_stb /\ o_idl_stb /\ pending_interrupt => Owes(o_idl_word) \/ loaded
    /\ cr_state /\ o_gx_stb /\ ~o_dw_stb /\ o_idl_stb /\ o_int_stb => Owes(o_idl_word) \/ loaded

LEMMA SentLength == TypeOK => Len(Sent.owed) <= Len(owed)
<1> SUFFICES ASSUME TypeOK PROVE Len(Sent.owed) <= Len(owed) OBVIOUS
<1>1. /\ Host \in HostState /\ OnLine \in HostState /\ Encoded \in HostState /\ Sent \in HostState
      /\ w_gx_char(o_dw_bits) \in Char /\ o_gx_char \in Char /\ o_nl_byte \in Char
  BY PlaceTypes DEF TypeOK, GenhexTypeOK, NewlineTypeOK
<1>2. /\ Len(Host.owed) \in Nat /\ Len(OnLine.owed) \in Nat /\ Len(Encoded.owed) \in Nat
      /\ Len(Sent.owed) \in Nat
  BY <1>1 DEF HostState
<1>3. Len(Sent.owed) <= Len(Encoded.owed)
  BY <1>1, <1>2, FeedLength DEF Sent, Through
<1>4. Len(Encoded.owed) <= Len(OnLine.owed)
  BY <1>1, <1>2, FeedLength DEF Encoded, Through
<1>5. Len(OnLine.owed) <= Len(Host.owed)
  BY <1>1, <1>2, FeedLength DEF OnLine, Through
<1>6. Host.owed = owed
  BY DEF Host
<1> QED BY <1>2, <1>3, <1>4, <1>5, <1>6

\* A response in hbints.v that is the only one owed has none before it.
LEMMA Alone ==
    TypeOK /\ BufferState /\ OrderState /\ loaded /\ Len(owed) <= 1 =>
        /\ o_dw_stb => o_dw_bits \in {"INT", "IDLE"}
        /\ o_idl_stb => ~Owes(o_idl_word)
<1> SUFFICES ASSUME TypeOK, BufferState, OrderState, loaded, Len(owed) <= 1
             PROVE  /\ o_dw_stb => o_dw_bits \in {"INT", "IDLE"}
                    /\ o_idl_stb => ~Owes(o_idl_word)
  OBVIOUS
<1>1. /\ Sent.owed \in Seq(Response) /\ Len(Sent.owed) <= Len(owed) /\ Len(owed) \in Nat
      /\ Waiting \in Seq(Response) /\ IntOwed = <<o_int_word>>
  BY PlaceTypes, SentLength, WaitingType DEF TypeOK, HostState, BufferState, IntOwed
<1>2. Len(Waiting) >= 1
  <2>1. Waiting = <<o_int_word>> \/ Waiting # <<>>
    BY <1>1, WaitingType
  <2> QED BY <1>1, <2>1
<1>3. o_idl_stb /\ Owes(o_idl_word) => Len(Waiting) >= 2
  BY <1>1, <1>2, WaitingType
<1>4. Awaits(Sent, Waiting, r_len, r_word)
  BY DEF OrderState
<1>5. ~Complete(Sent)
  <2>1. Complete(Sent) => Len(Sent.owed) = Len(Waiting) + 1
    BY <1>1, <1>4 DEF Awaits
  <2> QED BY <1>1, <1>2, <2>1
<1>6. Sent.owed = Waiting
  BY <1>4, <1>5 DEF Awaits
<1> QED BY <1>1, <1>3, <1>5, <1>6 DEF OrderState

\* What one clock does to the number of responses owed, and to the pause.
LEMMA ClockPace ==
    ASSUME TypeOK, TimingState, Window <= 2, ~w_reset, NEW interrupt \in BOOLEAN,
           Clock(interrupt)
    PROVE  /\ Len(owed) \in Nat /\ Len(owed') \in Nat
           /\ rsp_stb => Len(owed') <= Len(owed) + 1
           /\ ~rsp_stb => Len(owed') <= Len(owed)
           /\ ~rsp_stb /\ ~Sends => Len(owed') = Len(owed)
           /\ rsp_stb' => quiet = 0 /\ Len(owed) <= 1 /\ ~rsp_stb /\ quiet' = Apart - 1
           /\ ~rsp_stb' => quiet' = IF quiet > 0 THEN quiet - 1 ELSE 0
           /\ tx_busy => ~Sends /\ tx_left' = tx_left - 1
           /\ tx_left' \in 0 .. MaxTx /\ (~Sends => tx_left' <= MaxTx - 1)
<1> USE DEF TypeOK
<1>1. Respond /\ Transmit /\ History(interrupt)
  BY DEF Clock
<1> DEFINE left == IF Reads /\ ~torn /\ owed # <<>> THEN Tail(owed) ELSE owed
<1>2. /\ left \in Seq(Response) /\ Len(left) <= Len(owed) /\ Len(owed) \in Nat
      /\ (~Sends => left = owed)
  BY DEF Reads, Ends
<1>3. owed' = IF rsp_stb THEN Append(left, rsp_word) ELSE left
  BY <1>1 DEF History
<1> HIDE DEF left
<1>4. Len(Append(left, rsp_word)) = Len(left) + 1 /\ Len(left) \in Nat
  BY <1>2
<1>5. /\ Len(owed') \in Nat
      /\ rsp_stb => Len(owed') <= Len(owed) + 1
      /\ ~rsp_stb => Len(owed') <= Len(owed)
      /\ ~rsp_stb /\ ~Sends => Len(owed') = Len(owed)
  BY <1>2, <1>3, <1>4
<1>6. Apart \in Nat /\ Apart > MaxTx + 1 /\ MaxTx \in Nat \ {0} /\ Window \in Nat
  BY PathAssumption
<1>7. rsp_stb' => quiet = 0 /\ Len(owed) < Window /\ quiet' = Apart - 1
  BY <1>1 DEF Respond
<1>8. rsp_stb => quiet # 0
  BY <1>6 DEF TimingState
<1>9. ~rsp_stb' => quiet' = IF quiet > 0 THEN quiet - 1 ELSE 0
  BY <1>1 DEF Respond
<1>10. tx_busy => ~Sends /\ tx_left' = tx_left - 1
  BY <1>1 DEF Transmit, Sends
<1>11. tx_left' \in 0 .. MaxTx /\ (~Sends => tx_left' <= MaxTx - 1)
  BY <1>1, <1>6 DEF Transmit, tx_busy
<1> QED BY <1>2, <1>5, <1>6, <1>7, <1>8, <1>9, <1>10, <1>11

\* What one clock does to the two buffers.
LEMMA ClockBuffers ==
    ASSUME TypeOK, BufferState, Room, ~w_reset, NEW interrupt \in BOOLEAN, Clock(interrupt)
    PROVE  /\ loaded' => rsp_stb \/ (loaded /\ o_idl_stb /\ o_dw_stb)
           /\ loaded /\ o_idl_stb /\ o_dw_stb => loaded'
           /\ o_idl_stb /\ o_dw_stb => o_idl_stb' /\ o_idl_word' = o_idl_word
           /\ ~(o_idl_stb /\ o_dw_stb) /\ o_int_stb => o_idl_word' = o_int_word
           /\ ~(o_idl_stb /\ o_dw_stb) /\ ~o_int_stb /\ o_idl_stb' => ~o_idl_stb
           /\ o_int_stb' => loaded' \/ (pending_interrupt /\ (~int_loaded \/ (o_idl_stb /\ o_dw_stb)))
<1> USE DEF TypeOK, IntsTypeOK, IdleTypeOK, DewordTypeOK
<1>1. IntsTick(w_reset, interrupt, rsp_stb, rsp_word, idl_busy)
      /\ IdleTick(w_reset, o_int_stb, o_int_word, o_dw_busy)
  BY DEF Clock, Path
<1>2. idl_busy = (o_idl_stb /\ o_dw_stb) /\ o_dw_busy = o_dw_stb /\ o_int_busy = (o_int_stb /\ loaded)
      /\ o_idl_busy(o_dw_busy) = idl_busy /\ idl_busy \in BOOLEAN
  BY DEF idl_busy, o_idl_busy, o_dw_busy, o_int_busy
<1>3. loaded => o_int_stb
  BY DEF BufferState
<1>4. loaded' = ((rsp_stb /\ ~o_int_busy) \/ (loaded /\ ~(o_int_stb /\ ~idl_busy)))
  BY <1>1 DEF IntsTick, Buffer
<1>5. o_int_stb' => \/ rsp_stb /\ ~o_int_busy
                    \/ pending_interrupt /\ (~int_loaded \/ idl_busy)
                    \/ o_int_stb /\ loaded /\ idl_busy
  BY <1>1 DEF IntsTick, Buffer
<1>6. /\ o_idl_stb /\ o_dw_stb => o_idl_stb' /\ o_idl_word' = o_idl_word
      /\ ~(o_idl_stb /\ o_dw_stb) /\ o_int_stb => o_idl_word' = o_int_word
      /\ ~(o_idl_stb /\ o_dw_stb) /\ ~o_int_stb /\ o_idl_stb' => ~o_idl_stb
  BY <1>1, <1>2 DEF IdleTick, IdleStb, IdleWord
<1> QED BY <1>2, <1>3, <1>4, <1>5, <1>6

LEMMA StepTimingState ==
    ASSUME TypeOK, EncoderState, BufferState, OrderState, ReportState, TimingState,
           Window <= 2, NEW interrupt \in BOOLEAN, Clock(interrupt)
    PROVE  TimingState'
<1>1. TypeOK' /\ BufferState' /\ OrderState' /\ Room
  BY StepType, StepBufferState, StepOrderState DEF TimingState, Room
<1>2. CASE w_reset
  <2>1. /\ ~o_dw_stb' /\ ~o_gx_stb' /\ ~loaded' /\ owed' = <<>> /\ quiet' = Apart - 1
    BY <1>2 DEF Clock, Path, DewordTick, GenhexTick, IntsTick, Buffer, History, Respond
  <2>2. Len(<<>>) = 0
    OBVIOUS
  <2> QED BY <2>1, <2>2 DEF TimingState
<1>3. CASE ~w_reset
  <2> DEFINE n == Len(owed)
             m == Len(owed')
  <2>1. /\ n \in Nat /\ m \in Nat /\ n <= 2
        /\ rsp_stb => m <= n + 1 /\ n <= 1 /\ quiet = Apart - 1 /\ ~loaded
        /\ ~rsp_stb => m <= n
        /\ ~rsp_stb /\ ~Sends => m = n
        /\ rsp_stb' => quiet = 0 /\ n <= 1 /\ ~rsp_stb /\ quiet' = Apart - 1
        /\ ~rsp_stb' => quiet' = IF quiet > 0 THEN quiet - 1 ELSE 0
    BY <1>3, ClockPace DEF TimingState
  <2>2. /\ tx_busy => ~Sends /\ tx_left' = tx_left - 1 /\ tx_left > 0
        /\ tx_left' \in 0 .. MaxTx /\ (~Sends => tx_left' <= MaxTx - 1)
        /\ tx_left \in 0 .. MaxTx /\ quiet \in 0 .. Apart - 1 /\ quiet' \in 0 .. Apart - 1
    BY <1>1, <1>3, ClockPace DEF TypeOK, tx_busy
  <2>3. Apart \in Nat /\ Apart > MaxTx + 1 /\ MaxTx \in Nat \ {0}
    BY PathAssumption
  <2>4. /\ loaded' => rsp_stb \/ (loaded /\ o_idl_stb /\ o_dw_stb)
        /\ loaded /\ o_idl_stb /\ o_dw_stb => loaded'
        /\ o_idl_stb /\ o_dw_stb => o_idl_stb' /\ o_idl_word' = o_idl_word
        /\ ~(o_idl_stb /\ o_dw_stb) /\ o_int_stb => o_idl_word' = o_int_word
        /\ ~(o_idl_stb /\ o_dw_stb) /\ ~o_int_stb /\ o_idl_stb' => ~o_idl_stb
        /\ o_int_stb' => loaded' \/ (pending_interrupt
                                     /\ (~int_loaded \/ (o_idl_stb /\ o_dw_stb)))
    BY <1>1, <1>3, ClockBuffers
  <2>5. TakesWord \/ GivesDigit \/ Goes \/ Holds
    BY <1>3, AtWord
  <2>6. \/ hx_busy /\ o_gx_stb /\ nl_busy /\ UNCHANGED genhex_vars
        \/ /\ ~hx_busy /\ ~(o_gx_stb /\ nl_busy)
           /\ o_gx_stb' = o_dw_stb /\ o_gx_char' = w_gx_char(o_dw_bits)
    BY <1>3, ClockGenhex
  <2> HIDE DEF n, m
  \* A response comes into a free buffer.
  <2>7. rsp_stb' => m <= 1 /\ quiet' = Apart - 1 /\ ~loaded'
    <3> SUFFICES ASSUME rsp_stb' PROVE ~loaded'
      BY <2>1
    <3>1. loaded => Drain <= 0
      BY <2>1 DEF TimingState, n
    <3>2. ~(loaded /\ o_idl_stb /\ o_dw_stb)
      BY <2>2, <2>3, <3>1 DEF Drain
    <3> QED BY <2>1, <2>4, <3>2
  <2>8. m <= 2
    BY <2>1
  \* The only response owed leaves hbints.v before the next one can come.
  <2>9. loaded' /\ m <= 1 => Drain' <= quiet'
    <3> SUFFICES ASSUME loaded', m <= 1, o_idl_stb' /\ o_dw_stb' PROVE Drain' <= quiet'
      <4>1. ~(o_idl_stb' /\ o_dw_stb') => Drain' = 0
        BY DEF Drain
      <4> QED BY <2>2, <4>1
    <3>1. o_dw_bits' \in {"INT", "IDLE"} /\ ~Owes(o_idl_word')
      <4>1. (TypeOK /\ BufferState /\ OrderState /\ loaded /\ Len(owed) <= 1 =>
               /\ o_dw_stb => o_dw_bits \in {"INT", "IDLE"}
               /\ o_idl_stb => ~Owes(o_idl_word))'
        BY Alone, PTL
      <4> QED BY <1>1, <4>1 DEF m
    <3>2. ~rsp_stb'
      BY <2>7
    <3>3. Drain' = IF hx_busy' THEN tx_left' + 1 ELSE 1
      BY DEF Drain
    <3>4. o_dw_bits' \notin Nibble
      BY <3>1, DigitAssumption DEF RspSub, SpecialSub
    <3>5. TakesWord \/ Holds
      <4>1. r_word \in Payload
        BY DEF TypeOK, DewordTypeOK
      <4> QED BY <2>5, <3>4, <4>1, HeadType DEF GivesDigit, Goes
    \* hbgenhex.v keeps hbdeword.v waiting, and the transmitter hbgenhex.v.
    <3>6. CASE Holds
      <4>1. hx_busy /\ o_dw_stb /\ o_dw_bits \notin Nibble /\ o_gx_stb /\ nl_busy
        BY <2>6, <3>4, <3>6 DEF Holds, deword_vars
      <4>2. tx_busy
        BY <4>1 DEF nl_busy, o_nl_busy, EncoderState
      <4>3. CASE rsp_stb
        <5>1. quiet = Apart - 1 /\ quiet' = Apart - 2
          BY <2>1, <2>2, <2>3, <3>2, <4>3
        <5> QED BY <2>2, <2>3, <3>3, <4>2, <5>1
      <4>4. CASE ~rsp_stb
        <5>1. loaded /\ o_idl_stb /\ n <= 1
          BY <2>1, <2>2, <2>4, <4>2, <4>4
        <5>2. tx_left + 1 <= quiet
          BY <4>1, <5>1 DEF TimingState, Drain, n
        <5>3. quiet' = quiet - 1
          BY <2>1, <2>2, <3>2, <5>2
        <5> QED BY <2>2, <3>3, <4>2, <5>2, <5>3
      <4> QED BY <4>3, <4>4
    \* It takes a word with no digits while the response comes in behind.
    <3>7. CASE TakesWord
      <4>1. o_idl_stb /\ ~o_dw_stb /\ ~Owes(o_idl_word)
        BY <3>1, <3>7 DEF TakesWord, Owes
      <4>2. rsp_stb /\ ~loaded /\ o_int_stb
        BY <2>1, <2>4, <4>1
      <4>3. quiet' = Apart - 2
        BY <2>1, <2>2, <2>3, <3>2, <4>2
      <4>4. CASE ~Sends
        <5> DEFINE t == tx_left'
        <5>1. t \in 0 .. MaxTx /\ t <= MaxTx - 1
          BY <2>2, <4>4
        <5> HIDE DEF t
        <5>2. t + 1 <= MaxTx /\ MaxTx <= Apart - 2 /\ 1 <= MaxTx
          BY <2>3, <5>1
        <5>3. Drain' = t + 1 \/ Drain' = 1
          BY <3>3 DEF t
        <5> QED BY <2>2, <2>3, <4>3, <5>1, <5>2, <5>3
      <4>5. CASE Sends
        <5>1. ~(o_gx_stb /\ nl_busy)
          <6>1. ~(cr_state /\ o_gx_stb)
            BY <4>1, <4>2 DEF TimingState
          <6> QED BY <4>5, <6>1 DEF nl_busy, o_nl_busy, Sends
        <5>2. o_gx_stb' = o_dw_stb
          BY <2>6, <5>1
        <5>3. ~hx_busy'
          BY <4>1, <5>2 DEF hx_busy, o_gx_busy
        <5> QED BY <2>3, <3>3, <4>3, <5>3
      <4> QED BY <4>4, <4>5
    <3> QED BY <3>5, <3>6, <3>7
  \* A word of the channel's own making in hbidle.v has left no interrupt behind it.
  <2>10. ~o_gx_stb' /\ o_dw_stb' /\ o_idl_stb' /\ pending_interrupt' => Owes(o_idl_word') \/ loaded'
    <3> SUFFICES ASSUME ~o_gx_stb', o_dw_stb', o_idl_stb', pending_interrupt'
                 PROVE  Owes(o_idl_word')
      OBVIOUS
    <3>1. ~hx_busy /\ ~o_dw_stb
      BY <2>6 DEF genhex_vars
    <3>2. o_idl_stb
      BY <2>5, <3>1 DEF TakesWord, GivesDigit, Goes, Holds
    <3>3. o_int_stb /\ o_idl_word' = o_int_word
      BY <2>4, <3>1, <3>2
    <3>4. ~(o_int_stb /\ int_loaded)
      <4>1. PendingInterrupt(w_reset, interrupt, idl_busy)
        BY DEF Clock, Path, IntsTick
      <4>2. ~idl_busy
        BY <3>1 DEF idl_busy, o_idl_busy, o_dw_busy
      <4> QED BY <4>1, <4>2 DEF PendingInterrupt, IntTaken, ReportState
    <3> QED BY <3>3, <3>4 DEF BufferState
  <2>11. cr_state' /\ o_gx_stb' /\ ~o_dw_stb' /\ o_idl_stb' /\ o_int_stb'
           => Owes(o_idl_word') \/ loaded'
    <3> SUFFICES ASSUME cr_state', o_gx_stb', ~o_dw_stb', o_idl_stb', o_int_stb', ~loaded'
                 PROVE  Owes(o_idl_word')
      OBVIOUS
    <3>1. ~o_gx_stb
      BY <1>3, ClockNewline, WaitingCR DEF EncoderState, PassOn, LineFeed, Rest, newline_vars
    <3>2. o_dw_stb
      BY <2>6, <3>1
    <3>3. pending_interrupt /\ (~int_loaded \/ (o_idl_stb /\ o_dw_stb))
      BY <2>4
    <3>4. CASE o_idl_stb
      BY <2>4, <3>1, <3>2, <3>3, <3>4 DEF TimingState
    <3>5. CASE ~o_idl_stb
      <4>1. o_int_stb /\ ~int_loaded
        BY <3>3, <3>5 DEF BufferState
      <4> QED BY <2>4, <3>5, <4>1 DEF BufferState
    <3> QED BY <3>4, <3>5
  <2> QED BY <2>7, <2>8, <2>9, <2>10, <2>11 DEF TimingState, m
<1> QED BY <1>2, <1>3

\* Everything the host is owed is on its way in order, when it leaves at most two
\* responses outstanding (hbints.v:87-130, hbidle.v:85-109, hbdeword.v:65-106,
\* hbnewline.v:88-131).
THEOREM OrderStates ==
    ASSUME Window <= 2
    PROVE  Spec => [](OrderState /\ TimingState)
<1> DEFINE All == TypeOK /\ EncoderState /\ BufferState /\ ReportState
           Order == OrderState /\ TimingState
<1>1. Init => Order
  <2> SUFFICES ASSUME Init PROVE OrderState /\ TimingState OBVIOUS
  <2>1. /\ ~o_dw_stb /\ r_len = 0 /\ ~o_gx_stb /\ ~o_nl_stb /\ ~o_idl_stb /\ ~o_int_stb
        /\ ~loaded /\ owed = <<>> /\ quiet = Apart - 1
    BY DEF Init, DewordInit, GenhexInit, NewlineInit, IdleInit, IntsInit
  <2>2. Sent = Host /\ Waiting = <<>>
    BY <2>1 DEF Sent, Encoded, OnLine, Through, Waiting, IdleOwed, IntOwed
  <2>3. ~Complete(Host) /\ Host.ok /\ Host.owed = <<>>
    BY <2>1, DigitAssumption DEF Complete, Host, Init, NUL
  <2>4. OrderState
    BY <2>1, <2>2, <2>3 DEF OrderState, Awaits
  <2>5. Len(<<>>) = 0
    OBVIOUS
  <2>6. TimingState
    BY <2>1, <2>5 DEF TimingState
  <2> QED BY <2>4, <2>6
<1>2. All /\ Order /\ [Next]_vars => Order'
  <2> SUFFICES ASSUME All, Order, [Next]_vars PROVE Order' OBVIOUS
  <2>1. CASE Next
    <3>1. PICK interrupt \in BOOLEAN : Clock(interrupt)
      BY <2>1 DEF Next, Clock
    <3>2. Room
      BY DEF TimingState, Room
    <3> QED BY <3>1, <3>2, StepOrderState, StepTimingState
  <2>2. CASE UNCHANGED vars
    <3> USE <2>2 DEF vars, path_vars, env_vars, ints_vars, idle_vars, deword_vars, genhex_vars,
                     newline_vars
    <3>1. Host' = Host /\ Waiting' = Waiting
      BY DEF Host, Waiting, IdleOwed, IntOwed
    <3>2. Sent' = Sent
      BY <3>1 DEF Sent, Encoded, OnLine, Through
    <3>3. OrderState'
      BY <3>1, <3>2 DEF OrderState
    <3>4. hx_busy' = hx_busy
      BY DEF hx_busy, o_gx_busy, nl_busy, o_nl_busy, tx_busy
    <3>5. TimingState'
      BY <3>4 DEF TimingState, Drain
    <3> QED BY <3>3, <3>5
  <2> QED BY <2>1, <2>2
<1>3. Spec => []All
  BY Types, RegisterStates, ReportStates, PTL
<1> QED BY <1>1, <1>2, <1>3, PTL DEF Spec

\* Every response the host reads is the oldest one it is owed: none is lost, repeated,
\* reordered or cut by an interrupt, an idle word or a newline, when the host leaves at
\* most two outstanding (hbbus.v:74-77, hbints.v:87-130, hbidle.v:85-109,
\* hbdeword.v:65-106, hbnewline.v:88-131).
THEOREM Ordered ==
    ASSUME Window <= 2
    PROVE  Spec => []ResponsesInOrder
<1>1. TypeOK /\ OrderState => ResponsesInOrder
  <2> SUFFICES ASSUME TypeOK, OrderState, Reads, ~torn
               PROVE  /\ owed # <<>>
                      /\ m_cmd = w_gx_char(Head(owed).sub)
                      /\ m_word = Head(owed).word
    BY DEF ResponsesInOrder
  <2>1. /\ Host \in HostState /\ OnLine \in HostState /\ Encoded \in HostState
        /\ w_gx_char(o_dw_bits) \in Char /\ o_gx_char \in Char /\ o_nl_byte \in Char
    BY PlaceTypes DEF TypeOK, GenhexTypeOK, NewlineTypeOK
  <2>2. Encoded.ok
    BY <2>1, FeedOk DEF OrderState, Sent, Through
  <2>3. OnLine.ok
    BY <2>1, <2>2, FeedOk DEF Encoded, Through
  <2>4. OnLine = Feed(Host, o_nl_byte) /\ o_nl_byte \notin Nibble
    BY DEF Reads, Ends, Sends, OnLine, Through
  <2>5. Right(Host)
    BY <2>1, <2>3, <2>4, FeedOk
  <2>6. Complete(Host)
    BY DEF Reads, Complete, Host
  <2> QED BY <2>5, <2>6 DEF Right, Host
<1> QED BY <1>1, Types, OrderStates, PTL
=============================================================================

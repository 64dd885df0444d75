------------------------------ MODULE HbRspPath ------------------------------
(* The response channel of hbbus.v, from the words hbexec.v produces to the   *)
(* words the host's HEXBUS::readword makes of the characters it receives:     *)
(*   hbints -> hbidle -> hbdeword -> hbgenhex -> hbnewline -> transmitter.    *)
(* hbexec.v and the host are environment here: responses come while the host  *)
(* is still owed fewer than Window of them, and Apart clocks or more after    *)
(* one another, since a command takes its time to arrive.                     *)
EXTENDS HbInts, HbIdle, HbDeword, HbGenhex, HbNewline

CONSTANTS Answers,   \* the response words hbexec.v may produce
          Window,    \* responses the host leaves outstanding
          Apart,     \* clocks from one response to the next, or more
          MaxTx      \* longest time, in clocks, the transmitter takes a character

ASSUME PathAssumption == /\ Answers \subseteq [sub : ValueSub, word : Payload]
                                             \cup {RSP_BUS_ERROR}
                         /\ Window \in Nat \ {0}
                         /\ MaxTx \in Nat \ {0}
                         \* commands arrive slower than characters leave
                         /\ Apart \in Nat /\ Apart > MaxTx + 1
                         \* the channel drains long before it counts as idle
                         /\ IdleLimit > (WordLen + 4) * (MaxTx + 1)

VARIABLES
    w_reset, rsp_stb, rsp_word,      \* registers that drive the channel
    quiet,                           \* clocks until a response may come
    tx_left,                         \* clocks the transmitter stays busy
    m_cmd, m_word, m_isspace,        \* what the host has read so far
    owed,      \* history: responses produced that the host has not yet read
    torn,      \* history: a reset cut the word the host is reading
    armed      \* history: the interrupt line was low since the last interrupt

path_vars == <<ints_vars, idle_vars, deword_vars, genhex_vars, newline_vars>>
env_vars  == <<w_reset, rsp_stb, rsp_word, quiet, tx_left, m_cmd, m_word, m_isspace>>
vars == <<path_vars, env_vars, owed, torn, armed>>

-----------------------------------------------------------------------------
tx_busy == tx_left > 0

\* The busy wires, from the transmitter up.
nl_busy  == o_nl_busy(tx_busy)
hx_busy  == o_gx_busy(nl_busy)
idl_busy == o_idl_busy(o_dw_busy)

Sends == o_nl_stb /\ ~tx_busy

\* Any character but a digit ends the word the host is reading.
Ends == Sends /\ o_nl_byte \notin Nibble

\* The host has read a whole response.
Reads == Ends /\ ~m_isspace /\ m_cmd \in {"R", "K", "A", "T", "E"}

Path(interrupt) ==
    /\ IntsTick(w_reset, interrupt, rsp_stb, rsp_word, idl_busy)
    /\ IdleTick(w_reset, o_int_stb, o_int_word, o_dw_busy)
    /\ DewordTick(w_reset, o_idl_stb, o_idl_word, hx_busy)
    /\ GenhexTick(w_reset, o_dw_stb, o_dw_bits, nl_busy)
    /\ NewlineTick(w_reset, o_gx_stb, o_gx_char, tx_busy)

Transmit ==
    \/ Sends /\ tx_left' \in 0 .. MaxTx
    \/ ~Sends /\ tx_left' = IF tx_busy THEN tx_left - 1 ELSE 0

\* HEXBUS::readword, one character.
Receive ==
    \/ /\ ~Sends
       /\ UNCHANGED <<m_cmd, m_word, m_isspace>>
    \/ /\ Sends /\ o_nl_byte \in Nibble
       /\ m_word' = ShiftIn(m_word, o_nl_byte)
       /\ m_isspace' = FALSE
       /\ UNCHANGED m_cmd
    \/ /\ Ends
       /\ m_word' = Zeros
       /\ m_isspace' = (o_nl_byte \in {CR, LF})
       /\ m_cmd' = IF o_nl_byte \in {CR, LF} THEN m_cmd ELSE o_nl_byte

\* hbexec.v reports a reset on the clock after it, and otherwise answers when
\* it likes, within the window.
Respond ==
    /\ \/ w_reset /\ rsp_stb' = TRUE /\ rsp_word' = RSP_RESET
       \/ /\ ~w_reset
          /\ rsp_stb' = FALSE
          /\ UNCHANGED rsp_word
       \/ /\ ~w_reset /\ quiet = 0
          /\ Len(owed) < Window
          /\ rsp_stb' = TRUE
          /\ rsp_word' \in Answers
    /\ quiet' = IF rsp_stb' THEN Apart - 1 ELSE IF quiet > 0 THEN quiet - 1 ELSE 0

History(interrupt) ==
    /\ owed' = IF w_reset THEN <<>>
               ELSE LET left == IF Reads /\ ~torn /\ owed # <<>> THEN Tail(owed) ELSE owed
                    IN  IF rsp_stb THEN Append(left, rsp_word) ELSE left
    /\ torn' = IF w_reset THEN m_isspace' = FALSE ELSE torn /\ ~Ends
    /\ armed' = (w_reset \/ ~interrupt \/ (armed /\ ~IntTaken(idl_busy)))

Init ==
    /\ IntsInit /\ IdleInit /\ DewordInit /\ GenhexInit /\ NewlineInit
    /\ w_reset = TRUE /\ rsp_stb = TRUE /\ rsp_word = RSP_RESET
    /\ quiet = Apart - 1 /\ tx_left = 0
    /\ m_cmd = NUL /\ m_word = Zeros /\ m_isspace \in BOOLEAN
    /\ owed = <<>> /\ torn = FALSE /\ armed = TRUE

Next == \E interrupt \in BOOLEAN :
            /\ Path(interrupt)
            /\ Transmit
            /\ Receive
            /\ Respond
            /\ w_reset' \in BOOLEAN
            /\ History(interrupt)

Spec == Init /\ [][Next]_vars

\* The clock never stops.
FairSpec == Spec /\ WF_vars(Next)

-----------------------------------------------------------------------------
TypeOK == /\ IntsTypeOK /\ IdleTypeOK /\ DewordTypeOK /\ GenhexTypeOK
          /\ NewlineTypeOK
          /\ w_reset \in BOOLEAN /\ rsp_stb \in BOOLEAN /\ rsp_word \in Response
          /\ quiet \in 0 .. Apart - 1 /\ tx_left \in 0 .. MaxTx
          /\ m_cmd \in Char /\ m_word \in Payload /\ m_isspace \in BOOLEAN
          /\ owed \in Seq(Response) /\ torn \in BOOLEAN /\ armed \in BOOLEAN

\* Every response the host reads is the oldest one it is owed: none is lost,
\* repeated, reordered or cut by an interrupt, an idle word or a newline, though
\* nothing holds hbexec.v back when the channel is full (hbbus.v:74-77,
\* hbints.v:87-130, hbidle.v:85-109, hbdeword.v:65-106, hbnewline.v:88-131).
ResponsesInOrder ==
    Reads /\ ~torn =>
        /\ owed # <<>>
        /\ m_cmd = w_gx_char(Head(owed).sub)
        /\ m_word = Head(owed).word

\* Each response reaches the host, unless a reset comes first, although the host
\* knows a word is over only when something follows it (hbnewline.v:103-120).
ResponsesArrive == owed # <<>> ~> (Reads \/ w_reset)

\* An interrupt is reported at most once per assertion of the line
\* (hexbus/README.md:103-105; hbints.v:65-85).
OneReportPerInterrupt == [][IntTaken(idl_busy) /\ ~w_reset => armed]_vars

\* A carriage return that was sent is followed by a line feed, and a line feed
\* by no second one (hbnewline.v:185-195).
NewlinePairs ==
    [][~w_reset /\ Sends =>
          /\ o_nl_byte = CR => o_nl_stb' /\ o_nl_byte' = LF
          /\ o_nl_byte = LF => ~(o_nl_stb' /\ o_nl_byte' = LF)]_vars

\* A response on its way takes a pending interrupt with it (hbints.v:107-108).
InterruptFollowsResponse ==
    pending_interrupt /\ loaded ~> (IntTaken(idl_busy) \/ w_reset)

\* hbints.v:155-157 asserts of the composed design that a response waits while
\* the block is busy.
ResponseHeld ==
    [][rsp_stb /\ o_int_busy /\ ~w_reset => rsp_stb' /\ UNCHANGED rsp_word]_vars

\* "add an interrupt flag to the output any time things are idle"
\* (hbbus.v:132-133): a pending interrupt is reported in the end.
InterruptReported == pending_interrupt ~> (IntTaken(idl_busy) \/ w_reset)
=============================================================================

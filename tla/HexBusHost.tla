----------------------------- MODULE HexBusHost -----------------------------
(* The class HEXBUS of hexbus.cpp: calls that read and write the bus by       *)
(* sending command words and parsing the characters that come back.  The host *)
(* keeps a copy of the device's address, and does not send an address it      *)
(* believes is already set.                                                   *)
(*                                                                            *)
(* Environment: the port serves commands in order and answers each of them    *)
(* (HbExecWb, HbCmdPath and HbRspPath say when it does), its characters cross *)
(* a UART or a socket that keeps their order and delivers them in pieces.     *)
(* Addresses are word addresses: the source's are four times these.           *)
EXTENDS SequencesExt, Integers, FiniteSets

CONSTANTS AddrSpace, Mapped,  \* the bus, as in HbExecWb
          Values,      \* words that are written
          Glyphs,      \* the hex digits, by value
          WordLen,     \* digits of a word
          MaxLen,      \* words a call moves
          Usages       \* programs and lines: see usage

Letter  == {"A", "R", "K", "E", "I", "Z", "T"}
Newline == {"NL"}     \* CR, LF: to the host two spaces, and two are as good as one
Digit   == ToSet(Glyphs)

Base == Len(Glyphs)
Power[k \in 0 .. WordLen] == IF k = 0 THEN 1 ELSE Base * Power[k - 1]
Addr == 0 .. AddrSpace - 1
Word == 0 .. Power[WordLen] - 1

ASSUME HostAssumption == /\ AddrSpace \in Nat \ {0} /\ Mapped \subseteq Addr
                         /\ WordLen \in Nat \ {0}
                         /\ 4 * AddrSpace <= Power[WordLen]
                         /\ Values \subseteq Word
                         /\ MaxLen \in Nat \ {0}
                         /\ Glyphs \in Seq(Digit) /\ IsInjective(Glyphs)
                         /\ Digit \cap (Letter \cup Newline \cup {"NUL"}) = {}
                         /\ Usages \subseteq [pieces : BOOLEAN, writes : SUBSET BOOLEAN,
                                              reads : SUBSET BOOLEAN, errors : BOOLEAN,
                                              idles : Nat, ints : Nat]

VARIABLES
    m_cmd, m_isspace, m_inc, m_addr_set, m_lastaddr, m_nacks,
    m_interrupt_flag, m_bus_err,
    word, abort_countdown,   \* locals of readword and readidle
    pc,        \* where the host's thread is
    call,      \* the call in progress, or the last one
    n,         \* nw of writev, nread of readv
    buf,       \* words read
    outcome,   \* how the last call ended
    sent,      \* command words on their way to the port
    dev_addr, dev_inc, mem,  \* the port
    last_cr,   \* the port has ended its last word with a newline
    wire,      \* characters on their way to the host
    line,      \* characters the host can read
    ints,      \* interrupts so far
    usage,     \* [pieces, writes, reads, errors, idles, ints]: do words arrive in
               \* pieces, which increments are used, may a read be of an unmapped
               \* address, how many idle words wait unread, how many interrupts
    shadow,    \* history: what the calls have written
    erred,     \* history: the port reported an error to this call
    cleared    \* history: interrupts seen when the flag was last cleared

flags     == <<m_interrupt_flag, m_bus_err>>
addr_vars == <<m_inc, m_addr_set, m_lastaddr>>
port_vars == <<dev_addr, dev_inc, mem, last_cr, wire, ints>>
host_vars == <<m_cmd, m_isspace, addr_vars, m_nacks, flags, word, abort_countdown,
               pc, call, n, buf, outcome>>
vars == <<host_vars, sent, port_vars, line, usage, shadow, erred, cleared>>

Worth(d) == (CHOOSE i \in DOMAIN Glyphs : Glyphs[i] = d) - 1
Digits(w) == [i \in 1 .. WordLen |-> Glyphs[((w \div Power[WordLen - i]) % Base) + 1]]

Advance(a, inc, k) == (a + (IF inc THEN k ELSE 0)) % AddrSpace

-----------------------------------------------------------------------------
(* The port.                                                                  *)

Serve ==
    /\ sent # <<>>
    /\ LET cmd == Head(sent)
           hit == dev_addr \in Mapped
       IN  /\ sent' = Tail(sent)
           /\ dev_addr' = IF cmd.sub = "ADDR" THEN cmd.word ELSE Advance(dev_addr, dev_inc, 1)
           /\ dev_inc' = IF cmd.sub = "ADDR" THEN cmd.inc ELSE dev_inc
           /\ mem' = IF cmd.sub = "WR" /\ hit THEN [mem EXCEPT ![dev_addr] = cmd.word] ELSE mem
           /\ erred' = (erred \/ (cmd.sub # "ADDR" /\ ~hit))
           /\ wire' = wire \o
                CASE cmd.sub = "ADDR" ->
                        <<"A">> \o Digits(4 * cmd.word + (IF cmd.inc THEN 0 ELSE 1))
                  [] cmd.sub # "ADDR" /\ ~hit -> <<"E">>
                  [] cmd.sub = "WR" /\ hit -> <<"K">> \o Digits(0)
                  [] cmd.sub = "RD" /\ hit -> <<"R">> \o Digits(mem[dev_addr])
    /\ last_cr' = FALSE
    /\ UNCHANGED <<host_vars, line, ints, usage, shadow, cleared>>

Interrupt ==
    /\ ints < usage.ints
    /\ ints' = ints + 1
    /\ wire' = Append(wire, "I")
    /\ last_cr' = FALSE
    /\ UNCHANGED <<host_vars, sent, dev_addr, dev_inc, mem, line, usage, shadow, erred, cleared>>

EndLine ==
    /\ ~last_cr
    /\ last_cr' = TRUE
    /\ wire' = wire \o <<"NL">>
    /\ UNCHANGED <<host_vars, sent, dev_addr, dev_inc, mem, ints, line, usage, shadow, erred, cleared>>

\* What the host has still to read.
Stream == line \o wire

\* Letters that the host has still to act on: the one it is inside, and those to come.
Pending(letter) == (IF ~m_isspace /\ m_cmd = letter THEN 1 ELSE 0)
                   + Cardinality({i \in 1 .. Len(Stream) : Stream[i] = letter})

\* The port has been quiet for IdleLimit clocks.  A command is never that long
\* on its way.
Idle ==
    /\ sent = <<>> /\ wire = <<>> /\ last_cr
    /\ Pending("Z") < usage.idles
    /\ wire' = <<"Z">>
    /\ last_cr' = FALSE
    /\ UNCHANGED <<host_vars, sent, dev_addr, dev_inc, mem, ints, line, usage, shadow, erred, cleared>>

Arrive ==
    /\ wire # <<>>
    /\ \/ usage.pieces /\ line' = Append(line, Head(wire)) /\ wire' = Tail(wire)
       \/ ~usage.pieces /\ Last(wire) = "NL" /\ line' = line \o wire /\ wire' = <<>>
    /\ UNCHANGED <<host_vars, sent, dev_addr, dev_inc, mem, ints, last_cr, usage, shadow, erred, cleared>>

-----------------------------------------------------------------------------
(* Calls.                                                                     *)

Cmd(sub, w, inc) == [sub |-> sub, word |-> w, inc |-> inc]

\* Mutants: the low bit is not compared; m_addr_set is not looked at.
AddressCommandAnyInc(a, inc) ==
    IF m_addr_set /\ m_inc /\ a = m_lastaddr THEN <<>> ELSE <<Cmd("ADDR", a, inc)>>
AddressCommandUnset(a, inc) ==
    IF inc /\ m_inc /\ a = m_lastaddr THEN <<>> ELSE <<Cmd("ADDR", a, inc)>>

\* encode_address(a | !inc).  With the low bit set, a is never m_lastaddr.
AddressCommand(a, inc) ==
    IF m_addr_set /\ inc /\ m_inc /\ a = m_lastaddr THEN <<>>
    ELSE <<Cmd("ADDR", a, inc)>>

\* Mutant: one idle word too few.
AbortSooner == 2

\* Idle words that readword takes as a sign that no answer will come.
AbortCountdown == 3

Begin(c) ==
    /\ pc = "idle"
    /\ call' = c
    /\ buf' = <<>>
    /\ n' = 0
    /\ outcome' = "none"
    /\ erred' = FALSE
    /\ m_lastaddr' = c.a
    /\ m_addr_set' = TRUE

\* writeio, writez, writei: writev sends the address and the first word.
CallWrite(io, a, inc, vals) ==
    /\ Begin([op |-> IF io THEN "writeio" ELSE "writev", a |-> a, inc |-> inc, vals |-> vals])
    /\ io => ~inc /\ Len(vals) = 1
    /\ sent' = sent \o AddressCommand(a, inc) \o <<Cmd("WR", vals[1], FALSE)>>
    /\ m_nacks' = 0
    /\ pc' = "acks"
    /\ UNCHANGED <<m_cmd, m_isspace, m_inc, flags, word, abort_countdown,
                   port_vars, line, usage, shadow, cleared>>

\* readio, readz, readi: readv sends the address and the first request.
CallRead(a, inc, len) ==
    /\ Begin([op |-> "readv", a |-> a, inc |-> inc, vals |-> [i \in 1 .. len |-> 0]])
    /\ sent' = sent \o AddressCommand(a, inc) \o <<Cmd("RD", 0, FALSE)>>
    /\ m_inc' = inc
    /\ word' = 0
    /\ abort_countdown' = AbortCountdown
    /\ pc' = "readword"
    /\ UNCHANGED <<m_cmd, m_isspace, m_nacks, flags, port_vars, line, usage, shadow, cleared>>

Throw == pc' = "idle" /\ outcome' = "buserr"

-----------------------------------------------------------------------------
(* What readword and readidle make of the word that a character ends.         *)

Ends(c) == c \notin Digit

Accumulate(c) ==
    /\ c \in Digit
    /\ word' = (Base * word + Worth(c)) % Power[WordLen]
    /\ UNCHANGED <<m_cmd, addr_vars, m_nacks, flags>>

\* The character starts the next word.
StartWord(c) ==
    /\ word' = 0
    /\ m_isspace' = (c \in Newline)
    /\ m_cmd' = IF c \in Newline THEN m_cmd ELSE c

\* The address after this word; mutant: reads do not count.
NextAddressAcks == IF m_cmd = "K" THEN Advance(m_lastaddr, m_inc, 1) ELSE m_lastaddr
NextAddress == Advance(m_lastaddr, m_inc, 1)

\* Acknowledgements in this word; mutant: a space ends the last word once more.
AcksAgain == IF m_cmd = "K" THEN 1 ELSE 0
Acks == IF ~m_isspace /\ m_cmd = "K" THEN 1 ELSE 0

\* A word that both treat alike.
Note ==
    /\ m_nacks' = m_nacks + Acks
    /\ m_interrupt_flag' = (m_interrupt_flag \/ (~m_isspace /\ m_cmd = "I"))
    /\ \/ /\ m_isspace \/ m_cmd \notin {"A", "R", "K"}
          /\ UNCHANGED <<m_inc, m_lastaddr>>
       \/ /\ ~m_isspace /\ m_cmd = "A"
          /\ m_inc' = (word % 2 = 0)
          /\ m_lastaddr' = word \div 4
       \/ /\ ~m_isspace /\ m_cmd \in {"R", "K"}
          /\ m_lastaddr' = NextAddress
          /\ UNCHANGED m_inc

AddrSet ==
    m_addr_set' = IF ~m_isspace /\ m_cmd = "A" THEN TRUE
                  ELSE IF ~m_isspace /\ m_cmd = "T" THEN FALSE ELSE m_addr_set

-----------------------------------------------------------------------------
(* writev's loops, and readidle.                                              *)

\* Mutants: one acknowledgement too few, one too many.
MissingEarly == m_nacks + 1 < n
MissingLate == m_nacks <= n

\* The acknowledgements writev waits for before it goes on.
Missing == m_nacks < n

WriteWord ==
    /\ pc = "acks" /\ ~Missing
    /\ n < Len(call.vals)
    /\ n' = n + 1
    /\ sent' = IF n + 1 < Len(call.vals)
                 THEN Append(sent, Cmd("WR", call.vals[n + 2], FALSE)) ELSE sent
    /\ UNCHANGED <<m_cmd, m_isspace, addr_vars, m_nacks, flags, word, abort_countdown, pc,
                   call, buf, outcome, port_vars, line, usage, shadow, erred, cleared>>

WriteReturns ==
    /\ pc = "acks" /\ ~Missing
    /\ n = Len(call.vals)
    /\ pc' = "idle" /\ outcome' = "ok"
    /\ m_lastaddr' = IF call.op = "writeio" THEN call.a
                     ELSE Advance(m_lastaddr, call.inc, Len(call.vals))
    /\ m_addr_set' = (call.op = "writeio" \/ m_addr_set)
    /\ shadow' = [a \in Mapped |->
            LET here == {i \in DOMAIN call.vals : Advance(call.a, call.inc, i - 1) = a}
            IN  IF here = {} THEN shadow[a]
                ELSE call.vals[CHOOSE i \in here : \A j \in here : j <= i]]
    /\ UNCHANGED <<m_cmd, m_isspace, m_inc, m_nacks, flags, word, abort_countdown, call, n,
                   buf, sent, port_vars, line, usage, erred, cleared>>

\* readidle begins with word = 0, whatever the last call of it left unfinished.
EnterReadIdle ==
    /\ pc = "acks" /\ Missing
    /\ pc' = "readidle"
    /\ word' = 0
    /\ UNCHANGED <<m_cmd, m_isspace, addr_vars, m_nacks, flags, abort_countdown, call, n, buf,
                   outcome, sent, port_vars, line, usage, shadow, erred, cleared>>

\* The character that comes after an error is read and not recorded.
ReadIdleError == ~m_isspace /\ m_cmd = "E"

ReadIdle ==
    /\ pc = "readidle" /\ line # <<>>
    /\ line' = Tail(line)
    /\ LET c == Head(line)
       IN  \/ Accumulate(c) /\ UNCHANGED <<m_isspace, pc, outcome>>
           \/ /\ Ends(c) /\ ReadIdleError
              /\ m_bus_err' = TRUE
              /\ Throw
              /\ UNCHANGED <<m_cmd, m_isspace, addr_vars, m_nacks, m_interrupt_flag, word>>
           \/ /\ Ends(c) /\ ~ReadIdleError
              /\ Note /\ AddrSet
              /\ m_bus_err' = IF ~m_isspace /\ m_cmd = "T" THEN FALSE ELSE m_bus_err
              /\ \/ m_isspace /\ c \in Newline /\ UNCHANGED <<m_cmd, m_isspace, word>>
                 \/ ~(m_isspace /\ c \in Newline) /\ StartWord(c)
              /\ UNCHANGED <<pc, outcome>>
    /\ UNCHANGED <<abort_countdown, call, n, buf, sent, port_vars, usage, shadow, erred, cleared>>

LeaveReadIdle ==
    /\ pc = "readidle" /\ line = <<>>
    /\ pc' = "acks"
    /\ UNCHANGED <<m_cmd, m_isspace, addr_vars, m_nacks, flags, word, abort_countdown, call, n,
                   buf, outcome, sent, port_vars, line, usage, shadow, erred, cleared>>

-----------------------------------------------------------------------------
(* readword, and the loop of readv around it.                                 *)

\* The last address is where the reads should have left it, or the program ends.
ReadReturns ==
    IF m_lastaddr' = Advance(call.a, call.inc, Len(call.vals))
      THEN pc' = "idle" /\ outcome' = "ok"
      ELSE pc' = "exit" /\ outcome' = "exit"

GotWord ==
    /\ buf' = Append(buf, word)
    /\ n' = n + 1
    /\ abort_countdown' = AbortCountdown
    /\ \/ /\ n + 1 < Len(call.vals)
          /\ sent' = Append(sent, Cmd("RD", 0, FALSE))
          /\ UNCHANGED <<pc, outcome>>
       \/ /\ n + 1 = Len(call.vals)
          /\ UNCHANGED sent
          /\ ReadReturns

ReadWord ==
    /\ pc = "readword" /\ line # <<>>
    /\ line' = Tail(line)
    /\ LET c == Head(line)
           kind == IF m_isspace THEN "none" ELSE m_cmd
       IN  \/ /\ Accumulate(c)
              /\ m_isspace' = FALSE
              /\ UNCHANGED <<pc, outcome, abort_countdown, n, buf, sent>>
           \/ /\ Ends(c)
              /\ Note /\ AddrSet
              /\ m_bus_err' = (m_bus_err \/ kind = "E")
              /\ \/ kind = "Z" /\ abort_countdown = 1 /\ UNCHANGED <<m_cmd, m_isspace, word>>
                 \/ ~(kind = "Z" /\ abort_countdown = 1) /\ StartWord(c)
              /\ \/ kind = "R" /\ GotWord
                 \/ /\ kind = "E" /\ Throw
                    /\ UNCHANGED <<abort_countdown, n, buf, sent>>
                 \/ /\ kind = "Z"
                    /\ abort_countdown' = abort_countdown - 1
                    /\ \/ abort_countdown = 1 /\ Throw
                       \/ abort_countdown > 1 /\ UNCHANGED <<pc, outcome>>
                    /\ UNCHANGED <<n, buf, sent>>
                 \/ /\ kind \notin {"R", "E", "Z"}
                    /\ UNCHANGED <<pc, outcome, abort_countdown, n, buf, sent>>
    /\ UNCHANGED <<call, port_vars, usage, shadow, erred, cleared>>

-----------------------------------------------------------------------------
\* usleep reads up to sixteen characters raw, and keeps the flags they raise.
\* Mutant: only the first of them is looked at.
HasInterruptFirst(got) == got[1] = "I"
HasInterrupt(got) == "I" \in ToSet(got)

HasError(got) ==
    LET Places(c) == {i \in DOMAIN got : got[i] = c}
    IN  IF Places("E") \cup Places("T") = {} THEN m_bus_err
        ELSE \E i \in Places("E") : \A j \in Places("T") : j < i

Usleep ==
    /\ pc = "idle" /\ line # <<>>
    /\ LET k == IF Len(line) < 16 THEN Len(line) ELSE 16
           got == SubSeq(line, 1, k)
       IN  /\ line' = SubSeq(line, k + 1, Len(line))
           /\ m_interrupt_flag' = (m_interrupt_flag \/ HasInterrupt(got))
           /\ m_bus_err' = HasError(got)
    /\ UNCHANGED <<m_cmd, m_isspace, addr_vars, m_nacks, word, abort_countdown, pc, call, n,
                   buf, outcome, sent, port_vars, usage, shadow, erred, cleared>>

\* clear() and reset_err(), before the next call.
Clear ==
    /\ pc = "idle"
    /\ m_interrupt_flag' = FALSE
    /\ m_bus_err' = FALSE
    /\ cleared' = ints - Pending("I")
    /\ UNCHANGED <<m_cmd, m_isspace, addr_vars, m_nacks, word, abort_countdown, pc, call, n,
                   buf, outcome, sent, port_vars, line, usage, shadow, erred>>

Init ==
    /\ usage \in Usages
    /\ m_cmd = "NUL" /\ m_isspace \in BOOLEAN /\ m_inc \in BOOLEAN
    /\ m_addr_set = FALSE /\ m_lastaddr = 0 /\ m_nacks = 0
    /\ m_interrupt_flag = FALSE /\ m_bus_err = FALSE
    /\ word = 0 /\ abort_countdown = AbortCountdown
    /\ pc = "idle" /\ n = 0 /\ buf = <<>> /\ outcome = "none"
    /\ call = [op |-> "none", a |-> 0, inc |-> FALSE, vals |-> <<>>]
    /\ dev_addr = 0 /\ dev_inc \in BOOLEAN
    /\ mem = [a \in Mapped |-> a]
    /\ sent = <<>> /\ wire = <<>> /\ last_cr = TRUE /\ ints = 0
    /\ line \in {<<>>, <<"T", "NL">>}
    /\ shadow = mem /\ erred = FALSE /\ cleared = 0

Lists(S) == UNION {[1 .. k -> S] : k \in 1 .. MaxLen}

Writes == \E io \in BOOLEAN, a \in Addr, inc \in usage.writes, vals \in Lists(Values) :
             /\ {Advance(a, inc, i - 1) : i \in DOMAIN vals} \subseteq Mapped
             /\ CallWrite(io, a, inc, vals)

Reads == \E a \in Addr, inc \in usage.reads, len \in 1 .. MaxLen :
            /\ usage.errors \/ {Advance(a, inc, i - 1) : i \in 1 .. len} \subseteq Mapped
            /\ CallRead(a, inc, len)

Port == Serve \/ Interrupt \/ EndLine \/ Idle \/ Arrive
Returns == WriteWord \/ WriteReturns \/ EnterReadIdle \/ ReadIdle \/ LeaveReadIdle \/ ReadWord

Next == Writes \/ Reads \/ Usleep \/ Clear \/ Returns \/ Port

Spec == Init /\ [][Next]_vars

\* The port, the line and the host's thread each keep going.  The host looks at
\* the line far more often than idle words come, so that it finds it empty.
FairSpec == /\ Spec
            /\ WF_vars(Serve) /\ WF_vars(EndLine) /\ WF_vars(Arrive) /\ WF_vars(Returns)
            /\ SF_vars(LeaveReadIdle)

-----------------------------------------------------------------------------
Where == {"idle", "acks", "readidle", "readword", "exit"}

\* Types.  m_nacks is bounded: a word acknowledges once, and never more words
\* than the call has written.
TypeOK ==
    /\ m_cmd \in Letter \cup {"NUL"}
    /\ {m_isspace, m_inc, m_addr_set, m_interrupt_flag, m_bus_err} \subseteq BOOLEAN
    /\ {m_lastaddr, dev_addr} \subseteq Addr
    /\ m_nacks \in 0 .. MaxLen /\ n \in 0 .. MaxLen
    /\ word \in Word /\ abort_countdown \in 0 .. AbortCountdown
    /\ pc \in Where /\ outcome \in {"none", "ok", "buserr", "exit"}
    /\ call.vals \in Seq(Word) /\ buf \in Seq(Word)
    /\ {dev_inc, last_cr, erred} \subseteq BOOLEAN
    /\ mem \in [Mapped -> Word] /\ shadow \in [Mapped -> Word]
    /\ wire \in Seq(Letter \cup Digit \cup Newline)
    /\ line \in Seq(Letter \cup Digit \cup Newline)
    /\ ints \in 0 .. usage.ints /\ cleared \in 0 .. ints

\* A call that returns has done what it says: the writes are where they were
\* asked for and nowhere else, and the words read are the ones at the
\* addresses asked for, whatever address the host found it need not send.
CallsDoAsTheySay ==
    pc = "idle" /\ outcome = "ok" =>
        /\ mem = shadow
        /\ call.op = "readv" =>
              /\ Len(buf) = Len(call.vals)
              /\ \A i \in DOMAIN buf :
                    LET a == Advance(call.a, call.inc, i - 1)
                    IN  a \in Mapped /\ buf[i] = mem[a]

\* Between calls no answer is still on its way: the next call cannot take the
\* last one's answer for its own.
InStep ==
    pc = "idle" =>
        /\ sent = <<>>
        /\ \A c \in {"A", "R", "K", "E"} : c \notin ToSet(Stream)

\* A call fails only if the port reported an error to it.
NoFalseError == outcome = "buserr" => erred

\* The check at the end of readv never ends the program.
NoExit == pc # "exit"

\* When the host would leave an address out, the port has that address.
AddressAgrees ==
    pc = "idle" /\ TRUE \in usage.writes \cup usage.reads /\ m_addr_set /\ m_inc =>
        dev_inc /\ dev_addr = m_lastaddr

\* An interrupt the host has read past is in the flag until clear(), whichever of
\* usleep, readword and readidle read it, alone or in the middle of the answers.
InterruptKept == ints - Pending("I") > cleared => m_interrupt_flag

\* Every call returns, or throws.
CallsReturn == pc # "idle" ~> pc = "idle"

\* The programs and lines the class serves: no writei; no readi after an error, nor
\* after a write if the line splits words; and two idle words at most, as readword gives
\* up on the third.
Served(u) ==
    /\ u.writes \subseteq {FALSE}
    /\ TRUE \in u.reads => ~u.errors /\ (u.writes = {} \/ ~u.pieces)
    /\ u.idles <= 2
=============================================================================

------------------------------ MODULE HbCmdPath ------------------------------
(* The command channel of hbbus.v, from the characters the serial port hands  *)
(* over to the bus:  hbdechex -> hbpack -> hbexec -> a Wishbone device.       *)
(* hbdechex.v's o_reset resets hbpack.v and hbexec.v; the device does not see *)
(* it.  Characters are at least CharTime clocks apart.                        *)
EXTENDS HbDechex, HbPack, FiniteSets

CONSTANTS AddrSpace, Mapped, Linger, MaxWait, PowerUp,   \* see HbExecWb
          Worth,       \* what each digit is worth
          Keys,        \* the characters that are typed
          MaxDigits,   \* digits typed in a row
          CharTime     \* clocks from one character to the next, at least

Base == Cardinality(Nibble)
Power[n \in 0 .. WordLen] == IF n = 0 THEN 1 ELSE Base * Power[n - 1]

ASSUME CmdAssumption == /\ IsFiniteSet(Nibble)
                        /\ Worth \in [Nibble -> 0 .. Base - 1]
                        /\ Worth["0"] = 0
                        /\ Power[WordLen] = 4 * AddrSpace
                        /\ Keys \subseteq Char \cup CommandLetter \cup {"OTHER"}
                        /\ MaxDigits \in Nat
                        /\ CharTime \in Nat \ {0, 1}
                        /\ AddrSpace \in Nat \ {0} /\ Mapped \subseteq 0 .. AddrSpace - 1
                        /\ PowerUp \subseteq 0 .. 4 * AddrSpace - 1 /\ MaxWait \in Nat
                        /\ Linger \in Nat /\ Linger <= 2 * CharTime

VARIABLES
    rx_stb, rx_byte,       \* registers of the serial receiver
    gap,                   \* clocks until the next character may come
    o_wb_cyc, o_wb_stb, o_wb_we, o_wb_addr, o_wb_data, inc, newaddr,
    o_rsp_stb, o_rsp_word,
    mem, taken, late, waited,
    letter, digits,   \* history: the command being typed
    promised,         \* history: commands typed in full that hbexec has not seen
    busy_for          \* history: clocks hbexec.v has been busy, up to CharTime

EX == INSTANCE HbExecWb WITH AddrWords <- {}, WriteWords <- {}

vars == <<rx_stb, rx_byte, gap, dechex_vars, pack_vars, EX!vars,
          letter, digits, promised, busy_for>>

-----------------------------------------------------------------------------
\* The number a run of digits stands for, in a 32-bit register.
Value(ds) ==
    LET value[n \in 0 .. Len(ds)] ==
          IF n = 0 THEN 0 ELSE (Base * value[n - 1] + Worth[ds[n]]) % (4 * AddrSpace)
    IN  value[Len(ds)]

AsNumber(cmd) == [sub |-> cmd.sub, word |-> Value(cmd.word)]

Typed == [sub |-> CmdSub(letter), word |-> Value(digits)]

Type ==
    \/ gap > 0 /\ gap' = gap - 1 /\ rx_stb' = FALSE /\ UNCHANGED rx_byte
    \/ gap = 0 /\ UNCHANGED gap /\ rx_stb' = FALSE /\ UNCHANGED rx_byte
    \/ /\ gap = 0
       /\ gap' = CharTime - 1
       /\ rx_stb' = TRUE
       /\ rx_byte' \in Keys
       /\ rx_byte' \in Nibble => Len(digits) < MaxDigits

\* What the characters mean, read as a person would: T forgets everything, DEL
\* is skipped, a digit belongs to the letter before it, anything else ends that
\* letter's command.
Meaning ==
    LET pending == IF o_pck_stb /\ o_pck_word.sub # "SPECIAL" /\ promised # <<>>
                     THEN Tail(promised) ELSE promised
    IN  \/ /\ ~rx_stb \/ rx_byte = DEL
           /\ UNCHANGED <<letter, digits>>
           /\ promised' = pending
        \/ /\ rx_stb /\ rx_byte = "T"
           /\ letter' = "OTHER" /\ digits' = <<>> /\ promised' = <<>>
        \/ /\ rx_stb /\ rx_byte \in Nibble
           /\ digits' = Append(digits, rx_byte)
           /\ UNCHANGED letter
           /\ promised' = pending
        \/ /\ rx_stb /\ rx_byte \notin Nibble \cup {"T", DEL}
           /\ letter' = Code(rx_byte) /\ digits' = <<>>
           /\ promised' = IF letter \in {"R", "W", "A"}
                            THEN Append(pending, Typed) ELSE pending

Init ==
    /\ DechexInit /\ PackInit /\ EX!Init
    /\ rx_stb = FALSE /\ rx_byte = DEL /\ gap = 0
    /\ letter = "OTHER" /\ digits = <<>> /\ promised = <<>>
    /\ busy_for = 0

Next ==
    /\ DechexTick(rx_stb, rx_byte)
    /\ PackTick(o_reset, o_dh_stb, o_dh_bits)
    /\ EX!BusClock(o_reset, o_pck_stb, AsNumber(o_pck_word))
    /\ Type
    /\ Meaning
    /\ busy_for' = IF ~o_wb_cyc THEN 0
                   ELSE IF busy_for < CharTime THEN busy_for + 1 ELSE CharTime

Spec == Init /\ [][Next]_vars

-----------------------------------------------------------------------------
TypeOK == /\ DechexTypeOK /\ PackTypeOK /\ EX!TypeOK
          /\ gap \in 0 .. CharTime - 1
          /\ digits \in Seq(Nibble) /\ Len(digits) <= MaxDigits
          /\ busy_for \in 0 .. CharTime

\* hbpack.v hands over the commands that were typed, each once and in order, with
\* the digits behind its own letter and no others (hbdechex.v:56-104,
\* hbpack.v:80-126).
CommandsAsTyped ==
    o_pck_stb /\ o_pck_word.sub # "SPECIAL" =>
        promised # <<>> /\ AsNumber(o_pck_word) = Head(promised)

\* A command can be lost because hbexec.v is busy (hbbus.v:85, :122) only if the
\* bus has been at it for longer than a character takes.
LostOnlyIfSlow == o_pck_stb /\ o_wb_cyc => busy_for >= CharTime - 1

\* After a reset no command reaches the bus while a device can still answer the
\* request the reset abandoned, so a late answer is never taken for another's
\* (hbexec.v:128-174, testbus.v:177-179 and :277-279).
ResetOutlastsDevice == EX!Arrives(o_pck_stb)

\* hbexec.v never answers on two clocks in a row, resets apart: hbints.v would
\* drop the second answer even with the channel empty (hbints.v:93, :130).
AnswersSpaced ==
    [][o_rsp_stb /\ o_rsp_stb' /\ o_rsp_word # EX!RSP_RESET
          => o_rsp_word' = EX!RSP_RESET]_vars
=============================================================================

------------------------------- MODULE HbPack -------------------------------
(* hbpack.v: collects a command letter and the digits behind it.  The command *)
(* goes out when the next character that is not a digit comes in.             *)
EXTENDS HbWord

VARIABLES cmd_loaded, o_pck_stb, r_cmd, o_pck_word   \* r_cmd is hbpack's r_word

pack_vars == <<cmd_loaded, o_pck_stb, r_cmd, o_pck_word>>

\* The two low bits of a code: what a word that starts with it will do.  "OTHER"
\* is 5'h1f and T 5'h16; neither loads a command.
CmdSub(bits) == CASE bits = "R" -> "RD"
                  [] bits = "W" -> "WR"
                  [] bits \in {"A", "T"} -> "ADDR"
                  [] bits \in {"S", "OTHER"} -> "SPECIAL"

Command == [sub : {"RD", "WR", "ADDR", "SPECIAL"}, word : Payload]
Empty == [sub |-> "RD", word |-> Zeros]        \* the all-zero word

PackInit == /\ cmd_loaded = FALSE
            /\ o_pck_stb = FALSE
            /\ r_cmd = Empty
            /\ o_pck_word = Empty

PackReset ==
    /\ cmd_loaded' = FALSE
    /\ o_pck_stb' = FALSE
    /\ r_cmd' = Empty
    /\ o_pck_word' = Empty

\* Mutant: the digits of the last command stay in the register.
EndOfWordKeepsDigits(bits) ==
    /\ cmd_loaded' = (bits \in {"R", "W", "A", "S"})
    /\ o_pck_stb' = cmd_loaded
    /\ o_pck_word' = r_cmd
    /\ r_cmd' = [sub |-> CmdSub(bits), word |-> r_cmd.word]

\* A code that is not a digit ends the command before it and may start another.
EndOfWord(bits) ==
    /\ cmd_loaded' = (bits \in {"R", "W", "A", "S"})
    /\ o_pck_stb' = cmd_loaded
    /\ o_pck_word' = r_cmd
    /\ r_cmd' = [sub |-> CmdSub(bits), word |-> Zeros]

NextDigit(bits) ==
    /\ o_pck_stb' = FALSE
    /\ o_pck_word' = r_cmd
    /\ r_cmd' = [r_cmd EXCEPT !.word = ShiftIn(r_cmd.word, bits)]
    /\ UNCHANGED cmd_loaded

\* Mutants: the reset is not wired; the strobe stays up until the next code.
PackTickNoReset(reset, stb, bits) ==
    \/ stb /\ bits \notin Nibble /\ EndOfWord(bits)
    \/ stb /\ bits \in Nibble /\ NextDigit(bits)
    \/ ~stb /\ o_pck_stb' = FALSE /\ UNCHANGED <<cmd_loaded, r_cmd, o_pck_word>>
PackTickStrobeHeld(reset, stb, bits) ==
    \/ reset /\ PackReset
    \/ ~reset /\ stb /\ bits \notin Nibble /\ EndOfWord(bits)
    \/ ~reset /\ stb /\ bits \in Nibble /\ NextDigit(bits)
    \/ ~reset /\ ~stb /\ UNCHANGED pack_vars

PackTick(reset, stb, bits) ==
    \/ reset /\ PackReset
    \/ ~reset /\ stb /\ bits \notin Nibble /\ EndOfWord(bits)
    \/ ~reset /\ stb /\ bits \in Nibble /\ NextDigit(bits)
    \/ ~reset /\ ~stb /\ o_pck_stb' = FALSE /\ UNCHANGED <<cmd_loaded, r_cmd, o_pck_word>>

PackTypeOK == /\ cmd_loaded \in BOOLEAN
              /\ o_pck_stb \in BOOLEAN
              /\ r_cmd \in Command
              /\ o_pck_word \in Command
=============================================================================

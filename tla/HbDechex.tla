------------------------------ MODULE HbDechex ------------------------------
(* hbdechex.v: one character in, one 5-bit code out.  A code is a digit, a    *)
(* command letter, or "OTHER" for every character without a meaning.          *)
EXTENDS HbWord

VARIABLES o_reset, o_dh_stb, o_dh_bits

dechex_vars == <<o_reset, o_dh_stb, o_dh_bits>>

CommandLetter == {"R", "W", "A", "S"}

\* Any other character ends a word; T (8'h54) is coded for form only.
Code(byte) == IF byte \in Nibble \cup CommandLetter \cup {"T"} THEN byte ELSE "OTHER"

DechexInit == /\ o_reset = TRUE
              /\ o_dh_stb = FALSE
              /\ o_dh_bits = "OTHER"

DechexTick(stb, byte) ==
    /\ o_reset' = (stb /\ byte = "T")
    /\ o_dh_stb' = (stb /\ byte # DEL)
    /\ o_dh_bits' = Code(byte)

DechexTypeOK == /\ o_reset \in BOOLEAN
                /\ o_dh_stb \in BOOLEAN
                /\ o_dh_bits \in Nibble \cup CommandLetter \cup {"T", "OTHER"}
=============================================================================

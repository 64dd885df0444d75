------------------------------ MODULE HbGenhex ------------------------------
(* hbgenhex.v: one code in, one character out.                                *)
EXTENDS HbWord

VARIABLES o_gx_stb, o_gx_char

genhex_vars == <<o_gx_stb, o_gx_char>>

\* A digit prints as itself.  Codes no word produces print as a CR.
w_gx_char(bits) ==
    CASE bits \in Nibble  -> bits
      [] bits = "DATA"    -> "R"
      [] bits = "ACK"     -> "K"
      [] bits = "ADDR"    -> "A"
      [] bits = "RESET"   -> "T"
      [] bits = "BUSERR"  -> "E"
      [] bits = "INT"     -> "I"
      [] bits = "IDLE"    -> "Z"
      [] OTHER            -> CR

GenhexInit == o_gx_stb = FALSE /\ o_gx_char = NUL

o_gx_busy(busy) == o_gx_stb /\ busy

GenhexTick(reset, stb, bits, busy) ==
    /\ o_gx_stb' = (~reset /\ IF o_gx_busy(busy) THEN o_gx_stb ELSE stb)
    /\ o_gx_char' = IF o_gx_busy(busy) THEN o_gx_char ELSE w_gx_char(bits)

GenhexTypeOK == /\ o_gx_stb \in BOOLEAN
                /\ o_gx_char \in Char
=============================================================================

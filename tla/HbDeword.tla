------------------------------ MODULE HbDeword ------------------------------
(* hbdeword.v: takes a word apart into 5-bit codes, first the kind of word,   *)
(* then its digits.  A code is a digit or the name of a kind.                 *)
EXTENDS HbWord

VARIABLES o_dw_stb, r_len, r_word, o_dw_bits

deword_vars == <<o_dw_stb, r_len, r_word, o_dw_bits>>

\* r_word and o_dw_bits have no initial value, and are not used before a word.
DewordInit == /\ o_dw_stb = FALSE
              /\ r_len = 0
              /\ r_word = Zeros
              /\ o_dw_bits = "0"

o_dw_busy == o_dw_stb

\* Mutant: the digit count is not stopped at zero.
DewordTickWraps(reset, stb, word, tx_busy) ==
    LET accept == stb /\ ~o_dw_busy
    IN  /\ r_len' = IF reset THEN 0
                    ELSE IF accept THEN IF word.sub \in SpecialSub THEN 0 ELSE WordLen
                    ELSE IF ~tx_busy THEN r_len - 1 ELSE r_len
        /\ o_dw_stb' = (~reset /\ (accept \/ IF tx_busy THEN o_dw_stb ELSE r_len # 0))
        /\ r_word' = IF accept THEN word.word
                     ELSE IF ~tx_busy THEN ShiftIn(r_word, "0") ELSE r_word
        /\ o_dw_bits' = IF accept THEN word.sub
                        ELSE IF ~tx_busy THEN Head(r_word) ELSE o_dw_bits

DewordTick(reset, stb, word, tx_busy) ==
    LET accept == stb /\ ~o_dw_busy
    IN  /\ \/ /\ reset
              /\ r_len' = 0 /\ o_dw_stb' = FALSE
           \/ /\ ~reset /\ accept
              /\ o_dw_stb' = TRUE
              /\ r_len' = IF word.sub \in SpecialSub THEN 0 ELSE WordLen
           \/ /\ ~reset /\ ~accept /\ ~tx_busy
              /\ o_dw_stb' = (r_len # 0)
              /\ r_len' = IF r_len # 0 THEN r_len - 1 ELSE 0
           \/ /\ ~reset /\ ~accept /\ tx_busy
              /\ UNCHANGED <<o_dw_stb, r_len>>
        /\ r_word' = IF accept THEN word.word
                     ELSE IF ~tx_busy THEN ShiftIn(r_word, "0") ELSE r_word
        /\ o_dw_bits' = IF accept THEN word.sub
                        ELSE IF ~tx_busy THEN Head(r_word) ELSE o_dw_bits

DewordTypeOK == /\ o_dw_stb \in BOOLEAN
                /\ r_len \in 0 .. WordLen
                /\ r_word \in Payload
                /\ o_dw_bits \in Nibble \cup RspSub
=============================================================================

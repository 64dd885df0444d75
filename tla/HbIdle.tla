------------------------------- MODULE HbIdle -------------------------------
(* hbidle.v: a one-word buffer that sends an idle word of its own after the   *)
(* response channel has been quiet for IdleLimit clocks (2^30 in the source). *)
EXTENDS HbWord

CONSTANT IdleLimit

ASSUME IdleAssumption == IdleLimit \in Nat \ {0}

VARIABLES idle_stb, idle_counter, o_idl_stb, o_idl_word

idle_vars == <<idle_stb, idle_counter, o_idl_stb, o_idl_word>>

IdleInit == /\ idle_stb = FALSE
            /\ idle_counter = 0
            /\ o_idl_stb = FALSE
            /\ o_idl_word = IDLE_WORD

o_idl_busy(busy) == o_idl_stb /\ busy

\* { idle_stb, idle_counter } <= idle_counter + 1: idle_stb is the carry.
IdleCounter(reset, stb) ==
    IF reset \/ stb
      THEN idle_stb' = FALSE /\ idle_counter' = 0
      ELSE /\ idle_stb' = (idle_counter + 1 = IdleLimit)
           /\ idle_counter' = (idle_counter + 1) % IdleLimit

\* Mutant: a word is not held while the block below is busy.
IdleStbNoHold(reset, stb, busy) ==
    o_idl_stb' = /\ ~reset
                 /\ \/ stb /\ ~o_idl_busy(busy)
                    \/ idle_stb /\ ~o_idl_stb

IdleStb(reset, stb, busy) ==
    o_idl_stb' = /\ ~reset
                 /\ \/ stb /\ ~o_idl_busy(busy)
                    \/ idle_stb /\ ~o_idl_stb
                    \/ o_idl_stb /\ busy

\* Mutant: the next word overwrites one that is waiting.
IdleWordOverwritten(stb, word, busy) ==
    o_idl_word' = IF stb THEN word ELSE IF ~busy THEN IDLE_WORD ELSE o_idl_word

\* Not reset: a word the reset caught in the buffer stays until ~busy.
IdleWord(stb, word, busy) ==
    o_idl_word' = IF stb /\ ~o_idl_busy(busy) THEN word
                  ELSE IF ~busy THEN IDLE_WORD ELSE o_idl_word

IdleTick(reset, stb, word, busy) ==
    /\ IdleCounter(reset, stb)
    /\ IdleStb(reset, stb, busy)
    /\ IdleWord(stb, word, busy)

IdleTypeOK == /\ idle_stb \in BOOLEAN
              /\ idle_counter \in 0 .. IdleLimit - 1
              /\ o_idl_stb \in BOOLEAN
              /\ o_idl_word \in Response
=============================================================================

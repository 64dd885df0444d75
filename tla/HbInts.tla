------------------------------- MODULE HbInts -------------------------------
(* hbints.v: a one-word buffer on the response channel that slips an interrupt *)
(* word in behind a response.  int_loaded says the buffer holds INT_WORD.     *)
EXTENDS HbWord

VARIABLES int_state, pending_interrupt, loaded, o_int_stb, int_loaded, o_int_word

ints_vars == <<int_state, pending_interrupt, loaded, o_int_stb, int_loaded,
               o_int_word>>

IntsInit == /\ int_state = FALSE
            /\ pending_interrupt = FALSE
            /\ loaded = FALSE
            /\ o_int_stb = FALSE
            /\ int_loaded = TRUE
            /\ o_int_word = INT_WORD

o_int_busy == o_int_stb /\ loaded

IntTaken(busy) == o_int_stb /\ ~busy /\ int_loaded

\* Mutant: the report re-arms the interrupt while the line is still up.
IntStateRearmed(reset, interrupt) ==
    int_state' = /\ ~reset
                 /\ \/ interrupt /\ ~int_state
                    \/ int_state /\ pending_interrupt

IntState(reset, interrupt) ==
    int_state' = /\ ~reset
                 /\ \/ interrupt
                    \/ int_state /\ pending_interrupt

PendingInterrupt(reset, interrupt, busy) ==
    pending_interrupt' = /\ ~reset
                         /\ \/ interrupt /\ ~int_state
                            \/ pending_interrupt /\ ~IntTaken(busy)

\* Mutant: a pending interrupt does not follow a response out.
BufferNoFollow(reset, stb, word, busy) ==
    LET accept == stb /\ ~o_int_busy
    IN  /\ loaded' = (~reset /\ (accept \/ (loaded /\ ~(o_int_stb /\ ~busy))))
        /\ o_int_stb' = (~reset /\ (accept \/ (o_int_stb /\ loaded /\ busy)))
        /\ \/ accept /\ int_loaded' = FALSE /\ o_int_word' = word
           \/ ~accept /\ (~busy \/ ~o_int_stb) /\ int_loaded' = TRUE /\ o_int_word' = INT_WORD
           \/ ~accept /\ busy /\ o_int_stb /\ UNCHANGED <<int_loaded, o_int_word>>

\* The buffer, filled and emptied.  A word that comes while o_int_busy is lost:
\* neither hbexec.v nor hbbus.v looks at it.
Buffer(reset, stb, word, busy) ==
    LET accept == stb /\ ~o_int_busy
    IN  /\ loaded' = (~reset /\ (accept \/ (loaded /\ ~(o_int_stb /\ ~busy))))
        /\ o_int_stb' = /\ ~reset
                        /\ \/ accept
                           \/ pending_interrupt /\ (~int_loaded \/ busy)
                           \/ o_int_stb /\ loaded /\ busy
        /\ \/ /\ accept
              /\ int_loaded' = FALSE
              /\ o_int_word' = word
           \/ /\ ~accept /\ (~busy \/ ~o_int_stb)
              /\ int_loaded' = TRUE
              /\ o_int_word' = INT_WORD
           \/ /\ ~accept /\ busy /\ o_int_stb
              /\ UNCHANGED <<int_loaded, o_int_word>>

IntsTick(reset, interrupt, stb, word, busy) ==
    /\ IntState(reset, interrupt)
    /\ PendingInterrupt(reset, interrupt, busy)
    /\ Buffer(reset, stb, word, busy)

IntsTypeOK == /\ int_state \in BOOLEAN
              /\ pending_interrupt \in BOOLEAN
              /\ loaded \in BOOLEAN
              /\ o_int_stb \in BOOLEAN
              /\ int_loaded \in BOOLEAN
              /\ o_int_word \in Response
=============================================================================

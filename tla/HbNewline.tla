------------------------------ MODULE HbNewline ------------------------------
(* hbnewline.v: passes characters on and adds a CR-LF pair when they stop.    *)
(* The CR gives way to a character that comes before the transmitter took it. *)
(* nl_loaded is the block's register "loaded".                                *)
EXTENDS HbWord

VARIABLES last_cr, cr_state, nl_loaded, o_nl_stb, o_nl_byte

newline_vars == <<last_cr, cr_state, nl_loaded, o_nl_stb, o_nl_byte>>

NewlineInit == /\ last_cr = TRUE
               /\ cr_state = FALSE
               /\ nl_loaded = FALSE
               /\ o_nl_stb = FALSE
               /\ o_nl_byte = DEL

\* Mutant: a character may come between a CR and its LF.
NlBusyNoCr(busy) == busy /\ o_nl_stb /\ nl_loaded

o_nl_busy(busy) == (busy /\ o_nl_stb /\ nl_loaded) \/ (cr_state /\ ~busy)

NewlineReset ==
    /\ cr_state' = FALSE
    /\ last_cr' = TRUE
    /\ o_nl_stb' = FALSE
    /\ nl_loaded' = FALSE
    /\ o_nl_byte' = DEL

PassOn(byte) ==
    /\ o_nl_stb' = TRUE
    /\ o_nl_byte' = byte
    /\ cr_state' = (byte = CR)
    /\ last_cr' = (byte = CR)
    /\ nl_loaded' = TRUE

StartNewline(stb) ==
    /\ ~last_cr
    /\ cr_state' = TRUE
    /\ o_nl_byte' = CR
    /\ last_cr' = ~stb
    /\ o_nl_stb' = ~stb
    /\ nl_loaded' = FALSE

LineFeed ==
    /\ last_cr /\ cr_state
    /\ cr_state' = FALSE
    /\ o_nl_byte' = LF
    /\ o_nl_stb' = TRUE
    /\ nl_loaded' = TRUE
    /\ UNCHANGED last_cr

Rest ==
    /\ last_cr /\ ~cr_state
    /\ nl_loaded' = FALSE
    /\ o_nl_stb' = FALSE
    /\ o_nl_byte' = DEL
    /\ UNCHANGED <<last_cr, cr_state>>

NewlineTick(reset, stb, byte, busy) ==
    LET accept == stb /\ ~o_nl_busy(busy)
    IN  \/ reset /\ NewlineReset
        \/ ~reset /\ accept /\ PassOn(byte)
        \/ ~reset /\ ~accept /\ ~busy /\ (StartNewline(stb) \/ LineFeed \/ Rest)
        \/ ~reset /\ ~accept /\ busy /\ UNCHANGED newline_vars

NewlineTypeOK == /\ last_cr \in BOOLEAN
                 /\ cr_state \in BOOLEAN
                 /\ nl_loaded \in BOOLEAN
                 /\ o_nl_stb \in BOOLEAN
                 /\ o_nl_byte \in Char
=============================================================================

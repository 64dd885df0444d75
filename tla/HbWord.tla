------------------------------- MODULE HbWord -------------------------------
(* The 34-bit words and the 5-bit codes that travel through the serial side   *)
(* of the bus: {sub, payload}.  The payload is a sequence of hex digits, most *)
(* significant first; what a digit is worth does not matter on this side.     *)
EXTENDS Sequences, Integers

CONSTANTS Nibble,      \* the hex digits
          WordLen      \* digits in a payload (8 in the source)

ASSUME WordAssumption == /\ "0" \in Nibble
                         /\ WordLen \in Nat \ {0}

Payload == [1 .. WordLen -> Nibble]
Zeros   == [i \in 1 .. WordLen |-> "0"]

\* Leading bits 2'b11 mark a special word: its code is the next three bits and
\* it has no payload.
SpecialSub == {"RESET", "BUSERR", "INT", "IDLE"}
ValueSub   == {"DATA", "ACK", "ADDR"}
RspSub     == SpecialSub \cup ValueSub

Response == [sub : RspSub, word : Payload]
Special(sub) == [sub |-> sub, word |-> Zeros]

INT_WORD  == Special("INT")
IDLE_WORD == Special("IDLE")
RSP_RESET == Special("RESET")
RSP_BUS_ERROR == Special("BUSERR")

\* The characters on the line: digits, letters, a newline, and the line at rest.
Letter == {"R", "K", "A", "T", "E", "I", "Z"}
CR  == "\r"
LF  == "\n"
DEL == "DEL"      \* 7'h7f
NUL == "NUL"      \* 7'h00
Char == Nibble \cup Letter \cup {CR, LF, DEL, NUL}

\* A digit is none of the other codes, and none of the other characters.
ASSUME DigitAssumption ==
    Nibble \cap (RspSub \cup Letter \cup {"OTHER", CR, LF, DEL, NUL}) = {}

\* Shift one digit in at the bottom and the top one out.
ShiftIn(w, digit) == Append(Tail(w), digit)
=============================================================================

---------------------------- MODULE CommandPort ----------------------------
(* What hbexec.v promises to whoever types commands at it, without a bus, its *)
(* handshakes or its registers: a command port over a memory.  A bus command  *)
(* that is accepted takes effect exactly once, at the port's address and      *)
(* before its answer, and is answered exactly once with what it found there;  *)
(* an address command is confirmed on the next clock; a command that arrives  *)
(* while one is being served is lost; a reset abandons what is being served.  *)
EXTENDS Integers

CONSTANTS AddrSpace,   \* number of word addresses
          Mapped       \* the addresses a device answers to

VARIABLES mem,      \* the words behind the bus
          addr,     \* the address the next request will use
          step,     \* whether a request advances the address
          serving,  \* the accepted bus command that has not taken effect
          owed,     \* the answer due: the effect is past, or an address is set
          rsp,      \* the answer given on this clock
          stale     \* an abandoned request may yet be reported as a bus error

port_vars == <<mem, addr, step, serving, owed, rsp, stale>>

Addr == 0 .. AddrSpace - 1
Word == 0 .. 4 * AddrSpace - 1

Nothing  == [sub |-> "NONE", word |-> 0]
Answer(sub, w) == [sub |-> sub, word |-> w]
BusError == Answer("BUSERR", 0)

Next_(a) == (a + (IF step THEN 1 ELSE 0)) % AddrSpace

\* The answer to request r made of a memory m at address a.
Result(r, m, a) ==
    IF a \notin Mapped THEN BusError
    ELSE IF r.sub = "WR" THEN Answer("ACK", 0)
    ELSE Answer("DATA", m[a])

-----------------------------------------------------------------------------
Init == /\ mem \in [Mapped -> Word]
        /\ addr \in Addr
        /\ step \in BOOLEAN
        /\ serving = Nothing
        /\ owed = Nothing
        /\ rsp = Answer("RESET", 0)
        /\ stale = FALSE

\* The request being served reaches the device.
TakeEffect ==
    /\ serving.sub # "NONE"
    /\ mem' = IF serving.sub = "WR" /\ addr \in Mapped
                THEN [mem EXCEPT ![addr] = serving.word] ELSE mem
    /\ addr' = Next_(addr)

\* One clock of a request on its way: it waits, takes effect, or takes effect
\* and is answered at once.
Serve ==
    /\ serving.sub # "NONE"
    /\ UNCHANGED <<step, stale>>
    /\ \/ UNCHANGED <<mem, addr, serving, owed>> /\ rsp' = Nothing
       \/ /\ TakeEffect
          /\ serving' = Nothing
          /\ \/ owed' = Result(serving, mem, addr) /\ rsp' = Nothing
             \/ owed' = Nothing /\ rsp' = Result(serving, mem, addr)

\* One clock of a request that took effect: its answer is given now or later.
Deliver ==
    /\ serving.sub = "NONE"
    /\ owed.sub \in {"DATA", "ACK", "BUSERR"}
    /\ UNCHANGED <<mem, addr, step, serving, stale>>
    /\ \/ rsp' = owed /\ owed' = Nothing
       \/ rsp' = Nothing /\ UNCHANGED owed

SetAddress ==
    /\ addr' \in Addr
    /\ step' \in BOOLEAN
    /\ owed' = Answer("ADDR", 4 * addr' + (IF step' THEN 0 ELSE 1))
    /\ UNCHANGED serving

Accept ==
    /\ serving' \in [sub : {"RD", "WR"}, word : Word]
    /\ owed' = Nothing
    /\ UNCHANGED <<addr, step>>

\* One clock without a bus request: an address is confirmed, and the next
\* command, if there is one, is accepted.
Listen ==
    /\ serving.sub = "NONE"
    /\ owed.sub \in {"NONE", "ADDR"}
    /\ UNCHANGED mem
    /\ \/ rsp' = owed /\ stale' \in {stale, FALSE}
       \/ stale /\ rsp' = BusError /\ stale' = FALSE
    /\ \/ UNCHANGED <<addr, step, serving>> /\ owed' = Nothing
       \/ ~stale /\ Accept
       \/ ~stale /\ SetAddress

\* A reset forgets the request being served, which may reach the device on this
\* very clock.  An address command that arrives with it is obeyed in silence.
Reset ==
    /\ rsp' = Answer("RESET", 0)
    /\ owed' = Nothing
    /\ serving' = Nothing
    /\ stale' \in BOOLEAN
    /\ stale' => stale \/ serving.sub # "NONE" \/ owed.sub = "BUSERR"
    /\ \/ UNCHANGED <<mem, addr, step>>
       \/ TakeEffect /\ UNCHANGED step
       \/ /\ serving.sub = "NONE" /\ owed.sub \in {"NONE", "ADDR"}
          /\ addr' \in Addr
          /\ step' \in BOOLEAN
          /\ UNCHANGED mem

Next == Serve \/ Deliver \/ Listen \/ Reset

Spec == Init /\ [][Next]_port_vars
=============================================================================

----------------------------- MODULE ScopeBoard -----------------------------
(* The scope of the example design and the programs that use it, one after    *)
(* another: wbregs writing the control register to arm the scope, trigger it  *)
(* by hand or disable its trigger, and memscope reading it out, which may be  *)
(* killed half way.  The bus between them brings a program's requests to the  *)
(* scope in order, any number of clocks apart, and its answers back in order. *)
(* A sample goes by the number of its clock, its name; signal, a function of  *)
(* the names, says what i_data was, and two samples may well show the same.   *)
EXTENDS WbScope, ScopeCls

CONSTANTS Settings,     \* [sync, gaps]: one clock or two, may i_ce be low
          Writes,       \* the requests that wbregs may send
          Runs,         \* how many programs run in a life of the scope
          Drift,        \* with two clocks: edges of one between two of the other
          Signals       \* what i_data may be: the value of each sample

Labels == 0 .. 2 * N - 1

ASSUME BoardAssumption ==
    /\ Settings \subseteq [sync : BOOLEAN, gaps : BOOLEAN]
    /\ Writes \subseteq [stb : {TRUE}, we : {TRUE}, addr : {0, 1}, reset : BOOLEAN,
                         manual : BOOLEAN, disable : BOOLEAN,
                         holdoff : 0 .. 2^HOLDOFFBITS - 1]
    /\ Runs \in Nat /\ Drift \in Nat \ {0}
    /\ Signals \subseteq [Labels -> Nat]

VARIABLES
    gaps,
    ahead,      \* edges of the data clock since the last of the bus clock; < 0: the reverse
    beat,       \* the sample on i_data, counted from the last reset, modulo 2 N
    left,       \* programs still to run
    prog,       \* the one that runs: none, wbregs, or what memscope does
    request,    \* the request wbregs sends
    todo, owed, \* requests this program has still to send, answers it still waits for
    scope,      \* the SCOPE object of memscope
    first,      \* history: the read address when memscope found the scope ready
    trigger,    \* history: the sample that triggered the capture
    short,      \* history: i_ce was low at the clock at which the capture stopped
    superseded, \* history: the state of the capture is older than the last request to reset
    rung,       \* history: clocks of o_interrupt since the last reset ended
    enabled     \* history: requests since then that enable the trigger of a stopped scope

tool_vars == <<left, prog, request, todo, owed, scope, first>>
sample_vars == <<beat, trigger, short>>
ring_vars == <<rung, enabled>>
vars == <<sync, bus_vars, data_vars, gaps, ahead, tool_vars, sample_vars, superseded, ring_vars>>

Init ==
    /\ ScopeInit
    /\ \E s \in Settings : sync = s.sync /\ gaps = s.gaps
    /\ ahead = 0 /\ beat = 0 /\ left = Runs
    /\ prog = "none" /\ request = NoRequest /\ todo = 0 /\ owed = 0
    /\ scope = NewScope /\ first = 0
    /\ trigger = Unset /\ short = FALSE /\ superseded = FALSE /\ rung = 0 /\ enabled = 0

-----------------------------------------------------------------------------
(* The programs.                                                              *)

ReadControl == [NoRequest EXCEPT !.stb = TRUE]
ReadData == [NoRequest EXCEPT !.stb = TRUE, !.addr = 1]

Start(name, req) ==
    /\ prog = "none" /\ left > 0
    /\ prog' = name /\ request' = req /\ left' = left - 1 /\ todo' = 1
    /\ UNCHANGED <<owed, scope, first>>

\* A program that is done leaves; memscope killed in its readout leaves when the bus
\* has answered what it asked.
Leave ==
    /\ prog # "none" /\ owed = 0 /\ (todo = 0 \/ prog = "rawread")
    /\ prog' = "none" /\ request' = NoRequest /\ todo' = 0
    /\ scope' = NewScope /\ first' = 0
    /\ UNCHANGED <<left, owed>>

Program ==
    /\ \/ \E req \in Writes : Start("wbregs", req)
       \/ Start("ready", ReadControl)
       \/ Leave
    /\ UNCHANGED <<sync, bus_vars, data_vars, gaps, ahead, sample_vars, superseded, ring_vars>>

\* memscope's main: ready, then print and writevcd, whose rawread takes the words, or
\* else decode_control, which reads the control register again.
Answered(word) ==
    \/ /\ prog = "ready"
       /\ scope' = Learn(scope, word) /\ first' = raddr
       /\ IF Ready(word)
          THEN prog' = "rawread" /\ request' = ReadData /\ todo' = ToRead(scope')
          ELSE prog' = "decode" /\ request' = ReadControl /\ todo' = 1
    \/ /\ prog = "rawread"
       /\ scope' = Keep(scope, word)
       /\ prog' = IF ToRead(scope) = 1 THEN "shown" ELSE prog
       /\ UNCHANGED <<request, first>>
    \/ prog \in {"wbregs", "decode"} /\ UNCHANGED <<prog, request, scope, first>>

\* At an edge of the bus clock the program takes an answer, and may send a request.
Master(req) ==
    /\ req = NoRequest \/ (todo > 0 /\ req = request)
    /\ owed' = owed + (IF req.stb THEN 1 ELSE 0) - (IF br_wb_ack THEN 1 ELSE 0)
    /\ IF br_wb_ack THEN Answered(o_bus_data) ELSE UNCHANGED <<prog, request, scope, first>>
    /\ ~(br_wb_ack /\ prog = "ready") => todo' = todo - (IF req.stb THEN 1 ELSE 0)
    /\ UNCHANGED left

-----------------------------------------------------------------------------
(* The clocks.                                                                *)

\* A request to reset, but for one that is lost: no reset is pending any more, and the
\* end of the last one is still to be seen.
AskReset(req) == WritingControl(req) /\ req.reset /\ (br_reset \/ ~bw_reset_complete)

\* A request that clears the disable flag of a scope that the bus sees stopped.
Enables(req) == WritingControl(req) /\ br_disable /\ ~req.disable /\ bw_status.stopped

BusEdge(req) ==
    /\ BusTick(req, beat) /\ Master(req)
    /\ IF br_reset /\ ~br_reset' THEN rung' = 0 /\ enabled' = 0
       ELSE /\ rung' = IF o_interrupt THEN rung + 1 ELSE rung
            /\ enabled' = IF Enables(req) THEN enabled + 1 ELSE enabled

\* A beat that nobody will record any more need not be counted.
DataEdge(i_ce, i_trigger) ==
    /\ DataTick(i_ce, i_trigger, beat)
    /\ beat' = IF dw_flags.reset THEN 0
               ELSE IF i_ce /\ ~dr_stopped THEN (beat + 1) % (2 * N) ELSE beat
    /\ trigger' = IF dw_flags.reset THEN Unset
                  ELSE IF dr_triggered' /\ ~dr_triggered THEN beat ELSE trigger
    /\ short' = IF dw_flags.reset THEN FALSE
                ELSE IF dr_stopped' /\ ~dr_stopped THEN ~i_ce ELSE short

\* A capture begins with every clock at which the data clock's side sees a reset.
Superseded(asked) == superseded' = ((asked \/ superseded) /\ ~dw_flags.reset)

OneClock(req, i_ce, i_trigger) ==
    /\ sync
    /\ BusEdge(req) /\ DataEdge(i_ce, i_trigger) /\ Superseded(AskReset(req))
    /\ UNCHANGED ahead

BusClock(req) ==
    /\ ~sync /\ ahead > -Drift
    /\ ahead' = IF ahead > 0 THEN -1 ELSE ahead - 1
    /\ BusEdge(req)
    /\ superseded' = (superseded \/ AskReset(req))
    /\ UNCHANGED <<data_vars, sample_vars>>

DataClock(i_ce, i_trigger) ==
    /\ ~sync /\ ahead < Drift
    /\ ahead' = IF ahead < 0 THEN 1 ELSE ahead + 1
    /\ DataEdge(i_ce, i_trigger) /\ Superseded(FALSE)
    /\ UNCHANGED <<bus_vars, tool_vars, ring_vars>>

Samples(i_ce) == i_ce \/ gaps
Clock ==
    /\ \/ \E req \in {NoRequest, request}, i_ce, i_trigger \in BOOLEAN :
             Samples(i_ce) /\ OneClock(req, i_ce, i_trigger)
       \/ \E req \in {NoRequest, request} : BusClock(req)
       \/ \E i_ce, i_trigger \in BOOLEAN : Samples(i_ce) /\ DataClock(i_ce, i_trigger)
    /\ UNCHANGED <<sync, gaps>>

Next == Program \/ Clock
Spec == Init /\ [][Next]_vars

\* The clocks run, and i_ce does not stay low.
Ticks(i_ce) ==
    /\ \E req \in {NoRequest, request}, i_trigger \in BOOLEAN :
          OneClock(req, i_ce, i_trigger) \/ BusClock(req) \/ DataClock(i_ce, i_trigger)
    /\ UNCHANGED <<sync, gaps>>
FairSpec == Spec /\ WF_vars(Ticks(TRUE))

-----------------------------------------------------------------------------

TypeOK ==
    /\ br_holdoff \in 0 .. 2^HOLDOFFBITS - 1 /\ counter \in 0 .. 2^HOLDOFFBITS - 1
    /\ {raddr, waddr, this_addr} \subseteq 0 .. N - 1
    /\ \A a \in 0 .. N - 1 : mem[a] \in Labels \cup {Unset}
    /\ beat \in Labels /\ trigger \in Labels \cup {Unset}
    /\ prog \in {"none", "wbregs", "ready", "decode", "rawread", "shown"}
    /\ todo \in 0 .. N /\ owed \in 0 .. 2 /\ Len(scope.m_data) <= N
    /\ first \in 0 .. N - 1 /\ {rung, enabled} \subseteq Nat

\* When memscope has read a whole capture, the words are consecutive samples, from the
\* one at the address where the readout began on and round the memory.  The line that
\* writevcd marks is the trigger if that is the oldest one and i_ce was high when the
\* capture stopped; print marks it too, unless the trigger's value repeats that of the
\* sample before, whose line it leaves out (neither the first nor the last).  If i_ce was
\* low (wbscope.v:319 does not ask) the capture is one sample short, and with no holdoff
\* it has not got the trigger at all, where wbscope.v:366-370 and scopecls.cpp:168-169
\* have it in the last word; and memscope does not look at the bit of the control register
\* that says whether the readout begins with the oldest word.  A holdoff longer than the
\* memory leaves nothing to mark.
Shown(i) == Word(scope, (i + N - first) % N)       \* the i-th word of the capture
Before(w) == (w + 2 * N - 1) % (2 * N)
MarksTrigger ==
    prog = "shown" =>
        /\ \A i \in Positions(scope) : Shown(i) = (Shown(0) + i) % (2 * N)
        /\ IF br_holdoff >= N THEN VcdMarks(scope) = {}
           ELSE \E i \in VcdMarks(scope) :
                   /\ Shown(i) = IF short THEN Before(trigger) ELSE trigger
                   /\ first = 0 /\ ~short => \A signal \in Signals :
                         i \in PrintMarks(scope, signal) <=>
                            \/ br_holdoff \in {0, N - 1}
                            \/ signal[trigger] # signal[Before(trigger)]

\* A capture that the bus sees stopped was begun after the last request to reset, the
\* requests made while another is pending included; only a request in the tail of a
\* reset is lost (wbscope.v:205-217).
NewCapture == bw_status.stopped /\ ~br_reset => ~superseded

\* A capture interrupts for one clock, however long it waits to be read, and for one more
\* each time that a program enables the trigger again (wbscope.v:520-528); the comment at
\* wbscope.v:112-114 has a line that is up as long as the scope is stopped, and cannot be
\* masked.
OneInterrupt == rung + (IF o_interrupt THEN 1 ELSE 0) <= 1 + enabled

\* A request to reset comes to an end, and a scope that has triggered interrupts unless
\* a program resets or disables it (wbscope.v:205-217, :320, :520-528).
Completes == /\ br_reset ~> ~br_reset
             /\ dr_triggered ~> rung > 0 \/ br_reset \/ br_disable
=============================================================================

# dbgbus in TLA+

dbgbus lets a host computer read and write a Wishbone bus inside an FPGA over a
serial port.  This directory models the `hexbus` protocol of the repository (the
hardware blocks of `hexbus/rtl`, the devices behind them, the host's class
`HEXBUS`) and what the example design puts around it: the serial line, bit by
bit, the bridge from the serial port to the network, the simulator that takes the
board's place, and the logic analyser with the program that reads it.  TLC runs
check small instances; TLAPS proofs of the bus master, the command and response
channels, the host's class, the bridge and the scope cover all of them.
Line numbers below are those of the files under `src/`.

## 1. The system

```
 host                     serial        FPGA (hbbus.v)                        bus
 HEXBUS  --characters-->  rx UART  --> hbdechex -> hbpack -> hbexec  <------> devices
 (hexbus.cpp)                                                  |              (testbus.v,
   ^                                                           v               memdev.v,
   |                                hbnewline <- hbgenhex <- hbdeword          wbscope.v)
   +------characters----  tx UART <----+          <- hbidle <- hbints <- interrupt

 tool --TCP--> netuart --TTY--> board          (a board: netuart.cpp)
 tool --TCP--> UARTSIM --bits--> simulated board   (no board: uartsim.cpp, testbus_tb.cpp)
```

| component | state it keeps | operations | hard because | what makes it correct |
|---|---|---|---|---|
| `hbexec.v` | bus request, address, increment, response | one clock | device timing, errors, resets in mid cycle, commands while busy | every accepted command takes effect once, at the right address, and is answered once with the truth |
| `hbdechex.v`, `hbpack.v` | character, command being assembled | one clock | overlong words, resets inside a word, no back-pressure | the commands typed, each once, in order |
| `hbints.v`, `hbidle.v` | one word each, interrupt state, idle counter | one clock | two senders into one buffer, nothing stops the producer | no response lost, one report per interrupt |
| `hbdeword.v`, `hbgenhex.v`, `hbnewline.v` | digits left, character, CR-LF state | one clock | hand-shakes of three different shapes; a CR that can be pre-empted | the host reads back each word |
| `HEXBUS` (hexbus.cpp) | last address, increment, acknowledgement count, the word being read | `writev`, `readv`, `readword`, `readidle`, `usleep`, `wait` | keeps a copy of the device's address; parses a stream in arbitrary pieces; exceptions | a read returns what is at its address |
| `testbus.v`, `memdev.v` | memory, registers, answer pipeline | Wishbone request | answers outlive the bus cycle | keeps the slave's side of `fwb_master.v` |
| `wbscope.v`, `scopecls.cpp`, `memscope.cpp` | circular memory, trigger, read address; the words read, length and holdoff | capture, read-out, reset; `ready`, `rawread`, `print`, `writevcd` | two clock domains, off-by-one in memory position, pipelined reads | samples in order, the trigger where the holdoff and `i_ce` put it, one interrupt per capture and enabling |
| `hbexecaxi.v`, `hbaxil.v` | AXI-Lite hand-shakes | one clock | reset in mid transaction | as `hbexec.v` |
| `hbconsole.v`, `console.v` | shared transmitter register, FIFOs | one clock | two producers | no character lost or doubled |
| `rxuartlite.v`, `txuartlite.v` | bit and baud counters | one clock | clock skew | the byte sent is the byte received |
| `netuart.cpp`, `llcomms.cpp` | connection, line buffers; descriptors | poll loop; connect, write, read, close | connections come, go, reset and hang; partial writes; poll's answer is old when used | bytes to and from one client only, whole and in order; the bridge never ends with a client |
| `uartsim.cpp`, `testbus_tb.cpp`, `autotest.cpp` | connection, shift registers and baud counters of both directions | one tick | back-to-back bytes, two clocks, clients that leave | the byte sent is the byte received |

The components interact by wires sampled on one clock (all of `hbbus.v`, and the
scope when it is `SYNCHRONOUS`), by flags through two registers (the scope with two
clocks), by sockets (tools, `netuart`, `UARTSIM`), by one serial wire each way, by a
character stream with no flow control towards the FPGA (host to `hbdechex`),
and by one with flow control (`i_tx_busy`) towards the host.  There is no
back-pressure from `hbexec.v` to `hbpack.v`, nor from `hbints.v` to `hbexec.v`:
`hbbus.v:74-77` declares `wb_busy` and `int_busy` and uses neither.  Most of the
properties below are about what this costs.

## 2. Modules

| module | models | composed of |
|---|---|---|
| `HbExec` | `hbexec.v` | |
| `HbExecWb` | `hbexec.v` and a device on its bus | `HbExec` |
| `CommandPort` | abstract: what `hbexec.v` promises | |
| `HbExecWb_proofs`, `HbRspPath_proofs`, `HbCmdPath_proofs`, `HexBusHost_proofs`, `Bridge_proofs`, `ScopeBoard_proofs`, `SimBoard_proofs` | theorems about the module of that name | that module |
| `DataLemmas` | lemmas about sequences and numbers that the proofs share | |
| `HbWord` | response words and characters | |
| `HbInts`, `HbIdle`, `HbDeword`, `HbGenhex`, `HbNewline` | the block of the same name | `HbWord` |
| `HbRspPath` | the response half of `hbbus.v`, and the host's reading of it | the five blocks |
| `HbDechex`, `HbPack` | the block of the same name | `HbWord` |
| `HbCmdPath` | the command half of `hbbus.v`, and the bus | the two blocks, `HbExecWb` |
| `HexBusHost` | the class `HEXBUS`, and the port as it sees it | |
| `Sockets` | external: TCP connections as the system calls show them | |
| `LLComms` | `llcomms.cpp` in the hands of a tool such as `wbregs.cpp` | `Sockets` |
| `NetUart` | `netuart.cpp` | `Sockets` |
| `Bridge` | tools, `netuart`, the TTY and a device that answers | `LLComms`, `NetUart` |
| `WbScope` | `wbscope.v`, with one clock or two | |
| `ScopeCls` | class `SCOPE` of `scopecls.cpp`: readout and trigger marks | |
| `ScopeBoard` | the scope, `wbregs` and `memscope` one after another, the clocks | `WbScope`, `ScopeCls` |
| `SerialLine`, `TxUartLite`, `RxUartLite` | `txuartlite.v`, `rxuartlite.v` | |
| `UartSim` | `uartsim.cpp` | `Sockets` |
| `SimBoard` | `testbus_tb.cpp`, `autotest.cpp`: simulator, line, the board's two UARTs | `UartSim`, `RxUartLite`, `TxUartLite` |
| `MC...` | values of the constants for TLC | |

**How hardware is written.**  A register is a variable with the source's name,
and a step of the specification is one rising edge of the clock.  Each `always`
block is an operator that gives the registers it assigns their next values in
terms of the current ones; the block's `...Tick` operator is the conjunction,
with the block's input wires as parameters.  A composed module supplies those
wires, from registers or from the combinational outputs (`o_..._busy`) of the
next block, and so takes all blocks one clock forward together.  `initial`
statements are `...Init`; a register that has none starts with any value.

**Words.**  A 34-bit word is a record of its kind (`sub`) and its 32-bit payload
(`word`).  `HbExec` needs arithmetic on payloads and has them as numbers below
`4 * AddrSpace`; the serial side only moves digits and has them as sequences of
hex digits.  `HbCmdPath` converts (`AsNumber`).  The width of an address and the
number of digits in a word are constants, and every addition wraps as the
register does.

**The device** of `HbExecWb` does what `bench/formal/fwb_master.v:251-404` lets a
slave do: stall, take a request, and answer it once with ACK or ERR on that
clock or later.  Two things come from the design and not from the contract.
`hbbus.v` does not reset the bus, so a device is not told that its request was
abandoned, and its answer may come with CYC low.  And that answer may come late
by `Linger` clocks: `testbus.v:177-179` and `:277-279` put two registers between a
request and its acknowledgement, so `Linger` is 2 in the runs.

**The receiver** of `HbRspPath` is `HEXBUS::readword` (`hexbus.cpp:448-528`), as far
as it cuts the stream into words: a word is over when a character comes that is
not a digit, and a second space after a space means nothing.

**The host** is `HexBusHost`.  A step is one character read, one command sent or one
return; `pc` says in which loop of `hexbus.cpp` the thread is.  The port serves
commands in order and answers each, as `CommandPort` and `ResponsesArrive` promise;
the answers it may lose when writes are outstanding (`channel_full`) are left out.  A
newline is one character there, since `isspace` treats CR and LF alike and one
space after another means nothing to either loop.  Addresses count words; the
source's are four times these, with the increment bit below.  `usage` is chosen at
the start and never changes: which calls the program makes, whether the line
splits words, how many idle words wait unread, how many interrupts come.

**Sockets** are two queues of at most `SockBuf` bytes, and what each end has been
told about the other: end of stream, reset, closed.  A process that dies with
bytes unread sends a reset, as Linux does; `read` then fails once, and `write` fails.
Delivery is at once and in order.  The backlog of `listen` is a constant.

**netuart** is cut into one step per system call at which it can wait while others
move: accept, poll, read of the TTY, write to the client, read of the client, write
to the TTY.  So a client can leave between `poll` and `read`, or between the read of
the TTY and the write that passes it on.  A byte is the record of who sent it
and its number; the device's answer to a command is the same record, which is how
the properties tell whose answer it is.  `pc` is the place in `check_incoming` and
`main`; `confd` is -1 (0 in the model) in the flush loop.

**Tools** connect once, write at most `Window` commands ahead of their answers, and
leave by `NETCOMMS::close`: shut down, read to the end of the stream, close.  A hasty
one leaves without its answers (as a throw in `HEXBUS` makes `wbregs` do), a killed
one at any moment.

**The scope** takes its two clocks as two actions, which come in any order but
with no more than `Drift` edges of one between two of the other; with one clock both
tick together.  A sample goes by its number since the reset, modulo twice the memory:
that is a name, and what `i_data` was at that clock is `signal[name]`, for each `signal` of
`Signals`.  Two samples may have the same value, which is what `print` looks at when it
leaves lines out.  The flags that cross clocks
are taken whole, at either value only as the edges order them.  The bus brings
requests in order and any number of clocks apart, back to back included.

**The serial line** is a bit per clock.  A step of `SimBoard` is one tick of the
simulation: `UARTSIM` looks at the line, the board's registers take a clock.  What the
board's channels want to say, and when, is open, which covers whatever `hbbus.v` does.

**History variables** (`shadow`, `erred`, `cleared`, `owed`, `torn`, `armed`, `letter`, `digits`, `promised`,
`busy_for`, `heard`, `said`, `accepted_at`, `served_from`, `trigger`, `first`,
`short`, `superseded`, `rung`, `enabled`, `taken`, `passed`) record what happened; no guard on a register
reads them except the host's window in `HbRspPath!Respond` and the digit bound in
`HbCmdPath!Type`, which are the environment's.  `quiet` in `HbRspPath` and `told` in
`Bridge` are bounds on what the environment may do: how soon the next response
comes, how much the device says unasked.

## 3. Runs

| run | question | bounds | states |
|---|---|---|---|
| `exec` | is `hbexec.v` a command port? | 4 addresses, 2 mapped; stalls and waits to 2 clocks; 4 address commands, 2 write values | 10 thousand |
| `rsp_path` | does the response channel deliver? | 2 binary digits, transmitter 0-2 clocks busy, 2 outstanding responses 4 clocks apart or more, idle after 19 clocks | 137 thousand |
| `cmd_path` | does the command channel hand over what is typed? | 2 binary digits, up to 3 typed, a character every 2 clocks or slower | 343 thousand |
| `host` | does `HEXBUS` do what its calls say? | 3 addresses, 2 mapped; 2-digit words; calls of 1 or 2 words; 5 usages | 407 thousand |
| `bridge` | do tools share the TTY without harm? | 2 tools, 2 commands each; socket 2 bytes, TTY 1, `read` 2, line 3; 4 settings of how tools leave | 264 thousand |
| `scope` | is what `memscope` shows the capture around the trigger? | 8 words; holdoffs 0, 6, 8; 2 programs; clocks within 2 edges; 2 settings; 4 signals | 530 thousand |
| `serial` | do bytes cross the line and the port? | 2 clients, 2 byte values, up to 4 bytes; 4, 8 and 25 clocks per bit, 24 to 26 at the other end | 363 thousand |
| `host_writei` | the same with `writei`? **No.** | 3 mapped addresses, whole words | to the violation |
| `host_retry` | the same with `readi` after an error? **No.** | whole words | to the violation |
| `host_pieces` | the same with `readi` after `writeio`, words in pieces? **No.** | 3 mapped addresses | to the violation |
| `interrupt_idle` | is an interrupt reported "any time things are idle"? **No.** | as `rsp_path` | 137 thousand |
| `channel_full` | does a response wait while `hbints.v` is busy? **No.** | as `rsp_path`, 3 outstanding | to the violation |

*`exec`.*  `IInv` is the invariant of the proofs.  `BusStable` is the master's half of
`fwb_master.v`.  `CycleAnswered`: a bus cycle ends in an answer.  `ImplementsPort`
says that the whole is a `CommandPort`: a serving request takes effect once, the
address advances with the effect, the answer is what was found at that address,
one answer per command, and a reset abandons all of it.  `CommandPort` admits one
untidy thing, in its variable `stale`: after a reset, the error of an abandoned
request is still reported, because `hbexec.v:299` does not look at `o_wb_cyc`.
An address between two mapped ones, one that wraps, a held one and a difference
are all in the commands; two clocks of stall and wait give all orders of stall,
acceptance, answer, reset and command.

*`rsp_path`.*  `ResponsesInOrder` and `ResponsesArrive` are the correctness of the
channel: what the host reads is what `hbexec.v` said, in order, all of it.
Interrupts, idle words, newlines and resets happen on any clock; a response cut
by a reset is excused, the first one after it is not.  `NewlinePairs`,
`OneReportPerInterrupt` and `InterruptFollowsResponse` are about the three
inserters.  Two binary digits keep letters, first, last and middle positions of
a word apart; the transmitter is sometimes free and sometimes busy, which is all
its neighbours see; 19 clocks is just longer than the channel takes to drain,
which the assumption `PathAssumption` demands of any `IdleLimit` (the source has 2^30).
Two outstanding responses is the most for which the channel is lossless, and only if
they come farther apart than the transmitter takes for a character: `hbdeword.v`
needs that long to take a word from `hbidle.v`, and meanwhile `hbints.v` holds one word.
`PathAssumption` says so (`Apart > MaxTx + 1`), and the design gives it, since a command
is two characters or more of the same baud rate.

*`cmd_path`.*  `CommandsAsTyped` compares what comes out of `hbpack.v` with a
reading of the typed characters.  `LostOnlyIfSlow` is the price of the unused
`wb_busy`: a command can only be lost if the bus was busy for a character time.
`ResetOutlastsDevice` discharges the one thing `HbExecWb` assumes about its
commands (`Arrives`): none comes while a device may still answer for an abandoned
request.  That rests on `Linger <= 2 * CharTime`: an answer trails its cycle by no more
than the two characters a command needs, two clocks against thousands in the design.
`AnswersSpaced` is what `HbRspPath` takes from `hbexec.v`: no two answers on consecutive
clocks.  Characters two clocks apart are far faster than any UART; slower only makes
it easier.

*`interrupt_idle`* and *`channel_full`* find the two disagreements that PROJECT.json
lists.  In the first, an interrupt on a quiet channel is latched and never sent,
because `hbints.v:107` sends it only behind a response.  In the second, a host that
has an address and two writes outstanding, as `HEXBUS::writev` has
(`hexbus.cpp:205-228`), loses a response when an interrupt word gets in between.

*`host`.*  `CallsDoAsTheySay` is the contract of `devbus.h`: what a returning call wrote is
in memory and nothing else is, and what it read was there.  `AddressAgrees` is why
addresses can be left out; `InStep` why one call does not read another's
answers; `NoExit` that the sanity check of `readv` (`hexbus.cpp:391`) is quiet;
`NoFalseError` and `InterruptKept` that errors are real and interrupts not
swallowed; `CallsReturn` that the counting of acknowledgements never hangs.  They hold
for the programs and lines of `Served`, which the five of `MCUsages` are chosen from and
`MCHexBusHost` assumes of them; the limits are themselves results:
 * no `writei`, no `readi` after an error or after a write over a line that splits
   words: runs `host_writei`, `host_retry` and `host_pieces` show each go wrong;
 * writes go to mapped addresses: after an error `readidle` throws before it has
   recorded the character in hand (`hexbus.cpp:595`), and every later character
   throws again;
 * at most two idle words unread: with a third `readword` gives up by design
   (`hexbus.cpp:494-500`), some 30 seconds of silence at 100 MHz.
Two words per call is the least with a word in the middle of a stream of
acknowledgements; two digits is the least that a line can split.  Each usage
combines what can interact and leaves out the rest, for size.

*`bridge`.*  `AnswersWhole` and `CommandsWhole`: in each direction, what has arrived, is in
`netuart` and is still queued is together what was said, so nothing is lost,
doubled, reordered or mixed, although the TTY takes a part of a write or refuses it.
`NoCommandDropped`: a client that shuts down behind its last bytes has them delivered.
`FlushedBefore` is what the flush of `netuart.cpp:422-424` achieves, and no more: it
discards what the device had said by then.  What a hasty tool asked for and the
device answers later reaches the next client; so `OwnAnswers` holds if every tool is
patient, and the setting with a hasty one shows the others hold without it.
`PatientAnswered`: such a tool then leaves with all its answers.  `KeepsServing`: no way
of leaving ends the bridge (`netuart.cpp:161-171` replaced an assertion that did).
`EveryToolLeaves`: `NETCOMMS::close`, which waits for the other side, always returns.
Two clients are the least that can disturb each other; a chunk of two against a
TTY that takes one makes every second write partial; a buffer of three characters
fills and is ended by a newline, both ways.

*`scope`.*  `MarksTrigger` says what a complete readout shows: consecutive samples, from
the one at the address where the readout began and round the memory (`first`).  If that
is the oldest and `i_ce` was high at the clock at which the capture stopped, the line that
`writevcd` marks is the trigger.  `print` marks it too, unless the trigger's value repeats
that of the sample before it, whose line, mark included, it leaves out
(`scopecls.cpp:190-193`; the first line and the last always appear).  A holdoff longer
than the memory marks nothing.  So memory and host are consistent, and yet the mark is
not always the trigger, in ways that disagree with what the sources say:
 * the stop register does not wait for `i_ce` (`wbscope.v:319`, where the condition is
   commented out), the counter and the memory do.  If `i_ce` is low just then the capture
   is one sample `short`, the marked word is the sample before the trigger, and with no
   holdoff the trigger is not in the memory at all, against `wbscope.v:366-370` ("a hold
   off of zero place the trigger in the last memory address") and `scopecls.cpp:168-169`
   ("If the holdoff is zero, the triggered item is the very last one").  The example design
   ties `i_ce` high;
 * a `memscope` killed in its readout leaves the read address in the middle.  The next one
   does not look at the bit that says so (`decode_control` prints it as ZERO), and shows
   the words rotated and the mark at the wrong one, against `wbscope.v:28-29` ("oldest to
   most recent").  Item 9 of that header (`:31-32`) says that a write to the data register sets
   the address back; the code does so on a write to the control register (`:456-458`).
`NewCapture`: once a reset is asked for, the bus sees the scope stopped only by a capture
begun after that request, although request and acknowledgement take several clocks each
way; a second request meanwhile counts, since the reset it finds pending serves it.  It
says nothing of the holdoff.  A request in the tail of the hand-shake is dropped, and its
holdoff is taken all the same (`wbscope.v:200-208`): that capture is the one begun before
it, with the holdoff of the request behind it.
`OneInterrupt` counts the clocks of `o_interrupt` between two resets: one, however long
the capture waits, and one more each time a program clears the disable flag of a scope
seen stopped, for `br_level_interrupt` falls with the flag (`wbscope.v:520-528`).
`wbscope.v:112-114` has it otherwise: "This line is equivalent to the scope  being stopped.
It is not maskable here."  The line is a pulse, and the flag masks it.
`Completes`: a reset comes to its end, and a triggered capture interrupts unless a program
resets or disables it.
Holdoffs of 0, 6 and 8 put the trigger last, next to first and out of a memory of eight
(the theorem covers 7, first); the signals change with every sample, hold for two or three, or
never change.  One setting has one clock and an `i_ce` that may be low at any clock, which
includes the design's, where it never is; the other has two clocks.  PROJECT.json lists
the three disagreements under this run, whose properties state exactly what the code does.

*`serial`.*  `BytesInOrder` both ways, `AllServed` in the end.  At the 25 clocks of the
source one clock more or less per bit (4%) is tolerated in both directions; two
(8%) is not, which bounds what the property can say.  Short bits (4 and 8 clocks)
make room for two clients, for both directions at once and for a client that leaves
in mid byte.  A start bit that falls while the stop bit before it is still waited
for is the reason for `m_rx_changectr` (`uartsim.cpp:180-189`), and bytes on each
other's heels reach it.  `autotest` keeps `UARTSIM` from the line for its first 500
ticks: the board's first two characters pass unheard, and the cut falls into a
stop bit, so the third is heard whole; this needs the greeting to begin within 24
clocks, and the model has it within half a bit.

**Fairness.**  In `HexBusHost` the port, the line and the host's thread each go on
(weak fairness), and `readidle` now and then finds the line empty (strong
fairness): idle words come 2^30 clocks apart, calls of `available` do not.
In `Bridge`, `netuart`, the device (hear and answer) and each tool go on (weak
fairness: processes that are scheduled, calls that return); being killed, being
unplugged and speaking unasked are never forced.  In `ScopeBoard` the clocks tick and
`i_ce` comes again; programs need do nothing.  In `SimBoard` the simulation ticks and
each client leaves some time.
In the other modules `FairSpec` adds weak fairness of `Next`, and nothing else: the clock
does not stop.  The device's and the transmitter's patience is a bound in their
actions (`MaxWait`, `MaxTx`), as it is in `fwb_master.v:296-340`.  No liveness
property of the design needs the environment to do something.

**Deadlock** is checked in the runs of the hardware, where a clock edge must always be
possible, the scope and the simulation included.  A host that makes no more calls may
stop, and so may a bridge that has lost its TTY.

## 4. Proofs

Every theorem holds for every value of the constants that the assumption of its
module allows; TLC evaluates the assumptions in the runs.  Induction over a number or
along a sequence is by the least counterexample (`DataLemmas!Least`, `Induction`).

**`HbExecWb_proofs`** (every address width, set of mapped addresses, set of commands and
timing of the device; `AddrSpaceAssumption`, `SlaveAssumption`, and `Arrives`, which
`ResetOutlastsDevice` is about):

* `Invariant`: `Spec => []IInv`.  `IInv` is `TypeOK` and `Handshake`.  `Handshake` is what
  makes the types inductive and the rest provable: a request is on the bus, in
  the device or nowhere, the device's copy has the direction the master holds,
  and an address waits for confirmation only between cycles.
* `Stability`: `Spec => BusStable`, from `IInv` before the step.
* `Implementation`: `Spec => ImplementsPort`, that is, `Init` and every step map to
  those of `CommandPort`.  `StepPort` is by cases on what the master does: reset, a
  request on the bus, a cycle waiting for its answer, or none.

**`HbCmdPath_proofs`** (every set of digits, word length, device and spacing of the
characters; `CmdAssumption`).  `Timed` is the inductive part about time alone: how far a
character has come bounds how long ago it was typed, and so how long a request can
have been on the bus and how soon a command can follow a reset.  `Resets`, `Losses` and
`Spacing` follow.  `Parsed` adds the contents: `hbpack.v` holds the letter and the digits
typed since, and the commands still to come out are those that the characters on their
way complete.  That its register is the number typed, however many digits overflow it,
is arithmetic modulo a power (`DataLemmas!ModEarly`).  `Commands` (`CommandsAsTyped`) and
`Types` follow.

**`HbRspPath_proofs`** (every number of digits, window and pace of the transmitter;
`PathAssumption`).  `Types` bounds every counter.  `LineState` says what `cr_state` and
`last_cr` of `hbnewline.v` remember of what is on the line, and gives `Newlines`;
`ReportState` says what `int_state` and `pending_interrupt` of `hbints.v` remember of the
interrupt line and of the report in the buffer, and gives `Reports`.
`Ordered` (`ResponsesInOrder`) is about what the host *would* have read if everything below
`hbidle.v` were sent: a record `Sent`, to which a character that only moves from one block to
the next does nothing.  `OrderState` says that `Sent` holds no wrong word, that the host is owed
the response it is in the middle of, whose missing digits are those `hbdeword.v` holds, and
behind it just the responses that wait in the two buffers.  A clock then takes a word, gives a
digit or adds a newline, and what the host is owed changes with it.  That nothing is lost is
a matter of time: `TimingState` bounds how long `hbdeword.v` keeps a word that `hbidle.v`
waits to hand it (`Drain`), so that `hbints.v` is free when the next response comes.  This needs the
hypothesis `Window <= 2`, at most two words outstanding; `channel_full` is the same
module with three, where TLC finds the loss.

**`HexBusHost_proofs`** (every bus, number base, word length, length of call, and every program and
line that is `Served`; `HostAssumption`).  The theorems are `Spec => [](Served(usage) => P)` for
the seven invariants of `host`.  `Served` is what section 3 lists; the runs
`host_writei`, `host_retry` and `host_pieces` show that neither of its conditions on calls can go.
The invariant is `HInv`, of which
 * `Grammar` and `Holds` say what the characters ahead of the host are: the letter it is
   inside, then letters each with its digits, of which it may have read a part;
 * `Phase` says, for each place of the thread, which of the call's commands are on their
   way and which answer is ahead: of `readv`, the address is still to be sent
   (`Asking`), or the request is on its way (`Asked`), or its answer lies at one place
   and only confirmations of the address lie before it (`Answered`); of `writev`, how
   many words the port has written, which is how many acknowledgements have come or are
   ahead (`Written`); between calls, nothing;
 * `Lines` says that over a line which does not split words the host stops only behind
   one: without it `readidle`, which begins with `word = 0`, could misread an address;
 * `Counts` bounds the idle words ahead, which is why `readword` does not give up.

An inductive step takes one character or sends one: `Ended`, `Continued` and `Grown` are
the three ways in which what is ahead changes, and the lemmas named for them say what
becomes of each part.  The correctness of the digits is that the first `j` of them are the
word divided by a power of the base (`TopOf`).

**`Bridge_proofs`** (any number of clients and commands, every buffer size, whatever the device
says unasked; `BridgeAssumption`).  The parts of `IInv`: one client is connected at a time
(`OneServed`); what `poll` promised of the TTY still holds when it is used (`Stays`); a
connection ends early only if its tool is killed (`Ends`); and, with `At` for "these bytes lie
in that sequence from here on", where the bytes of each queue lie in the whole that was said
(`Waits`, `Follows`, `Flushed`) and in what a client wrote (`CommandsOf`).  `Whole`,
`Answering`, `Delivered`, `Flush` and `Serving` follow.

The second half is about whose answers a tool gets.  `Typed` bounds the line buffers and the
queues.  For patient tools behind a TTY that stays, `AInv` adds to `IInv` that each byte of a client
is at one place (`Once`: counted over its connection, the buffer of `netuart`, the TTY, the
device and what the tool has received, it occurs once if the tool has written it, else not
at all), that the places which outlive a connection hold bytes of the client in service only
(`Owned`), and that a connection ends only when its tool has written all its commands and
holds as many answers (`Finished`).  The hard step is the end of a connection.  The tool has
counted its answers, not looked at them; but they are all its own, no two are the same, and
there are as many as commands, so by counting they are all of them.  Then none is
left in the TTY or with the device, and the next client starts with those clean.
`NobodyElses` (`OwnAnswers`) and `Answered` (`PatientAnswered`) follow.

**`ScopeBoard_proofs`** (every memory size and holdoff, one clock or two, every drift;
`BoardAssumption`).  A request to reset goes up and then down a `Ring` of six registers, three
of each clock; `Asked` and `Seen` say where on its way a capture may have begun and its
end may be seen; `Rung` that the interrupts given are remembered in `br_level_interrupt` or in the
disable flag (`Spent`), and that each enabling gives back one.  `Fresh` and `Interrupts`
follow.  `TInv` (with it `Typed`) bounds the registers, and says how far `memscope` and its requests
have come.  `Marks` (`MarksTrigger`) is proved from `MInv`:
 * `Order`: the age of a word of the memory gives the sample in it;
 * `Unarmed`, `Slow`: the scope does not trigger before it has filled its memory, and so not
   while the hand-shake of a reset is under way;
 * `Marked`: since it triggered, `counter` samples have come; when it has stopped, `holdoff` and
   those of the pipeline (`Ahead`), one fewer if the capture is short;
 * `Found`, `Held`, `Fetched`: the requests of the readout, the two registers behind the memory and the
   read address agree on which word comes next (`Place`: counted from where the readout
   began, round the memory), and the capture stays as it was found.

The signals are constants of which the theorem assumes nothing: whatever `i_data` shows, what
`print` hides is what repeats.

`Marks` has a hypothesis: with two clocks, the data clock ticks at most half a memory per bus
clock (`2 * Drift <= N`).  It is not there for convenience.  A second request to reset that falls into the
tail of the hand-shake changes the holdoff but resets nothing (`wbscope.v:199-218`); a
faster data clock can have filled the memory and triggered by then, with the old one.
In a memory of eight TLC finds the wrong mark with `Drift` 5 and none with 4.  The
example design has a memory of 1024 and one clock (`wbscope.v:91-93`, `testbus.v:252`).

**`SimBoard_proofs`** (every set of bytes, any number of clients, bytes to send and spacing of them,
a port or the standard input; `SettingsAssumption`).  `InOrder` (`BytesInOrder`) and `Typed` are
proved from `SInv`, in which a direction of the line is two ends that count clocks apart:
 * what a transmitter holds and counts determines which byte is on its line and for how long
   that byte has been there, its *age*; the byte and its age determine the level, so the
   line is a function of two numbers and its history is not needed;
 * from the board to `UARTSIM` (`Listens`): the state and the counter of the receiver are those of a byte
   whose start bit it met at that age, and the bits it has shifted in are the first of
   that byte; what it has passed on are the bytes before.  A byte can start while the
   stop bit before it is waited for; `m_rx_changectr` then makes up for the clocks
   that were lost (`Fallen`), which is where ages of two bytes meet.  `WarmsUp` is
   `autotest`, which gives `UARTSIM` the line in the stop bit of the second character, and so
   the third is heard whole;
 * from `UARTSIM` to the board: the two registers in front of the receiver hold the line of one and
   two clocks ago (`Synchronized`); `ck_uart` and `chg_counter` say how long the line has been as
   it is, and once a start bit has been recognised the state and the counter give the age of the
   byte (`RxShape`, `Catches`); the receiver is back in wait before the next one falls.

Both need to know that the sampling points of one end fall into the bits of the other.  `Agree`
says so of two baud intervals: one inequality per bit and direction.  `Bearable`, the
hypothesis of `InOrder` and `Typed`, asks it of every member of `Settings`.  `FourPercent` says what that
amounts to: intervals from four clocks up that differ by up to 4% either way agree, so
every interval of four clocks or more does that both ends share.  Three clocks are not enough:
`half_baud` is then 1, `half_baud-1'b1-1'b1` wraps to all ones (`rxuartlite.v:135`) and no start bit
is ever recognised, which `HalfBaudTime` says by asking for `half_baud >= 2`.  The settings of the run
`serial` all satisfy it, and with 25 clocks and a difference of two (8%) TLC finds a wrong byte.

**Model-checked only.**  Liveness (`CycleAnswered`, `ResponsesArrive`, `InterruptFollowsResponse`,
`CallsReturn`, `EveryToolLeaves`, `Completes`, `AllServed`) is beyond the prover.  Every safety
property that a passing run checks is stated by a theorem.

## 5. Plan

In order of what is at stake:

1. *(done)* `hbexec.v` with its bus, its abstract specification and the proofs; the
   response channel; the command channel.
2. *(done)* `HexBusHost`: the class `HEXBUS` against a port that loses nothing.
3. *(done)* `Bridge`, `ScopeBoard`, `SimBoard`: what is around the port.
4. `HbExecAxi`: `hbexecaxi.v` with an AXI-Lite slave, against the same `CommandPort`
   where it implements it (`hbexecaxi.v:140`, `:287` are where it may not).
5. `HbConsole`: the two streams of `hbconsole.v` into one transmitter.
6. *(done)* Proofs of the command channel, the host, the bridge and the scope's reset, for
   every value of their constants.
7. *(done)* Proofs of `ResponsesInOrder`, of `OwnAnswers` for any number of patient tools, and of
   `MarksTrigger` for every memory size and holdoff.
8. *(done)* Proof of `BytesInOrder` for every baud interval and difference of the clocks that it
   tolerates.

## 6. Not modelled

* `hbexecaxi.v`, `hbaxil.v`, `hbconsole.v`, `console.v`: alternatives to what the example
  design uses; next in the plan.  `quikbus.v`: `testbus.v` with fewer devices.
* The compressed readout of `scopecls.cpp` (`m_compressed`): the core it reads, `wbscopc`,
  is not in the repository, so there is nothing to check it against.  Read, not
  checked: `:421` compares an address less the length with the offset, and so marks
  no trigger within the collect; `:182-184` compares after incrementing, and so
  marks the line before.
* Formatting: the text of `print`, of VCD headers and of traces, times in ns.  A scope of four words or fewer makes `rawread` return without
  data and `print` use a null pointer; the model has eight words.
* `netuart.cpp`: the settings of the TTY (the branch for 3.5 MBaud at `:381` repeats the
  condition of the one above it and is never taken); the assertion at `:242` that a
  client sends no zero byte; signals; errors of `socket`, `bind` and `accept`.
* `TTYCOMMS` of `llcomms.cpp`, and that `NETCOMMS::close` leaves `m_fdw` set, so that a second
  close would close the descriptor again.
* `uartsim.cpp`: parity and two stop bits (no caller sets them); an error of the
  standard input; that `m_setup` and `m_last_tx` have no initial value: `setup` compares
  with what is there and would skip a setting that happens to be equal.
* Torn values between the scope's clocks (a register that takes one bit of a group
  early); the holdoff, which crosses without a register, changes only at or just
  behind a reset.
* `regdefs.cpp`, argument parsing, the test script of `autotest.cpp` (strings that are
  expected), the formal properties as such (they are the sources' own statements
  and appear as properties here), licence texts and Makefiles.

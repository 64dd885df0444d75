----------------------------- MODULE Bridge_proofs -----------------------------
(* Proofs about netuart and the tools it serves, for every number of clients   *)
(* and commands, every buffer size, and whatever the device says unasked: the  *)
(* answers reach the client in service, in order; then how full the buffers    *)
(* get, and that a tool which waits for its answers gets them, and nobody      *)
(* else's, if all do.                                                          *)
EXTENDS Bridge, DataLemmas, TLAPS

Conns == [server : {"none", "waiting", "accepted", "closed"}, up : Seq(Byte), down : Seq(Byte),
          upfin : BOOLEAN, gone : BOOLEAN, reset : BOOLEAN, err : BOOLEAN]

\* The types that the proofs need; the lengths of the line buffers are not among them.
Types ==
    /\ pc \in {"start", "accept", "poll", "tty", "send", "skt", "write", "exited"}
    /\ con \in Clients \cup {0} /\ confd \in {0, con} /\ m_connected \in BOOLEAN
    /\ revents \in [tty : BOOLEAN, skt : BOOLEAN]
    /\ tty \in [up : BOOLEAN, in : Seq(Byte), out : Seq(Byte)]
    /\ m_buf \in Seq(Byte)
    /\ conn \in [Clients -> Conns]
    /\ tool \in [Clients -> {"idle", "runs", "closing", "left"}]
    /\ wrote \in [Clients -> 0 .. Commands] /\ taken \in [Clients -> Seq(Byte)]
    /\ habit \in [Clients -> {"patient", "hasty", "killed"}] /\ fixed \in BOOLEAN
    /\ unasked \in Nat /\ told \in 0 .. unasked
    /\ heard \in Seq(Byte) /\ said \in Seq(Byte) /\ answered \in 0 .. Len(heard)
    /\ accepted_at \in [Clients -> Nat] /\ served_from \in [Clients -> Nat]

\* One client is connected at a time, from its accept to the end of its connection.
OneServed ==
    /\ m_connected /\ pc # "exited" => con # 0 /\ conn[con].server = "accepted"
    /\ pc \in {"start", "accept"} => ~m_connected
    /\ pc \in {"send", "skt", "write"} => m_connected /\ confd # 0
    /\ pc \in {"poll", "tty"} /\ confd # 0 => m_connected
    /\ \A c \in Clients :
         /\ conn[c].server = "accepted" => m_connected /\ con = c
         /\ tool[c] = "idle" => conn[c].server = "none"

\* What poll has said of the TTY is still so when it is acted upon.
Stays ==
    /\ fixed => tty.up /\ pc # "exited"
    /\ pc = "tty" /\ revents.tty /\ tty.up => tty.in # <<>>

\* Only a tool that is killed leaves before the end of its connection.
Ends ==
    \A c \in Clients :
      /\ conn[c].gone /\ conn[c].server # "closed" => habit[c] = "killed"
      /\ conn[c].reset => conn[c].gone /\ habit[c] = "killed"

\* The bytes on the TTY are the last that were said.
Waits ==
    /\ Len(tty.in) <= Len(said) /\ At(tty.in, said, Len(said) - Len(tty.in))
    /\ ~tty.up => tty.in = <<>> /\ tty.out = <<>>

\* What a client was given, and is being given, is what was said from a point on.
Given(c) == Received(c) \o (IF pc = "send" /\ confd = c /\ ~conn[c].gone THEN m_buf ELSE <<>>)
Follows ==
    \A c \in Clients :
      /\ At(Given(c), said, served_from[c])
      /\ confd = c /\ ~conn[c].gone /\ tty.up =>
           served_from[c] + Len(Given(c)) + Len(tty.in) = Len(said)

\* That point is not before its accept.
Flushed ==
    \A c \in Clients :
      /\ accepted_at[c] <= Len(said)
      /\ confd = c \/ Received(c) # <<>> => served_from[c] >= accepted_at[c]
      /\ con = c /\ m_connected /\ confd = 0 /\ pc = "tty" /\ ~revents.tty =>
           Len(said) - Len(tty.in) >= accepted_at[c]
      /\ conn[c].server \in {"none", "waiting"} \/ (con = c /\ m_connected /\ confd = 0) =>
           Received(c) = <<>>

\* The commands of a client are heard together, in order and from the first on: those
\* of the client in service are the last heard, and the rest of them is on its way.
HeardAt(c, place, len) ==
    /\ place + len <= Len(Heard) /\ len <= wrote[c]
    /\ \A i \in 1 .. Len(Heard) : Heard[i].to = c <=> i \in place + 1 .. place + len
    /\ \A k \in 1 .. len : Heard[place + k].n = k
Sending(c, place, len) ==
    /\ conn[c].server \in {"none", "waiting"} => len = 0
    /\ conn[c].server = "accepted" /\ tty.up => len = 0 \/ place + len = Len(Heard)
    /\ conn[c].server # "closed" /\ tty.up =>
         /\ Len(conn[c].up) = wrote[c] - len
         /\ \A k \in 1 .. Len(conn[c].up) : conn[c].up[k] = [to |-> c, n |-> len + k]
    /\ conn[c].server = "closed" /\ fixed /\ habit[c] # "killed" => len = wrote[c]
CommandsOf(c) == \E place, len \in Nat : HeardAt(c, place, len) /\ Sending(c, place, len)

IInv == Types /\ OneServed /\ Stays /\ Ends /\ Waits /\ Follows /\ Flushed
        /\ \A c \in Clients : CommandsOf(c)
-----------------------------------------------------------------------------
(* Types.                                                                     *)

LEMMA ByteStays == [Next]_vars => UNCHANGED <<unasked, habit, fixed>> /\ Byte' = Byte
<1> SUFFICES ASSUME [Next]_vars PROVE UNCHANGED <<unasked, habit, fixed>> /\ Byte' = Byte
  OBVIOUS
<1>1. UNCHANGED <<unasked, habit, fixed>>
  BY DEF Next, Device, NetUart, Tool, ToolStep, Connect, Write, Read, Shutdown, Drain, Killed,
         vars, llvars
<1> QED BY <1>1 DEF Byte

LEMMA ConnTypes ==
    ASSUME NEW k \in Conns, NEW bytes \in Seq(Byte)
    PROVE  /\ Closed(k) \in Conns /\ Gone(k) \in Conns /\ Sent(k, bytes) \in Conns
           /\ [k EXCEPT !.up = bytes] \in Conns /\ [k EXCEPT !.down = bytes] \in Conns
           /\ [k EXCEPT !.server = "waiting"] \in Conns /\ [k EXCEPT !.upfin = TRUE] \in Conns
           /\ [k EXCEPT !.server = "accepted"] \in Conns
           /\ \A e \in BOOLEAN : [k EXCEPT !.err = e] \in Conns
<1>1. <<>> \in Seq(Byte)
  BY EmptySeq
<1>2. k.down \o bytes \in Seq(Byte)
  BY ConcatProperties DEF Conns
<1> QED BY <1>1, <1>2 DEF Conns, Closed, Gone, Sent

LEMMA FirstTypes ==
    ASSUME NEW q \in Seq(Byte)
    PROVE  /\ Len(q) \in Nat /\ First(q) \in Seq(Byte) /\ Len(First(q)) \in 0 .. Len(q)
           /\ Len(First(q)) <= Chunk /\ (First(q) = <<>> <=> q = <<>>)
           /\ \A i \in 1 .. Len(First(q)) : First(q)[i] = q[i]
           /\ SubSeq(q, Len(First(q)) + 1, Len(q)) \in Seq(Byte)
           /\ Len(SubSeq(q, Len(First(q)) + 1, Len(q))) = Len(q) - Len(First(q))
           /\ \A i \in 1 .. Len(q) - Len(First(q)) :
                 SubSeq(q, Len(First(q)) + 1, Len(q))[i] = q[Len(First(q)) + i]
<1> DEFINE n == IF Len(q) < Chunk THEN Len(q) ELSE Chunk
<1>1. Len(q) \in Nat /\ n \in 0 .. Len(q) /\ n <= Chunk /\ (n = 0 <=> Len(q) = 0)
  BY LenProperties, NetUartAssumption
<1>2. First(q) = SubSeq(q, 1, n)
  BY DEF First
<1> HIDE DEF n
<1>3. First(q) \in Seq(Byte) /\ Len(First(q)) = n
      /\ (\A i \in 1 .. n : First(q)[i] = q[i])
      /\ SubSeq(q, n + 1, Len(q)) \in Seq(Byte) /\ Len(SubSeq(q, n + 1, Len(q))) = Len(q) - n
      /\ \A i \in 1 .. Len(q) - n : SubSeq(q, n + 1, Len(q))[i] = q[n + i]
  BY <1>1, <1>2, Cut
<1>4. (q = <<>> <=> Len(q) = 0) /\ (First(q) = <<>> <=> Len(First(q)) = 0)
  BY <1>3, EmptySeq
<1> QED BY <1>1, <1>3, <1>4

LEMMA InitTypes == Init => Types
<1> SUFFICES ASSUME Init PROVE Types OBVIOUS
<1> USE DEF Init, LLInit, NuInit
<1>1. <<>> \in Seq(Byte) /\ Len(<<>>) = 0
  BY EmptySeq
<1>2. Unconnected \in Conns
  BY <1>1 DEF Unconnected, Conns
<1>3. habit \in [Clients -> {"patient", "hasty", "killed"}] /\ fixed \in BOOLEAN /\ unasked \in Nat
  BY BridgeAssumption
<1>4. 0 \in 0 .. Commands /\ 0 \in 0 .. unasked
  BY <1>3, BridgeAssumption
<1>5. conn \in [Clients -> Conns] /\ wrote \in [Clients -> 0 .. Commands]
      /\ taken \in [Clients -> Seq(Byte)] /\ tool \in [Clients -> {"idle", "runs", "closing", "left"}]
      /\ accepted_at \in [Clients -> Nat] /\ served_from \in [Clients -> Nat]
  BY <1>1, <1>2, <1>4
<1>6. tty \in [up : BOOLEAN, in : Seq(Byte), out : Seq(Byte)] /\ m_buf \in Seq(Byte)
      /\ heard \in Seq(Byte) /\ said \in Seq(Byte) /\ answered \in 0 .. Len(heard)
  BY <1>1
<1>7. told \in 0 .. unasked
  BY <1>4
<1> QED BY <1>3, <1>5, <1>6, <1>7 DEF Types

\* What a step of the device leaves in its variables.
LEMMA DeviceTypes ==
    ASSUME Types, Device
    PROVE  /\ tty' \in [up : BOOLEAN, in : Seq(Byte), out : Seq(Byte)]
           /\ heard' \in Seq(Byte) /\ said' \in Seq(Byte) /\ answered' \in 0 .. Len(heard')
           /\ told' \in 0 .. unasked
<1> USE DEF Types
<1>1. Len(heard) \in Nat /\ <<>> \in Seq(Byte)
  BY LenProperties, EmptySeq
<1>2. CASE Hear
  <2>1. Head(tty.out) \in Byte /\ Tail(tty.out) \in Seq(Byte)
    BY <1>2, HeadTailProperties DEF Hear
  <2>2. heard' \in Seq(Byte) /\ Len(heard') = Len(heard) + 1
    BY <1>2, <2>1, AppendProperties DEF Hear
  <2>3. tty' \in [up : BOOLEAN, in : Seq(Byte), out : Seq(Byte)]
    BY <1>2, <2>1 DEF Hear
  <2>4. said' = said /\ answered' = answered /\ told' = told
    BY <1>2 DEF Hear
  <2> QED BY <1>1, <2>2, <2>3, <2>4
<1>3. ASSUME NEW b \in Byte, Say(b)
      PROVE  tty' \in [up : BOOLEAN, in : Seq(Byte), out : Seq(Byte)] /\ said' \in Seq(Byte)
  BY <1>3, AppendProperties DEF Say
<1>4. CASE Answer
  <2>1. heard[answered + 1] \in Byte
    BY <1>1, <1>4, ElementOfSeq DEF Answer
  <2> QED BY <1>1, <1>3, <1>4, <2>1 DEF Answer
<1>5. CASE Tell
  <2>1. [to |-> 0, n |-> told + 1] \in Byte
    BY <1>5, BridgeAssumption DEF Tell, Byte
  <2> QED BY <1>1, <1>3, <1>5, <2>1 DEF Tell
<1>6. CASE Unplug
  BY <1>1, <1>6 DEF Unplug
<1> QED BY <1>2, <1>4, <1>5, <1>6 DEF Device
-----------------------------------------------------------------------------
(* What a step of netuart comes to, one of the following.                     *)

Rests == UNCHANGED <<con, confd, m_connected>>

Exits == /\ pc \in {"start", "tty", "write"} /\ ~tty.up /\ pc' = "exited"
         /\ conn' = [c \in Clients |-> IF conn[c].server \in {"waiting", "accepted"}
                                       THEN Closed(conn[c]) ELSE conn[c]]
         /\ Rests /\ UNCHANGED <<revents, m_buf, tty>>
Opens == /\ pc = "start" /\ pc' = "accept" /\ Rests
         /\ UNCHANGED <<conn, revents, m_buf, tty>>
Accepts(c) == /\ pc = "accept" /\ conn[c].server = "waiting" /\ con' = c /\ m_connected' = TRUE
              /\ conn' = [conn EXCEPT ![c].server = "accepted"]
              /\ confd' = 0 /\ pc' = "poll" /\ UNCHANGED <<revents, m_buf, tty>>
Idles == /\ pc = "accept" /\ con' = 0 /\ confd' = 0 /\ pc' = "poll"
         /\ UNCHANGED <<conn, m_connected, revents, m_buf, tty>>
Polls == /\ pc = "poll" /\ pc' = "tty" /\ Rests /\ UNCHANGED <<conn, m_buf, tty>>
         /\ revents' \in [tty : BOOLEAN, skt : BOOLEAN]
         /\ revents'.tty <=> tty.in # <<>> \/ ~tty.up
         /\ revents'.skt => confd # 0 /\ Readable(confd)
Passes == /\ pc = "tty" /\ confd # 0 /\ pc' = "skt" /\ Rests
          /\ UNCHANGED <<conn, revents, m_buf, tty>>
Serves == /\ pc = "tty" /\ ~revents.tty /\ confd = 0
          /\ IF m_connected THEN pc' = "poll" /\ confd' = con ELSE pc' = "accept" /\ confd' = 0
          /\ UNCHANGED <<con, m_connected, conn, revents, m_buf, tty>>
Takes == /\ pc = "tty" /\ revents.tty /\ tty.in # <<>>
         /\ tty' = [tty EXCEPT !.in = SubSeq(@, Len(First(@)) + 1, Len(@))]
         /\ IF confd = 0 THEN pc' = "poll" /\ m_buf' = m_buf
            ELSE pc' = "send" /\ m_buf' = First(tty.in)
         /\ Rests /\ UNCHANGED <<conn, revents>>
Gives == /\ pc = "send" /\ ~conn[confd].reset /\ pc' = "skt" /\ m_buf' = <<>>
         /\ Len(conn[confd].down) + Len(m_buf) <= SockBuf
         /\ conn' = [conn EXCEPT ![confd] = Sent(@, m_buf)]
         /\ Rests /\ UNCHANGED <<revents, tty>>
HangsUp == /\ \/ pc = "send" /\ conn[confd].reset /\ m_buf' = <<>>
              \/ pc = "skt" /\ revents.skt /\ conn[confd].up = <<>> /\ m_buf' = m_buf
           /\ conn' = [conn EXCEPT ![confd] = Closed(@)]
           /\ m_connected' = FALSE /\ pc' = "accept" /\ UNCHANGED <<con, confd, revents, tty>>
Listens == /\ pc = "skt" /\ pc' = "write" /\ m_buf' = First(conn[confd].up)
           /\ conn' = [conn EXCEPT ![confd].up = SubSeq(@, Len(First(@)) + 1, Len(@))]
           /\ Rests /\ UNCHANGED <<revents, tty>>
Turns == /\ pc = "skt" /\ pc' = "poll" /\ Rests /\ UNCHANGED <<revents, m_buf, tty>>
         /\ \E e \in BOOLEAN : conn' = [conn EXCEPT ![confd].err = e]
WritesOut(nw) == /\ pc = "write" /\ tty.up /\ Len(tty.out) + nw <= TtyBuf
                 /\ tty' = [tty EXCEPT !.out = @ \o SubSeq(m_buf, 1, nw)]
                 /\ m_buf' = SubSeq(m_buf, nw + 1, Len(m_buf))
                 /\ pc' = IF nw = Len(m_buf) THEN "poll" ELSE "write"
                 /\ Rests /\ UNCHANGED <<conn, revents>>

Outcome ==
    \/ Exits \/ Opens \/ (\E c \in Clients : Accepts(c)) \/ Idles \/ Polls \/ Passes \/ Serves
    \/ Takes \/ Gives \/ HangsUp \/ Listens \/ Turns
    \/ (\E nw \in 1 .. Len(m_buf) : WritesOut(nw))

LEMMA NetUartStep ==
    ASSUME Types, OneServed, Stays, NuStep
    PROVE  Outcome
<1> USE DEF Outcome, Rests
<1>1. ASSUME Return(TRUE, m_connected), pc \in {"tty", "skt", "write"}
      PROVE  m_connected' = m_connected /\ confd' = confd /\ pc' = "poll"
  BY <1>1 DEF Return, Types, OneServed
<1>2. ASSUME HangUp, pc \in {"send", "skt"}
      PROVE  /\ conn' = [conn EXCEPT ![confd] = Closed(@)]
             /\ m_connected' = FALSE /\ pc' = "accept" /\ confd' = confd
  BY <1>2 DEF HangUp, Return, OneServed
<1>3. CASE Start
  BY <1>3 DEF Start, Exit, Exits, Opens
<1>4. CASE Accept
  BY <1>4 DEF Accept, Accepts, Idles, Waiting
<1>5. CASE Poll
  <2>1. revents' \in [tty : BOOLEAN, skt : BOOLEAN] /\ revents'.tty = TtyEvent
        /\ (revents'.skt => confd # 0 /\ Readable(confd))
    BY <1>5 DEF Poll, TtyEvent, Readable, Types, Conns
  <2> QED BY <1>5, <2>1 DEF Poll, Polls, TtyEvent
<1>6. CASE ReadTty
  <2>1. CASE ~revents.tty /\ confd # 0
    BY <1>6, <2>1 DEF ReadTty, Passes
  <2>2. CASE ~revents.tty /\ confd = 0
    BY <1>6, <2>2 DEF ReadTty, Serves, Return, Types
  <2>3. First(tty.in) = <<>> <=> tty.in = <<>>
    BY FirstTypes DEF Types
  <2>4. CASE revents.tty /\ tty.in = <<>>
    BY <1>6, <2>3, <2>4 DEF ReadTty, Exits, Exit, Stays
  <2>5. CASE revents.tty /\ tty.in # <<>>
    BY <1>1, <1>6, <2>3, <2>5 DEF ReadTty, Takes
  <2> QED BY <2>1, <2>2, <2>4, <2>5
<1>7. CASE SendClient
  BY <1>2, <1>7 DEF SendClient, HangsUp, Gives
<1>8. CASE ReadClient
  <2>1. confd \in Clients /\ conn[confd].up \in Seq(Byte)
    BY <1>8 DEF ReadClient, Types, OneServed, Conns
  <2>2. First(conn[confd].up) = <<>> <=> conn[confd].up = <<>>
    BY <2>1, FirstTypes
  <2>3. CASE revents.skt /\ conn[confd].up # <<>>
    BY <1>8, <2>2, <2>3 DEF ReadClient, FromClient, Listens
  <2>4. CASE revents.skt /\ conn[confd].up = <<>> /\ ~conn[confd].err
    BY <1>2, <1>8, <2>2, <2>4 DEF ReadClient, FromClient, HangsUp
  <2>5. CASE ~revents.skt \/ (conn[confd].up = <<>> /\ conn[confd].err)
    <3>1. conn[confd].err \in BOOLEAN
      BY <2>1 DEF Types, Conns
    <3> QED BY <1>1, <1>8, <2>2, <2>5, <3>1 DEF ReadClient, FromClient, Turns
  <2> QED BY <2>3, <2>4, <2>5
<1>9. CASE WriteTty
  BY <1>1, <1>9 DEF WriteTty, Exit, Exits, WritesOut, Written
<1> QED BY <1>3, <1>4, <1>5, <1>6, <1>7, <1>8, <1>9 DEF NuStep

LEMMA OutcomeTypes ==
    ASSUME Types, OneServed, Stays, Outcome
    PROVE  /\ pc' \in {"start", "accept", "poll", "tty", "send", "skt", "write", "exited"}
           /\ con' \in Clients \cup {0} /\ confd' \in {0, con'} /\ m_connected' \in BOOLEAN
           /\ revents' \in [tty : BOOLEAN, skt : BOOLEAN]
           /\ tty' \in [up : BOOLEAN, in : Seq(Byte), out : Seq(Byte)]
           /\ m_buf' \in Seq(Byte) /\ conn' \in [Clients -> Conns]
<1> USE DEF Types, Rests
<1>1. <<>> \in Seq(Byte) /\ First(tty.in) \in Seq(Byte)
      /\ SubSeq(tty.in, Len(First(tty.in)) + 1, Len(tty.in)) \in Seq(Byte)
  BY EmptySeq, FirstTypes
<1>2. ASSUME pc \in {"send", "skt", "write"}
      PROVE  confd \in Clients /\ conn[confd] \in Conns
  BY <1>2 DEF OneServed
<1>3. CASE Exits
  <2>1. ASSUME NEW c \in Clients PROVE Closed(conn[c]) \in Conns
    BY <1>1, ConnTypes
  <2> QED BY <1>3, <2>1 DEF Exits
<1>4. CASE Opens \/ Idles \/ Polls \/ Passes
  BY <1>4 DEF Opens, Idles, Polls, Passes
<1>5. CASE \E c \in Clients : Accepts(c)
  <2>1. PICK c \in Clients : Accepts(c)
    BY <1>5
  <2>2. [conn[c] EXCEPT !.server = "accepted"] \in Conns
    BY <1>1, ConnTypes
  <2> QED BY <2>1, <2>2 DEF Accepts
<1>6. CASE Serves
  BY <1>6 DEF Serves
<1>7. CASE Takes
  BY <1>1, <1>7 DEF Takes
<1>8. CASE Gives
  <2>1. Sent(conn[confd], m_buf) \in Conns
    BY <1>2, <1>8, ConnTypes DEF Gives
  <2> QED BY <1>1, <1>8, <2>1 DEF Gives
<1>9. CASE HangsUp
  <2>1. Closed(conn[confd]) \in Conns
    BY <1>1, <1>2, <1>9, ConnTypes DEF HangsUp
  <2> QED BY <1>1, <1>9, <2>1 DEF HangsUp
<1>10. CASE Listens
  <2>1. conn[confd].up \in Seq(Byte)
    BY <1>2, <1>10 DEF Listens, Conns
  <2>2. First(conn[confd].up) \in Seq(Byte)
        /\ SubSeq(conn[confd].up, Len(First(conn[confd].up)) + 1, Len(conn[confd].up)) \in Seq(Byte)
    BY <2>1, FirstTypes
  <2>3. [conn[confd] EXCEPT !.up =
           SubSeq(conn[confd].up, Len(First(conn[confd].up)) + 1, Len(conn[confd].up))] \in Conns
    BY <1>2, <1>10, <2>2, ConnTypes DEF Listens
  <2> QED BY <1>10, <2>2, <2>3 DEF Listens
<1>11. CASE Turns
  <2>1. PICK e \in BOOLEAN : conn' = [conn EXCEPT ![confd].err = e]
    BY <1>11 DEF Turns
  <2>2. [conn[confd] EXCEPT !.err = e] \in Conns
    BY <1>1, <1>2, <1>11, ConnTypes DEF Turns
  <2> QED BY <1>11, <2>1, <2>2 DEF Turns
<1>12. ASSUME NEW nw \in 1 .. Len(m_buf), WritesOut(nw)
       PROVE  /\ tty' \in [up : BOOLEAN, in : Seq(Byte), out : Seq(Byte)]
              /\ m_buf' \in Seq(Byte)
  <2>1. nw \in 0 .. Len(m_buf)
    BY LenProperties
  <2>2. SubSeq(m_buf, 1, nw) \in Seq(Byte) /\ SubSeq(m_buf, nw + 1, Len(m_buf)) \in Seq(Byte)
    BY <2>1, Cut
  <2>3. tty.out \o SubSeq(m_buf, 1, nw) \in Seq(Byte)
    BY <2>2, ConcatProperties
  <2> QED BY <1>12, <2>2, <2>3 DEF WritesOut
<1>13. CASE \E nw \in 1 .. Len(m_buf) : WritesOut(nw)
  BY <1>12, <1>13 DEF WritesOut
<1> QED BY <1>3, <1>4, <1>5, <1>6, <1>7, <1>8, <1>9, <1>10, <1>11, <1>13 DEF Outcome

\* A step of a tool changes its own connection and its own state.
LEMMA ToolTypes ==
    ASSUME Types, NEW c \in Clients, Tool(c)
    PROVE  /\ conn' \in [Clients -> Conns]
           /\ tool' \in [Clients -> {"idle", "runs", "closing", "left"}]
           /\ wrote' \in [Clients -> 0 .. Commands] /\ taken' \in [Clients -> Seq(Byte)]
           /\ \A d \in Clients \ {c} : /\ conn'[d] = conn[d] /\ tool'[d] = tool[d]
                                       /\ wrote'[d] = wrote[d] /\ taken'[d] = taken[d]
<1> USE DEF Types
<1>1. conn[c] \in Conns /\ <<>> \in Seq(Byte) /\ conn[c].down \in Seq(Byte)
      /\ conn[c].up \in Seq(Byte) /\ taken[c] \in Seq(Byte)
  BY EmptySeq DEF Conns
<1>2. CASE Connect(c, pc # "exited")
  <2> DEFINE k == [conn[c] EXCEPT !.server = "waiting"]
  <2>1. k \in Conns
    BY <1>1, ConnTypes
  <2>2. conn' = conn \/ conn' = [conn EXCEPT ![c] = k]
    BY <1>2 DEF Connect
  <2> HIDE DEF k
  <2>3. tool' = [tool EXCEPT ![c] = "runs"] \/ tool' = [tool EXCEPT ![c] = "left"]
    BY <1>2 DEF Connect
  <2>4. wrote' = wrote /\ taken' = taken
    BY <1>2 DEF Connect
  <2>5. conn' \in [Clients -> Conns] /\ \A d \in Clients \ {c} : conn'[d] = conn[d]
    <3>1. CASE conn' = conn
      BY <3>1
    <3>2. CASE conn' = [conn EXCEPT ![c] = k]
      BY <2>1, <3>2
    <3> QED BY <2>2, <3>1, <3>2
  <2> QED BY <2>3, <2>4, <2>5
<1>3. CASE Write(c)
  <2>1. wrote[c] + 1 \in 1 .. Commands
    <3>1. wrote[c] \in 0 .. Commands /\ wrote[c] < Commands
      BY <1>3 DEF Write
    <3> QED BY <3>1, BridgeAssumption
  <2>2. wrote[c] + 1 \in 1 .. Commands + unasked
    BY <2>1, BridgeAssumption
  <2>3. [to |-> c, n |-> wrote[c] + 1] \in Byte
    BY <2>2 DEF Byte
  <2>4. Append(conn[c].up, [to |-> c, n |-> wrote[c] + 1]) \in Seq(Byte)
    BY <1>1, <2>3, AppendProperties
  <2> DEFINE k == [conn[c] EXCEPT !.up = Append(conn[c].up, [to |-> c, n |-> wrote[c] + 1])]
  <2>5. k \in Conns
    BY <1>1, <2>4, ConnTypes
  <2>6. conn' = conn \/ conn' = [conn EXCEPT ![c] = k]
    BY <1>3 DEF Write
  <2> HIDE DEF k
  <2>7. wrote' = wrote \/ wrote' = [wrote EXCEPT ![c] = wrote[c] + 1]
    BY <1>3 DEF Write
  <2>8. wrote' \in [Clients -> 0 .. Commands]
        /\ \A d \in Clients \ {c} : wrote'[d] = wrote[d]
    BY <2>1, <2>7
  <2>9. tool' \in {tool, [tool EXCEPT ![c] = "closing"]} /\ taken' = taken
    BY <1>3 DEF Write
  <2>10. conn' \in [Clients -> Conns] /\ \A d \in Clients \ {c} : conn'[d] = conn[d]
    <3>1. CASE conn' = conn
      BY <3>1
    <3>2. CASE conn' = [conn EXCEPT ![c] = k]
      BY <2>5, <3>2
    <3> QED BY <2>6, <3>1, <3>2
  <2> QED BY <2>8, <2>9, <2>10
<1>4. CASE Read(c)
  <2>1. CASE Answers(c) /\ taken' = [taken EXCEPT ![c] = Append(@, Head(conn[c].down))]
                       /\ conn' = [conn EXCEPT ![c].down = Tail(@)]
    <3>1. Head(conn[c].down) \in Byte /\ Tail(conn[c].down) \in Seq(Byte)
      BY <1>1, <2>1, HeadTailProperties DEF Answers
    <3>2. Append(taken[c], Head(conn[c].down)) \in Seq(Byte)
      BY <1>1, <3>1, AppendProperties
    <3>3. [conn[c] EXCEPT !.down = Tail(conn[c].down)] \in Conns
      BY <1>1, <3>1, ConnTypes
    <3> QED BY <1>4, <2>1, <3>2, <3>3 DEF Read
  <2>2. CASE UNCHANGED <<conn, taken>>
    BY <1>4, <2>2 DEF Read
  <2> QED BY <1>4, <2>1, <2>2 DEF Read
<1>5. CASE Shutdown(c)
  BY <1>1, <1>5 DEF Shutdown, Conns
<1>6. CASE Drain(c)
  <2>1. CASE Answers(c)
    <3>1. taken[c] \o conn[c].down \in Seq(Byte)
      BY <1>1, ConcatProperties
    <3>2. [conn[c] EXCEPT !.down = <<>>] \in Conns
      BY <1>1, ConnTypes
    <3>3. /\ taken' = [taken EXCEPT ![c] = taken[c] \o conn[c].down]
          /\ conn' = [conn EXCEPT ![c] = [conn[c] EXCEPT !.down = <<>>]]
          /\ tool' = tool /\ wrote' = wrote
      BY <1>6, <2>1 DEF Drain
    <3> QED BY <3>1, <3>2, <3>3
  <2>2. CASE ~Answers(c)
    <3>1. Gone(conn[c]) \in Conns
      BY <1>1, ConnTypes
    <3>2. /\ conn' = [conn EXCEPT ![c] = Gone(conn[c])]
          /\ tool' = [tool EXCEPT ![c] = "left"] /\ wrote' = wrote /\ taken' = taken
      BY <1>6, <2>2 DEF Drain
    <3> QED BY <3>1, <3>2
  <2> QED BY <2>1, <2>2
<1>7. CASE Killed(c)
  <2>1. Gone(conn[c]) \in Conns
    BY <1>1, ConnTypes
  <2> QED BY <1>7, <2>1 DEF Killed
<1> QED BY <1>2, <1>3, <1>4, <1>5, <1>6, <1>7 DEF Tool, ToolStep

\* What it does to them: it connects, writes, reads, and leaves.
LEMMA ToolEffect ==
    ASSUME Types, OneServed, NEW c \in Clients, Tool(c)
    PROVE  /\ tool'[c] # "idle"
           /\ \/ conn'[c].server = conn[c].server
              \/ conn[c].server = "none" /\ conn'[c].server = "waiting"
           /\ \/ conn'[c].up = conn[c].up /\ wrote'[c] = wrote[c]
              \/ /\ conn[c].server # "closed" /\ wrote'[c] = wrote[c] + 1
                 /\ conn'[c].up = Append(conn[c].up, [to |-> c, n |-> wrote[c] + 1])
           /\ \/ Received(c)' = Received(c) /\ conn'[c].gone = conn[c].gone
              \/ /\ conn'[c].gone /\ conn'[c].down = <<>> /\ taken'[c] = taken[c]
                 /\ conn[c].down = <<>> \/ habit[c] = "killed"
           /\ \/ conn'[c].gone = conn[c].gone /\ conn'[c].reset = conn[c].reset
              \/ conn'[c].gone /\ habit[c] = "killed"
              \/ conn'[c].gone /\ conn[c].server = "closed" /\ conn'[c].reset = conn[c].reset
<1> USE DEF Types
<1>1. conn[c] \in Conns /\ conn[c].down \in Seq(Byte) /\ taken[c] \in Seq(Byte)
      /\ wrote[c] \in Nat /\ <<>> \in Seq(Byte)
  BY EmptySeq, BridgeAssumption DEF Conns
<1>2. CASE Connect(c, pc # "exited")
  <2>1. CASE pc # "exited"
    <3>1. conn' = [conn EXCEPT ![c] = [conn[c] EXCEPT !.server = "waiting"]]
      BY <1>2, <2>1 DEF Connect
    <3>2. conn'[c] = [conn[c] EXCEPT !.server = "waiting"]
      BY <3>1
    <3> QED BY <1>1, <1>2, <2>1, <3>2 DEF Connect, Conns, Received, OneServed
  <2>2. CASE pc = "exited"
    BY <1>2, <2>2 DEF Connect, Received
  <2> QED BY <2>1, <2>2
<1>3. CASE Write(c)
  <2>1. CASE EndOfFile(c)
    BY <1>3, <2>1 DEF Write, Received
  <2>2. CASE ~EndOfFile(c)
    <3> DEFINE b == Append(conn[c].up, [to |-> c, n |-> wrote[c] + 1])
    <3>1. conn' = [conn EXCEPT ![c] = [conn[c] EXCEPT !.up = b]]
      BY <1>3, <2>2 DEF Write
    <3> HIDE DEF b
    <3>2. conn'[c] = [conn[c] EXCEPT !.up = b]
      BY <3>1
    <3>3. conn'[c].up = b /\ conn'[c].server = conn[c].server /\ conn'[c].down = conn[c].down
          /\ conn'[c].gone = conn[c].gone /\ conn'[c].reset = conn[c].reset
      BY <1>1, <3>2 DEF Conns
    <3>4. wrote'[c] = wrote[c] + 1 /\ taken' = taken /\ tool' = tool /\ tool[c] # "idle"
          /\ conn[c].server # "closed"
      BY <1>3, <2>2 DEF Write, EndOfFile
    <3> QED BY <3>3, <3>4 DEF Received, b
  <2> QED BY <2>1, <2>2
<1>4. CASE Read(c)
  <2>1. CASE Answers(c) /\ taken' = [taken EXCEPT ![c] = Append(@, Head(conn[c].down))]
                       /\ conn' = [conn EXCEPT ![c].down = Tail(@)]
    <3>1. conn'[c] = [conn[c] EXCEPT !.down = Tail(conn[c].down)]
          /\ taken'[c] = Append(taken[c], Head(conn[c].down))
      BY <2>1
    <3>2. taken'[c] \o conn'[c].down = taken[c] \o conn[c].down
      <4>1. conn'[c].down = Tail(conn[c].down)
        BY <1>1, <3>1 DEF Conns
      <4>2. Append(taken[c], Head(conn[c].down)) \o Tail(conn[c].down) = taken[c] \o conn[c].down
        <5> DEFINE t == taken[c]
        <5> DEFINE d == conn[c].down
        <5>1. t \in Seq(Byte) /\ d \in Seq(Byte) /\ d # <<>>
          BY <1>1, <2>1 DEF Answers
        <5> HIDE DEF t, d
        <5>2. Append(t, Head(d)) \o Tail(d) = t \o d
          BY <5>1, MoveHead
        <5> QED BY <5>2 DEF t, d
      <4> QED BY <3>1, <4>1, <4>2
    <3>3. conn'[c].up = conn[c].up /\ conn'[c].server = conn[c].server
          /\ conn'[c].gone = conn[c].gone /\ conn'[c].reset = conn[c].reset
      BY <1>1, <3>1 DEF Conns
    <3>4. tool'[c] # "idle" /\ wrote' = wrote
      BY <1>4 DEF Read
    <3> QED BY <3>2, <3>3, <3>4 DEF Received
  <2>2. CASE UNCHANGED <<conn, taken>>
    BY <1>4, <2>2 DEF Read, Received
  <2> QED BY <1>4, <2>1, <2>2 DEF Read
<1>5. CASE Shutdown(c)
  <2>1. conn'[c] = [conn[c] EXCEPT !.upfin = TRUE]
    BY <1>5 DEF Shutdown
  <2>2. conn'[c].up = conn[c].up /\ conn'[c].server = conn[c].server /\ conn'[c].down = conn[c].down
        /\ conn'[c].gone = conn[c].gone /\ conn'[c].reset = conn[c].reset
    BY <1>1, <2>1 DEF Conns
  <2>3. tool'[c] = "closing" /\ wrote' = wrote /\ taken' = taken
    BY <1>5 DEF Shutdown
  <2> QED BY <2>2, <2>3 DEF Received
<1>6. ASSUME conn'[c] = Gone(conn[c])
      PROVE  conn'[c].up = conn[c].up /\ conn'[c].server = conn[c].server
             /\ conn'[c].down = <<>> /\ conn'[c].gone
             /\ (conn[c].down = <<>> => conn'[c].reset = conn[c].reset)
  BY <1>1, <1>6 DEF Gone, Conns
<1>7. CASE Drain(c)
  <2>1. CASE Answers(c)
    <3>1. conn'[c] = [conn[c] EXCEPT !.down = <<>>] /\ taken'[c] = taken[c] \o conn[c].down
          /\ wrote' = wrote /\ tool'[c] = "closing"
      BY <1>7, <2>1 DEF Drain
    <3>2. taken'[c] \o conn'[c].down = taken[c] \o conn[c].down
      <4>1. taken[c] \o conn[c].down \in Seq(Byte)
        BY <1>1, ConcatProperties
      <4>2. conn'[c].down = <<>>
        BY <1>1, <3>1 DEF Conns
      <4>3. (taken[c] \o conn[c].down) \o <<>> = taken[c] \o conn[c].down
        BY <4>1, ConcatEmptySeq
      <4> QED BY <3>1, <4>2, <4>3
    <3>3. conn'[c].up = conn[c].up /\ conn'[c].server = conn[c].server
          /\ conn'[c].gone = conn[c].gone /\ conn'[c].reset = conn[c].reset
      BY <1>1, <3>1 DEF Conns
    <3> QED BY <3>1, <3>2, <3>3 DEF Received
  <2>2. CASE ~Answers(c)
    <3>1. conn'[c] = Gone(conn[c]) /\ wrote' = wrote /\ taken' = taken /\ tool'[c] = "left"
          /\ conn[c].down = <<>> /\ conn[c].server = "closed"
      BY <1>7, <2>2 DEF Drain, Answers, EndOfFile
    <3> QED BY <1>6, <3>1
  <2> QED BY <2>1, <2>2
<1>8. CASE Killed(c)
  <2>1. conn'[c] = Gone(conn[c]) /\ wrote' = wrote /\ taken' = taken /\ tool'[c] = "left"
        /\ habit[c] = "killed"
    BY <1>8 DEF Killed
  <2> QED BY <1>6, <2>1
<1> QED BY <1>2, <1>3, <1>4, <1>5, <1>7, <1>8 DEF Tool, ToolStep

-----------------------------------------------------------------------------
(* Who is served.                                                             *)

LEMMA StepTypes ==
    ASSUME IInv, [Next]_vars
    PROVE  Types'
<1> USE DEF IInv, Types
<1>1. UNCHANGED <<unasked, habit, fixed>> /\ Byte' = Byte /\ Conns' = Conns
  BY ByteStays DEF Conns
<1>2. CASE Device
  <2>1. UNCHANGED <<conn, llvars, pc, con, confd, m_connected, revents, m_buf, history>>
    BY <1>2 DEF Device
  <2> QED BY <1>1, <1>2, <2>1, DeviceTypes DEF llvars, history
<1>3. CASE NetUart
  <2>1. Outcome
    BY <1>3, NetUartStep DEF NetUart
  <2>2. UNCHANGED <<tool, wrote, taken, heard, said, answered, told>>
    BY <1>3 DEF NetUart, llvars
  <2>3. accepted_at' \in [Clients -> Nat] /\ served_from' \in [Clients -> Nat]
    <3>1. Len(said) \in Nat /\ Len(tty.in) \in Nat /\ Len(said) - Len(tty.in) \in Nat
      BY LenProperties DEF Waits
    <3>2. accepted_at' \in [Clients -> Nat]
      BY <1>3, <3>1 DEF NetUart
    <3>3. served_from' \in [Clients -> Nat]
      BY <1>3, <3>1 DEF NetUart
    <3> QED BY <3>2, <3>3
  <2> QED BY <1>1, <2>1, <2>2, <2>3, OutcomeTypes
<1>4. CASE \E c \in Clients : Tool(c)
  <2>1. UNCHANGED <<nuvars, heard, said, answered, told, history>>
    BY <1>4 DEF Tool
  <2>2. /\ conn' \in [Clients -> Conns]
        /\ tool' \in [Clients -> {"idle", "runs", "closing", "left"}]
        /\ wrote' \in [Clients -> 0 .. Commands] /\ taken' \in [Clients -> Seq(Byte)]
    BY <1>4, ToolTypes
  <2> QED BY <1>1, <2>1, <2>2 DEF nuvars, history
<1>5. CASE UNCHANGED vars
  BY <1>1, <1>5 DEF vars, llvars, nuvars, history
<1> QED BY <1>2, <1>3, <1>4, <1>5 DEF Next

LEMMA StepOneServed ==
    ASSUME IInv, [Next]_vars
    PROVE  OneServed'
<1>0. ASSUME NEW c \in Clients, Tool(c)
      PROVE  /\ tool'[c] # "idle"
             /\ conn'[c].server = conn[c].server
                  \/ (conn[c].server = "none" /\ conn'[c].server = "waiting")
             /\ \/ conn'[c].gone = conn[c].gone /\ conn'[c].reset = conn[c].reset
                \/ conn'[c].gone /\ habit[c] = "killed"
                \/ conn'[c].gone /\ conn[c].server = "closed" /\ conn'[c].reset = conn[c].reset
             /\ \A d \in Clients \ {c} : conn'[d] = conn[d] /\ tool'[d] = tool[d]
  BY <1>0, ToolEffect, ToolTypes DEF IInv
<1> USE DEF IInv, Types
<1>1. CASE Device \/ UNCHANGED vars
  <2>1. UNCHANGED <<conn, tool, pc, con, confd, m_connected>>
    BY <1>1 DEF Device, vars, llvars, nuvars
  <2>2. OneServed
    OBVIOUS
  <2> HIDE DEF IInv, Types
  <2> QED BY <2>1, <2>2 DEF OneServed
<1>2. CASE NetUart
  <2>1. Outcome /\ UNCHANGED tool
    BY <1>2, NetUartStep DEF NetUart, llvars
  <2> USE DEF OneServed, Rests
  <2>2. ASSUME Exits, NEW c \in Clients
        PROVE  conn'[c].server \in {"none", "closed"}
               /\ (conn[c].server = "none" => conn'[c].server = "none")
    <3>1. Closed(conn[c]).server = "closed"
      BY DEF Closed, Conns
    <3>2. conn'[c] = IF conn[c].server \in {"waiting", "accepted"} THEN Closed(conn[c]) ELSE conn[c]
      BY <2>2 DEF Exits
    <3>3. conn[c].server \in {"none", "waiting", "accepted", "closed"}
      BY DEF Conns
    <3> QED BY <3>1, <3>2, <3>3
  <2>3. CASE Exits
    <3>1. pc' = "exited" /\ tool' = tool
      BY <2>1, <2>3 DEF Exits
    <3>2. \A c \in Clients : conn'[c].server # "accepted"
                              /\ (tool'[c] = "idle" => conn'[c].server = "none")
      BY <2>2, <2>3, <3>1
    <3> QED BY <3>1, <3>2
  <2>4. CASE Opens \/ Idles \/ Polls \/ Passes \/ Serves \/ Takes
    <3>1. CASE Opens
      BY <2>1, <3>1 DEF Opens
    <3>2. CASE Idles
      BY <2>1, <3>2 DEF Idles
    <3>3. CASE Polls \/ Passes
      BY <2>1, <3>3 DEF Polls, Passes
    <3>4. CASE Serves
      BY <2>1, <3>4 DEF Serves
    <3>5. CASE Takes
      BY <2>1, <3>5 DEF Takes
    <3> QED BY <2>4, <3>1, <3>2, <3>3, <3>4, <3>5
  <2>5. ASSUME NEW c \in Clients, Accepts(c) PROVE OneServed'
    <3>1. conn'[c].server = "accepted" /\ conn[c].server = "waiting" /\ c # 0
      BY <2>5, SocketAssumption DEF Accepts, Conns
    <3>2. \A d \in Clients \ {c} : conn'[d] = conn[d]
      BY <2>5 DEF Accepts
    <3> QED BY <2>1, <2>5, <3>1, <3>2 DEF Accepts
  <2>6. ASSUME pc \in {"send", "skt", "write"}
        PROVE  confd = con /\ con \in Clients /\ conn[con].server = "accepted" /\ m_connected
    BY <2>6
  <2>7. CASE Gives \/ Listens \/ Turns
    <3>1. \A d \in Clients \ {con} : conn'[d] = conn[d]
      <4>1. CASE Gives
        BY <2>6, <4>1 DEF Gives
      <4>2. CASE Listens
        BY <2>6, <4>2 DEF Listens
      <4>3. CASE Turns
        BY <2>6, <4>3 DEF Turns
      <4> QED BY <2>7, <4>1, <4>2, <4>3
    <3>2. conn'[con].server = conn[con].server
      <4>1. CASE Gives
        BY <2>6, <4>1 DEF Gives, Sent, Conns
      <4>2. CASE Listens
        BY <2>6, <4>2 DEF Listens, Conns
      <4>3. CASE Turns
        BY <2>6, <4>3 DEF Turns, Conns
      <4> QED BY <2>7, <4>1, <4>2, <4>3
    <3>3. UNCHANGED <<con, confd, m_connected, tool>> /\ pc' \in {"poll", "skt", "write"}
      BY <2>1, <2>7 DEF Gives, Listens, Turns
    <3> QED BY <2>6, <2>7, <3>1, <3>2, <3>3 DEF Gives, Listens, Turns
  <2>8. CASE HangsUp
    <3>1. conn'[con].server = "closed" /\ \A d \in Clients \ {con} : conn'[d] = conn[d]
      BY <2>6, <2>8 DEF HangsUp, Closed, Conns
    <3> QED BY <2>1, <2>6, <2>8, <3>1 DEF HangsUp
  <2>9. CASE \E nw \in 1 .. Len(m_buf) : WritesOut(nw)
    BY <2>1, <2>6, <2>9 DEF WritesOut
  <2> QED BY <2>1, <2>3, <2>4, <2>5, <2>7, <2>8, <2>9 DEF Outcome
<1>3. ASSUME NEW c \in Clients, Tool(c) PROVE OneServed'
  <2>1. UNCHANGED <<pc, con, confd, m_connected>>
    BY <1>3 DEF Tool, nuvars
  <2>2. /\ tool'[c] # "idle"
        /\ conn'[c].server = conn[c].server
             \/ (conn[c].server = "none" /\ conn'[c].server = "waiting")
        /\ \A d \in Clients \ {c} : conn'[d] = conn[d] /\ tool'[d] = tool[d]
    BY <1>0, <1>3
  <2> QED BY <2>1, <2>2 DEF OneServed
<1> QED BY <1>1, <1>2, <1>3 DEF Next

LEMMA StepStays ==
    ASSUME IInv, [Next]_vars
    PROVE  Stays'
<1> USE DEF IInv, Types
<1>1. UNCHANGED fixed
  BY ByteStays
<1>2. CASE Device
  <2>1. UNCHANGED <<pc, revents>>
    BY <1>2 DEF Device
  <2>2. ASSUME NEW b, Say(b)
        PROVE  tty'.up = tty.up /\ tty'.in = Append(tty.in, b)
    BY <2>2 DEF Say
  <2>3. tty.in \in Seq(Byte)
    OBVIOUS
  <2>4. CASE Answer \/ Tell
    <3>1. PICK b : Say(b)
      BY <2>4 DEF Answer, Tell
    <3>2. Append(tty.in, b) # <<>>
      BY <2>3, AppendSome
    <3> QED BY <1>1, <2>1, <2>2, <3>1, <3>2 DEF Stays
  <2>5. CASE Hear
    BY <1>1, <2>1, <2>5 DEF Hear, Stays
  <2>6. CASE Unplug
    BY <1>1, <2>1, <2>6 DEF Unplug, Stays
  <2> QED BY <1>2, <2>4, <2>5, <2>6 DEF Device
<1>3. CASE NetUart
  <2>1. Outcome
    BY <1>3, NetUartStep DEF NetUart
  <2>2. tty'.up = tty.up
    BY <2>1 DEF Outcome, Exits, Opens, Accepts, Idles, Polls, Passes, Serves, Takes, Gives,
                HangsUp, Listens, Turns, WritesOut
  <2>3. pc' = "exited" => ~tty.up
    BY <2>1, OutcomeTypes DEF Stays, Outcome, Exits, Opens, Accepts, Idles, Polls, Passes, Serves, Takes, Gives,
                HangsUp, Listens, Turns, WritesOut
  <2>4. pc' = "tty" => tty' = tty /\ (revents'.tty <=> tty.in # <<>> \/ ~tty.up)
    BY <2>1 DEF Outcome, Exits, Opens, Accepts, Idles, Polls, Passes, Serves, Takes, Gives,
                HangsUp, Listens, Turns, WritesOut
  <2> QED BY <1>1, <2>2, <2>3, <2>4 DEF Stays
<1>4. CASE UNCHANGED <<pc, revents, tty>>
  BY <1>1, <1>4 DEF Stays
<1>5. (\E c \in Clients : Tool(c)) \/ UNCHANGED vars => UNCHANGED <<pc, revents, tty>>
  BY DEF Tool, vars, nuvars
<1> QED BY <1>2, <1>3, <1>4, <1>5 DEF Next

LEMMA StepEnds ==
    ASSUME IInv, [Next]_vars
    PROVE  Ends'
<1>0. ASSUME NEW c \in Clients, Tool(c)
      PROVE  /\ tool'[c] # "idle"
             /\ conn'[c].server = conn[c].server
                  \/ (conn[c].server = "none" /\ conn'[c].server = "waiting")
             /\ \/ conn'[c].gone = conn[c].gone /\ conn'[c].reset = conn[c].reset
                \/ conn'[c].gone /\ habit[c] = "killed"
                \/ conn'[c].gone /\ conn[c].server = "closed" /\ conn'[c].reset = conn[c].reset
             /\ \A d \in Clients \ {c} : conn'[d] = conn[d] /\ tool'[d] = tool[d]
  BY <1>0, ToolEffect, ToolTypes DEF IInv
<1> USE DEF IInv, Types
<1>1. UNCHANGED habit
  BY ByteStays
<1>2. CASE Device \/ UNCHANGED vars
  BY <1>1, <1>2 DEF Device, vars, Ends
<1>3. CASE NetUart
  <2>1. Outcome
    BY <1>3, NetUartStep DEF NetUart
  <2>2. CASE conn' = conn
    BY <1>1, <2>2 DEF Ends
  <2>3. ASSUME NEW c \in Clients
        PROVE  /\ Closed(conn[c]).server = "closed"
               /\ Closed(conn[c]).gone = conn[c].gone /\ Closed(conn[c]).reset = conn[c].reset
    BY DEF Closed, Conns
  <2>4. CASE Exits
    <3>1. ASSUME NEW c \in Clients
          PROVE  conn'[c] = Closed(conn[c]) \/ conn'[c] = conn[c]
      BY <2>4 DEF Exits
    <3>2. ASSUME NEW c \in Clients
          PROVE  /\ conn'[c].gone = conn[c].gone /\ conn'[c].reset = conn[c].reset
                 /\ conn'[c].server # "closed" => conn[c].server # "closed"
      BY <2>3, <3>1
    <3> QED BY <1>1, <3>2 DEF Ends
  <2>5. CASE HangsUp
    <3>1. ASSUME NEW c \in Clients
          PROVE  conn'[c] = Closed(conn[c]) \/ conn'[c] = conn[c]
      BY <2>5 DEF HangsUp
    <3>2. ASSUME NEW c \in Clients
          PROVE  /\ conn'[c].gone = conn[c].gone /\ conn'[c].reset = conn[c].reset
                 /\ conn'[c].server # "closed" => conn[c].server # "closed"
      BY <2>3, <3>1
    <3> QED BY <1>1, <3>2 DEF Ends
  <2>6. CASE (\E c \in Clients : Accepts(c)) \/ Listens \/ Turns
    <3>1. ASSUME NEW c \in Clients
          PROVE  /\ conn'[c].gone = conn[c].gone /\ conn'[c].reset = conn[c].reset
                 /\ conn'[c].server = "closed" <=> conn[c].server = "closed"
      <4>1. CASE \E d \in Clients : Accepts(d)
        <5>1. PICK d \in Clients : Accepts(d)
          BY <4>1
        <5>2. c # d => conn'[c] = conn[c]
          BY <5>1 DEF Accepts
        <5>3. conn[d].server = "waiting" /\ conn'[d] = [conn[d] EXCEPT !.server = "accepted"]
          BY <5>1 DEF Accepts
        <5> QED BY <5>2, <5>3 DEF Conns
      <4>2. CASE Listens
        <5>1. conn'[c] = conn[c] \/ \E q : conn'[c] = [conn[c] EXCEPT !.up = q]
          BY <4>2 DEF Listens
        <5> QED BY <5>1 DEF Conns
      <4>3. CASE Turns
        <5>1. PICK e \in BOOLEAN : conn' = [conn EXCEPT ![confd].err = e]
          BY <4>3 DEF Turns
        <5>2. conn'[c] = conn[c] \/ conn'[c] = [conn[c] EXCEPT !.err = e]
          BY <5>1
        <5> QED BY <5>2 DEF Conns
      <4> QED BY <2>6, <4>1, <4>2, <4>3
    <3> QED BY <1>1, <3>1 DEF Ends
  <2>7. CASE Gives
    <3>1. confd \in Clients /\ confd = con /\ conn[confd].server = "accepted"
      BY <2>7 DEF Gives, OneServed
    <3>2. conn' = [conn EXCEPT ![confd] = Sent(conn[confd], m_buf)]
      BY <2>7 DEF Gives
    <3>3. /\ Sent(conn[confd], m_buf).server = conn[confd].server
          /\ Sent(conn[confd], m_buf).gone = conn[confd].gone
          /\ Sent(conn[confd], m_buf).reset => conn[confd].reset \/ conn[confd].gone
      BY <3>1 DEF Sent, Conns
    <3>4. ASSUME NEW c \in Clients
          PROVE  /\ conn'[c].server = conn[c].server /\ conn'[c].gone = conn[c].gone
                 /\ conn'[c].reset => conn[c].reset \/
                                       (conn[c].gone /\ conn[c].server = "accepted")
      BY <3>1, <3>2, <3>3
    <3> QED BY <1>1, <3>4 DEF Ends
  <2> QED BY <2>1, <2>2, <2>4, <2>5, <2>6, <2>7
          DEF Outcome, Opens, Idles, Polls, Passes, Serves, Takes, WritesOut
<1>4. ASSUME NEW c \in Clients, Tool(c) PROVE Ends'
  <2>1. /\ conn'[c].server = conn[c].server
             \/ (conn[c].server = "none" /\ conn'[c].server = "waiting")
        /\ \/ conn'[c].gone = conn[c].gone /\ conn'[c].reset = conn[c].reset
           \/ conn'[c].gone /\ habit[c] = "killed"
           \/ conn'[c].gone /\ conn[c].server = "closed" /\ conn'[c].reset = conn[c].reset
        /\ \A d \in Clients \ {c} : conn'[d] = conn[d]
    BY <1>0, <1>4
  <2> QED BY <1>1, <2>1 DEF Ends
<1> QED BY <1>2, <1>3, <1>4 DEF Next

-----------------------------------------------------------------------------
(* What is given to the client in service.                                    *)

\* The steps of the device, of which only Answer and Tell say something.
LEMMA DeviceSays ==
    ASSUME Types, Device
    PROVE  \/ /\ tty'.in = tty.in /\ tty'.up = tty.up /\ said' = said
              /\ tty.up
           \/ /\ tty'.in = <<>> /\ tty'.out = <<>> /\ ~tty'.up /\ said' = said /\ tty.up
           \/ \E b \in Byte : /\ said' = Append(said, b) /\ tty'.in = Append(tty.in, b)
                              /\ tty'.up = tty.up /\ tty'.out = tty.out /\ tty.up
<1> USE DEF Types
<1>1. CASE Hear
  BY <1>1 DEF Hear
<1>2. CASE Answer
  <2>1. Len(heard) \in Nat /\ heard[answered + 1] \in Byte
    <3>1. Len(heard) \in Nat
      BY LenProperties
    <3>2. answered + 1 \in 1 .. Len(heard)
      BY <1>2, <3>1 DEF Answer
    <3> QED BY <3>1, <3>2, ElementOfSeq
  <2> QED BY <1>2, <2>1 DEF Answer, Say
<1>3. CASE Tell
  <2>1. [to |-> 0, n |-> told + 1] \in Byte
    BY <1>3, BridgeAssumption DEF Tell, Byte
  <2> QED BY <1>3, <2>1 DEF Tell, Say
<1>4. CASE Unplug
  BY <1>4 DEF Unplug
<1> QED BY <1>1, <1>2, <1>3, <1>4 DEF Device

LEMMA StepWaits ==
    ASSUME IInv, [Next]_vars
    PROVE  Waits'
<1>1. CASE UNCHANGED <<tty, said>>
  BY <1>1 DEF Waits, IInv
<1>2. tty.in \in Seq(Byte) /\ said \in Seq(Byte) /\ Len(tty.in) \in Nat /\ Len(said) \in Nat
      /\ Types /\ Waits /\ OneServed /\ Stays
  BY LenProperties DEF IInv, Types
<1>3. CASE Device
  <2>1. CASE /\ tty'.in = tty.in /\ tty'.up = tty.up /\ said' = said /\ tty.up
    BY <1>2, <2>1 DEF Waits
  <2>2. CASE tty'.in = <<>> /\ tty'.out = <<>> /\ said' = said
    <3>1. At(<<>>, said, Len(said)) /\ Len(<<>>) = 0
      BY <1>2, AtEmpty
    <3> QED BY <1>2, <2>2, <3>1 DEF Waits
  <2>3. ASSUME NEW b \in Byte, said' = Append(said, b), tty'.in = Append(tty.in, b),
               tty'.up = tty.up, tty.up
        PROVE  Waits'
    <3> DEFINE q == tty.in
    <3> DEFINE from == Len(said) - Len(q)
    <3>1. q \in Seq(Byte) /\ from \in Nat /\ At(q, said, from) /\ from + Len(q) = Len(said)
      BY <1>2 DEF Waits
    <3>2. Len(Append(q, b)) = Len(q) + 1 /\ Len(Append(said, b)) = Len(said) + 1
      BY <1>2, <3>1, AppendProperties
    <3>3. Len(Append(said, b)) - Len(Append(q, b)) = from
      BY <1>2, <3>2
    <3> HIDE DEF q, from
    <3>4. At(Append(q, b), Append(said, b), from)
      BY <1>2, <3>1, AtAppend
    <3>5. Len(Append(q, b)) <= Len(Append(said, b))
      BY <1>2, <3>2 DEF Waits, q
    <3>6. tty'.in = Append(q, b)
      BY <2>3 DEF q
    <3> QED BY <2>3, <3>3, <3>4, <3>5, <3>6 DEF Waits
  <2> QED BY <1>2, <1>3, <2>1, <2>2, <2>3, DeviceSays
<1>4. CASE NetUart
  <2>1. Outcome /\ said' = said
    BY <1>2, <1>4, NetUartStep DEF NetUart
  <2>2. CASE Takes
    <3> DEFINE q == tty.in
    <3> DEFINE k == Len(First(q))
    <3> DEFINE rest == SubSeq(q, k + 1, Len(q))
    <3>1. tty'.in = rest /\ tty'.up = tty.up /\ tty'.out = tty.out
      BY <1>2, <2>2 DEF Takes, Types
    <3>2. q \in Seq(Byte) /\ Len(q) \in Nat /\ Len(q) <= Len(said)
          /\ At(q, said, Len(said) - Len(q))
      BY <1>2 DEF Waits
    <3> HIDE DEF q
    <3>3. k \in 0 .. Len(q) /\ Len(rest) = Len(q) - k
      BY <3>2, FirstTypes
    <3> HIDE DEF k
    <3>4. Len(said) - Len(q) \in Nat
      BY <1>2, <3>2
    <3>5. At(rest, said, Len(said) - Len(q) + k)
      BY <1>2, <3>2, <3>3, <3>4, AtCut
    <3> HIDE DEF rest
    <3>6. Len(said) - Len(q) + k = Len(said) - Len(rest) /\ Len(rest) <= Len(said)
      BY <1>2, <3>2, <3>3
    <3>7. tty.up
      BY <1>2, <2>2 DEF Takes, Waits, Types
    <3>8. At(tty'.in, said', Len(said') - Len(tty'.in)) /\ Len(tty'.in) <= Len(said') /\ tty'.up
      BY <2>1, <3>1, <3>5, <3>6, <3>7
    <3> QED BY <3>8 DEF Waits
  <2>3. CASE \E nw \in 1 .. Len(m_buf) : WritesOut(nw)
    BY <1>2, <2>1, <2>3 DEF WritesOut, Waits, Types
  <2>4. CASE tty' = tty
    BY <1>1, <2>1, <2>4
  <2> QED BY <2>1, <2>2, <2>3, <2>4 DEF Outcome, Exits, Opens, Accepts, Idles, Polls, Passes,
             Serves, Gives, HangsUp, Listens, Turns
<1>5. (\E c \in Clients : Tool(c)) \/ UNCHANGED vars => UNCHANGED <<tty, said>>
  BY DEF Tool, vars, nuvars
<1> QED BY <1>1, <1>3, <1>4, <1>5 DEF Next

\* Of a client's connection, netuart fills the queue towards it, one write at a time.
LEMMA DownStays ==
    ASSUME Types, OneServed, Outcome, NEW c \in Clients
    PROVE  /\ conn'[c].gone = conn[c].gone
           /\ \/ conn'[c].down = conn[c].down
              \/ Gives /\ confd = c /\ ~conn[c].gone /\ conn'[c].down = conn[c].down \o m_buf
           /\ Gives /\ confd = c /\ ~conn[c].gone => conn'[c].down = conn[c].down \o m_buf
<1>1. conn[c] \in Conns /\ conn \in [Clients -> Conns]
  BY DEF Types
<1>2. CASE conn'[c] = conn[c] /\ ~Gives
  BY <1>2
<1>3. Closed(conn[c]).gone = conn[c].gone /\ Closed(conn[c]).down = conn[c].down
  BY <1>1 DEF Closed, Conns
<1>4. CASE Exits
  <2>1. conn'[c] = Closed(conn[c]) \/ conn'[c] = conn[c]
    BY <1>4 DEF Exits
  <2>2. ~Gives
    BY <1>4 DEF Exits, Gives
  <2> QED BY <1>3, <2>1, <2>2
<1>5. CASE HangsUp
  <2>1. conn'[c] = Closed(conn[c]) \/ conn'[c] = conn[c]
    BY <1>1, <1>5 DEF HangsUp
  <2>2. ~Gives
    BY <1>5 DEF HangsUp, Gives
  <2> QED BY <1>3, <2>1, <2>2
<1>6. CASE \E d \in Clients : Accepts(d)
  <2>1. conn'[c] = [conn[c] EXCEPT !.server = "accepted"] \/ conn'[c] = conn[c]
    <3>1. PICK d \in Clients : Accepts(d)
      BY <1>6
    <3> QED BY <1>1, <3>1 DEF Accepts
  <2>2. ~Gives
    BY <1>6 DEF Accepts, Gives
  <2> QED BY <1>1, <2>1, <2>2 DEF Conns
<1>7. CASE Listens
  <2>1. conn'[c] = conn[c] \/ \E q : conn'[c] = [conn[c] EXCEPT !.up = q]
    BY <1>1, <1>7 DEF Listens
  <2>2. ~Gives
    BY <1>7 DEF Listens, Gives
  <2> QED BY <1>1, <2>1, <2>2 DEF Conns
<1>8. CASE Turns
  <2>1. PICK e \in BOOLEAN : conn' = [conn EXCEPT ![confd].err = e]
    BY <1>8 DEF Turns
  <2>2. conn'[c] = conn[c] \/ conn'[c] = [conn[c] EXCEPT !.err = e]
    BY <1>1, <2>1
  <2>3. ~Gives
    BY <1>8 DEF Turns, Gives
  <2> QED BY <1>1, <2>2, <2>3 DEF Conns
<1>9. CASE Gives
  <2>1. conn' = [conn EXCEPT ![confd] = Sent(conn[confd], m_buf)]
    BY <1>9 DEF Gives
  <2>2. CASE confd = c
    <3>1. conn'[c] = Sent(conn[c], m_buf)
      BY <1>1, <2>1, <2>2
    <3> QED BY <1>1, <1>9, <2>2, <3>1 DEF Sent, Conns
  <2>3. CASE confd # c
    BY <1>1, <2>1, <2>3
  <2> QED BY <2>2, <2>3
<1>10. (conn' = conn /\ ~Gives) \/ Exits \/ HangsUp \/ (\E d \in Clients : Accepts(d)) \/ Listens
       \/ Turns \/ Gives
  BY DEF Outcome, Opens, Idles, Polls, Passes, Serves, Takes, WritesOut, Gives
<1> QED BY <1>2, <1>4, <1>5, <1>6, <1>7, <1>8, <1>9, <1>10

LEMMA Joins ==
    ASSUME Types, NEW c \in Clients
    PROVE  /\ Received(c) \in Seq(Byte) /\ Given(c) \in Seq(Byte)
           /\ Len(Received(c)) \in Nat /\ Len(Given(c)) \in Nat
           /\ pc # "send" \/ confd # c \/ conn[c].gone => Given(c) = Received(c)
<1>1. taken[c] \in Seq(Byte) /\ conn[c].down \in Seq(Byte) /\ m_buf \in Seq(Byte)
      /\ <<>> \in Seq(Byte)
  BY EmptySeq DEF Types, Conns
<1>2. Received(c) \in Seq(Byte)
  BY <1>1, ConcatProperties DEF Received
<1> DEFINE r == Received(c)
<1> DEFINE g == Given(c)
<1> HIDE DEF r
<1>3. g = r \o m_buf \/ g = r \o <<>>
  BY DEF Given, r
<1>4. r \o <<>> = r /\ r \o m_buf \in Seq(Byte)
  BY <1>1, <1>2, ConcatEmptySeq, ConcatProperties DEF r
<1>5. pc # "send" \/ confd # c \/ conn[c].gone => g = r \o <<>>
  BY DEF Given, r
<1> HIDE DEF g
<1>6. r \in Seq(Byte) /\ g \in Seq(Byte)
  BY <1>2, <1>3, <1>4 DEF r
<1>7. Len(r) \in Nat /\ Len(g) \in Nat
  BY <1>6, LenProperties
<1> QED BY <1>4, <1>5, <1>6, <1>7 DEF r, g

\* What it gives is what it takes from the TTY, and it loses nothing on the way.
LEMMA GivenStays ==
    ASSUME IInv, Outcome, UNCHANGED taken, NEW c \in Clients
    PROVE  /\ ~(Takes /\ confd = c) => Given(c)' = Given(c)
           /\ Takes /\ confd = c /\ ~conn[c].gone => Given(c)' = Given(c) \o First(tty.in)
           /\ Takes /\ conn[c].gone => Given(c)' = Given(c)
<1>1. Types /\ OneServed /\ Ends
  BY DEF IInv
<1>2. taken[c] \in Seq(Byte) /\ conn[c].down \in Seq(Byte) /\ m_buf \in Seq(Byte)
      /\ <<>> \in Seq(Byte)
  BY <1>1, EmptySeq DEF Types, Conns
<1>3. conn'[c].gone = conn[c].gone
  BY <1>1, DownStays
<1>4. CASE Gives /\ confd = c /\ ~conn[c].gone
  <2>1. conn'[c].down = conn[c].down \o m_buf /\ pc = "send" /\ pc' # "send" /\ ~Takes
    BY <1>1, <1>4, DownStays DEF Gives, Takes
  <2>2. Given(c) = (taken[c] \o conn[c].down) \o m_buf
    BY <1>4, <2>1 DEF Given, Received
  <2>3. Given(c)' = Received(c)' /\ Received(c)' = taken[c] \o (conn[c].down \o m_buf)
    <3>1. Given(c)' = Received(c)' \o <<>> /\ Received(c)' = taken[c] \o (conn[c].down \o m_buf)
      BY <2>1 DEF Given, Received
    <3>2. taken[c] \o (conn[c].down \o m_buf) \in Seq(Byte)
      BY <1>2, ConcatProperties
    <3> QED BY <3>1, <3>2, ConcatEmptySeq
  <2>4. (taken[c] \o conn[c].down) \o m_buf = taken[c] \o (conn[c].down \o m_buf)
    <3> DEFINE t == taken[c]
    <3> DEFINE d == conn[c].down
    <3>1. t \in Seq(Byte) /\ d \in Seq(Byte)
      BY <1>2
    <3> HIDE DEF t, d
    <3>2. (t \o d) \o m_buf = t \o (d \o m_buf)
      <4>1. Regroups(t, d, m_buf)
        BY <1>2, <3>1, Grouping
      <4> QED BY <4>1 DEF Regroups
    <3> QED BY <3>2 DEF t, d
  <2> QED BY <2>1, <2>2, <2>3, <2>4
<1>5. CASE ~(Gives /\ confd = c /\ ~conn[c].gone)
  <2>1. Received(c)' = Received(c)
    <3>1. conn'[c].down = conn[c].down
      BY <1>1, <1>5, DownStays
    <3> QED BY <3>1 DEF Received
  <2>2. pc # "send" \/ confd # c \/ conn[c].gone \/ Gives \/ HangsUp
    BY DEF Outcome, Exits, Opens, Accepts, Idles, Polls, Passes, Serves, Takes, Listens, Turns,
           WritesOut
  <2>3. pc = "send" /\ confd = c => conn[c].gone
    BY <1>1, <1>5, <2>2 DEF HangsUp, Ends, Takes
  <2>4. Given(c) = Received(c)
    BY <1>1, <2>3, Joins
  <2>5. CASE Takes /\ confd = c /\ ~conn[c].gone
    <3>1. pc' = "send" /\ m_buf' = First(tty.in) /\ confd' = confd
      BY <1>1, <2>5, SocketAssumption DEF Takes, Rests
    <3> QED BY <1>3, <2>1, <2>4, <2>5, <3>1 DEF Given
  <2>6. CASE ~(Takes /\ confd = c /\ ~conn[c].gone)
    <3>1. pc' = "send" => Takes /\ confd' = confd
      BY DEF Outcome, Exits, Opens, Accepts, Idles, Polls, Passes, Serves, Takes, Listens, Turns,
             WritesOut, Gives, HangsUp, Rests
    <3>2. Given(c)' = Received(c)' \o <<>>
      BY <1>3, <2>6, <3>1 DEF Given
    <3>3. Received(c) \in Seq(Byte)
      BY <1>1, Joins
    <3>4. Received(c) \o <<>> = Received(c)
      BY <3>3, ConcatEmptySeq
    <3> QED BY <2>1, <2>4, <2>6, <3>2, <3>4
  <2> QED BY <2>5, <2>6
<1> QED BY <1>4, <1>5

LEMMA StepFollows ==
    ASSUME IInv, [Next]_vars
    PROVE  Follows'
<1>1. Types /\ OneServed /\ Stays /\ Ends /\ Waits /\ Follows /\ Flushed
  BY DEF IInv
<1>2. said \in Seq(Byte) /\ tty.in \in Seq(Byte) /\ Len(said) \in Nat /\ Len(tty.in) \in Nat
      /\ \A c \in Clients : served_from[c] \in Nat
  BY <1>1, LenProperties DEF Types
<1>3. ASSUME NEW c \in Clients
      PROVE  At(Given(c), said, served_from[c]) /\ Given(c) \in Seq(Byte) /\ Len(Given(c)) \in Nat
  BY <1>1, Joins DEF Follows
<1>4. CASE UNCHANGED <<conn, taken, pc, confd, m_buf, served_from, said, tty>>
  BY <1>1, <1>4 DEF Follows, Given, Received
<1>5. CASE Device
  <2>1. UNCHANGED <<conn, taken, pc, confd, m_buf, served_from>>
    BY <1>5 DEF Device, llvars, history
  <2>2. \A c \in Clients : Given(c)' = Given(c)
    BY <2>1 DEF Given, Received
  <2>3. CASE tty'.in = tty.in /\ tty'.up = tty.up /\ said' = said
    BY <1>1, <2>1, <2>2, <2>3 DEF Follows
  <2>4. CASE ~tty'.up /\ said' = said
    BY <1>1, <2>1, <2>2, <2>4 DEF Follows
  <2>5. ASSUME NEW b \in Byte, said' = Append(said, b), tty'.in = Append(tty.in, b),
               tty'.up = tty.up
        PROVE  Follows'
    <3>1. Len(said') = Len(said) + 1 /\ Len(tty'.in) = Len(tty.in) + 1
      BY <1>2, <2>5, AppendProperties
    <3>2. ASSUME NEW c \in Clients PROVE At(Given(c)', said', served_from'[c])
      <4>1. At(Given(c), Append(said, b), served_from[c])
        BY <1>2, <1>3, AtGrow
      <4> QED BY <2>1, <2>2, <2>5, <4>1
    <3>3. ASSUME NEW c \in Clients, confd' = c, ~conn'[c].gone, tty'.up
          PROVE  served_from'[c] + Len(Given(c)') + Len(tty'.in) = Len(said')
      <4>1. served_from[c] + Len(Given(c)) + Len(tty.in) = Len(said)
        BY <1>1, <2>1, <2>5, <3>3 DEF Follows
      <4>2. served_from[c] + Len(Given(c)) + (Len(tty.in) + 1) = Len(said) + 1
        BY <1>2, <1>3, <4>1
      <4> QED BY <2>1, <2>2, <3>1, <4>2
    <3> QED BY <3>2, <3>3 DEF Follows
  <2> QED BY <1>1, <1>5, <2>3, <2>4, <2>5, DeviceSays
<1>6. CASE NetUart
  <2>1. Outcome /\ UNCHANGED <<taken, said>>
    BY <1>1, <1>6, NetUartStep DEF NetUart, llvars
  <2>2. ASSUME NEW c \in Clients
        PROVE  served_from'[c] = IF confd = 0 /\ confd' = c THEN Len(said) - Len(tty.in)
                                 ELSE served_from[c]
    <3>1. served_from \in [Clients -> Nat] /\ c # 0
      BY <1>1, SocketAssumption DEF Types
    <3> QED BY <1>6, <3>1 DEF NetUart
  <2>3. ASSUME NEW c \in Clients, confd = 0, confd' = c
        PROVE  /\ At(Given(c)', said', served_from'[c])
               /\ served_from'[c] + Len(Given(c)') + Len(tty'.in) = Len(said')
    <3>1. Serves
      BY <2>1, <2>3, SocketAssumption DEF Outcome, Exits, Opens, Accepts, Idles, Polls, Passes,
         Takes, Gives, HangsUp, Listens, Turns, WritesOut, Rests
    <3>2. m_connected /\ con = c /\ tty' = tty /\ ~Takes
      BY <2>3, <3>1, SocketAssumption DEF Serves, Takes
    <3>3. Received(c) = <<>>
      BY <1>1, <2>3, <3>2 DEF Flushed
    <3>4. Given(c) = <<>>
      BY <1>1, <3>1, <3>3, Joins DEF Serves
    <3>5. Given(c)' = <<>>
      BY <2>1, <3>2, <3>4, GivenStays
    <3>6. Len(said) - Len(tty.in) \in 0 .. Len(said)
      BY <1>1, <1>2 DEF Waits
    <3>7. served_from'[c] = Len(said) - Len(tty.in)
      BY <2>2, <2>3
    <3>8. At(<<>>, said, Len(said) - Len(tty.in))
      BY <1>2, <3>6, AtEmpty
    <3>9. (Len(said) - Len(tty.in)) + 0 + Len(tty.in) = Len(said) /\ Len(<<>>) = 0
      BY <1>2, EmptySeq
    <3> QED BY <2>1, <3>2, <3>5, <3>7, <3>8, <3>9
  <2>4. ASSUME NEW c \in Clients, ~(confd = 0 /\ confd' = c), ~(Takes /\ confd = c)
        PROVE  /\ At(Given(c)', said', served_from'[c])
               /\ confd' = c /\ ~conn'[c].gone /\ tty'.up =>
                    served_from'[c] + Len(Given(c)') + Len(tty'.in) = Len(said')
    <3>1. Given(c)' = Given(c) /\ served_from'[c] = served_from[c]
      BY <2>1, <2>2, <2>4, GivenStays
    <3>2. conn'[c].gone = conn[c].gone
      BY <1>1, <2>1, DownStays
    <3>3. confd' = c => confd = c
      BY <1>1, <2>1, <2>4, SocketAssumption DEF Outcome, Exits, Opens, Accepts, Idles, Polls,
         Passes, Serves, Takes, Gives, HangsUp, Listens, Turns, WritesOut, Rests, Types
    <3>4. confd = c => tty'.in = tty.in /\ tty'.up = tty.up
      BY <1>1, <2>1, <2>4 DEF Outcome, Exits, Opens, Accepts, Idles, Polls,
         Passes, Serves, Gives, HangsUp, Listens, Turns, WritesOut, Types
    <3> QED BY <1>1, <1>3, <2>1, <3>1, <3>2, <3>3, <3>4 DEF Follows
  <2>5. ASSUME NEW c \in Clients, Takes, confd = c, conn[c].gone
        PROVE  At(Given(c)', said', served_from'[c]) /\ conn'[c].gone
    <3>1. Given(c)' = Given(c) /\ served_from'[c] = served_from[c]
      BY <2>1, <2>2, <2>5, SocketAssumption, GivenStays
    <3>2. conn'[c].gone = conn[c].gone
      BY <1>1, <2>1, DownStays
    <3> QED BY <1>3, <2>1, <2>5, <3>1, <3>2
  <2>6. ASSUME NEW c \in Clients, Takes, confd = c, ~conn[c].gone
        PROVE  /\ At(Given(c)', said', served_from'[c])
               /\ served_from'[c] + Len(Given(c)') + Len(tty'.in) = Len(said')
    <3> DEFINE g == Given(c)
    <3> DEFINE f == First(tty.in)
    <3> DEFINE from == served_from[c]
    <3>1. Given(c)' = g \o f /\ served_from'[c] = from /\ tty.up
      BY <1>1, <2>1, <2>2, <2>6, SocketAssumption, GivenStays DEF Takes, Waits
    <3>2. g \in Seq(Byte) /\ Len(g) \in Nat /\ At(g, said, from) /\ from \in Nat
          /\ from + Len(g) + Len(tty.in) = Len(said)
      BY <1>1, <1>2, <1>3, <2>6, <3>1 DEF Follows
    <3>3. f \in Seq(Byte) /\ Len(f) \in 0 .. Len(tty.in)
          /\ Len(tty'.in) = Len(tty.in) - Len(f)
      <4>1. tty'.in = SubSeq(tty.in, Len(First(tty.in)) + 1, Len(tty.in))
        BY <1>1, <2>6 DEF Takes, Types
      <4> QED BY <1>2, <4>1, FirstTypes
    <3>4. At(f, said, from + Len(g))
      <4>1. from + Len(g) = Len(said) - Len(tty.in)
        <5> DEFINE l == Len(g)
        <5> DEFINE x == Len(tty.in)
        <5> DEFINE y == Len(said)
        <5>1. from \in Nat /\ l \in Nat /\ x \in Nat /\ y \in Nat /\ from + l + x = y
          BY <1>2, <3>2
        <5> HIDE DEF from, l, x, y
        <5>2. from + l = y - x
          BY <5>1
        <5> QED BY <5>2 DEF l, x, y
      <4>2. \E n \in 0 .. Len(tty.in) : f = SubSeq(tty.in, 1, n)
        BY <1>2, NetUartAssumption DEF First
      <4>3. At(tty.in, said, from + Len(g)) /\ from + Len(g) \in Nat
        BY <1>1, <3>2, <4>1 DEF Waits
      <4> HIDE DEF g, f, from
      <4> QED BY <1>2, <4>2, <4>3, AtCut
    <3> HIDE DEF g, f, from
    <3>5. At(g \o f, said, from)
      BY <1>2, <3>2, <3>3, <3>4, AtJoin
    <3>6. Len(g \o f) = Len(g) + Len(f)
      BY <3>2, <3>3, ConcatProperties
    <3>7. from + (Len(g) + Len(f)) + (Len(tty.in) - Len(f)) = Len(said)
      <4> DEFINE l == Len(g)
      <4> DEFINE k == Len(f)
      <4> DEFINE x == Len(tty.in)
      <4> DEFINE y == Len(said)
      <4>1. from \in Nat /\ l \in Nat /\ k \in 0 .. x /\ x \in Nat /\ y \in Nat /\ from + l + x = y
        BY <1>2, <3>2, <3>3
      <4> HIDE DEF l, k, x, y
      <4>2. from + (l + k) + (x - k) = y
        BY <4>1
      <4> QED BY <4>2 DEF l, k, x, y
    <3> QED BY <2>1, <3>1, <3>3, <3>5, <3>6, <3>7
  <2> QED BY <2>3, <2>4, <2>5, <2>6 DEF Follows
<1>7. ASSUME NEW c \in Clients, Tool(c) PROVE Follows'
  <2>1. UNCHANGED <<pc, confd, m_buf, served_from, said, tty>>
    BY <1>7 DEF Tool, nuvars, history
  <2>2. \A d \in Clients \ {c} : conn'[d] = conn[d] /\ taken'[d] = taken[d]
    BY <1>1, <1>7, ToolTypes
  <2>3. \A d \in Clients \ {c} : Given(d)' = Given(d)
    BY <2>1, <2>2 DEF Given, Received
  <2>4. \/ Received(c)' = Received(c) /\ conn'[c].gone = conn[c].gone
        \/ conn'[c].gone /\ conn'[c].down = <<>> /\ taken'[c] = taken[c]
    BY <1>1, <1>7, ToolEffect
  <2>5. CASE Received(c)' = Received(c) /\ conn'[c].gone = conn[c].gone
    <3>1. Given(c)' = Given(c)
      BY <2>1, <2>5 DEF Given
    <3>2. \A d \in Clients : Given(d)' = Given(d) /\ conn'[d].gone = conn[d].gone
      BY <2>2, <2>3, <2>5, <3>1
    <3> QED BY <1>1, <2>1, <3>2 DEF Follows
  <2>6. CASE conn'[c].gone /\ conn'[c].down = <<>> /\ taken'[c] = taken[c]
    <3> DEFINE t == taken[c]
    <3> DEFINE d == conn[c].down
    <3> DEFINE m == IF pc = "send" /\ confd = c /\ ~conn[c].gone THEN m_buf ELSE <<>>
    <3>1. t \in Seq(Byte) /\ d \in Seq(Byte) /\ m \in Seq(Byte) /\ Given(c) = (t \o d) \o m
      BY <1>1, EmptySeq DEF Types, Conns, Given, Received
    <3>2. Given(c)' = (t \o <<>>) \o <<>>
      BY <2>6 DEF Given, Received
    <3> DEFINE from == served_from[c]
    <3>3. At((t \o d) \o m, said, from) /\ from \in Nat
      BY <1>2, <1>3, <3>1
    <3> HIDE DEF t, d, m, from
    <3>4. At(t, said, from)
      <4>1. t \o d \in Seq(Byte)
        BY <3>1, ConcatProperties
      <4>2. At(t \o d, said, from)
        BY <1>2, <3>1, <3>3, <4>1, AtJoin
      <4> QED BY <1>2, <3>1, <3>3, <4>2, AtJoin
    <3>5. t \o <<>> = t
      BY <3>1, ConcatEmptySeq
    <3>6. At(Given(c)', said', served_from'[c])
      BY <2>1, <3>2, <3>4, <3>5 DEF from
    <3>7. ASSUME NEW e \in Clients \ {c}
          PROVE  /\ At(Given(e)', said', served_from'[e])
                 /\ confd' = e /\ ~conn'[e].gone /\ tty'.up =>
                      served_from'[e] + Len(Given(e)') + Len(tty'.in) = Len(said')
      BY <1>1, <2>1, <2>2, <2>3 DEF Follows
    <3> QED BY <2>6, <3>6, <3>7 DEF Follows
  <2> QED BY <2>4, <2>5, <2>6
<1>8. CASE UNCHANGED vars
  BY <1>4, <1>8 DEF vars, nuvars, llvars, history
<1> QED BY <1>5, <1>6, <1>7, <1>8 DEF Next

\* A step of netuart neither connects a client nor takes it back into the backlog.
LEMMA NotYetServed ==
    ASSUME Types, OneServed, Outcome, NEW c \in Clients,
           \/ conn'[c].server \in {"none", "waiting"}
           \/ con' = c /\ m_connected' /\ confd' = 0
    PROVE  /\ \/ conn[c].server \in {"none", "waiting"}
              \/ con = c /\ m_connected /\ confd = 0
           /\ conn'[c].down = conn[c].down
<1>1. c # 0 /\ conn[c] \in Conns /\ conn \in [Clients -> Conns]
  BY SocketAssumption DEF Types
<1>2. CASE Exits
  <2>1. conn'[c].server \in {"none", "waiting"} => conn[c].server \in {"none", "waiting"}
    <3>1. conn'[c] = IF conn[c].server \in {"waiting", "accepted"} THEN Closed(conn[c]) ELSE conn[c]
      BY <1>2 DEF Exits
    <3>2. Closed(conn[c]).server = "closed"
      BY <1>1 DEF Closed, Conns
    <3> QED BY <3>1, <3>2
  <2>2. UNCHANGED <<con, m_connected, confd>> /\ ~Gives
    BY <1>2 DEF Exits, Rests, Gives
  <2> QED BY <2>1, <2>2, DownStays
<1>3. CASE \E d \in Clients : Accepts(d)
  <2>1. PICK d \in Clients : Accepts(d)
    BY <1>3
  <2>2. ~Gives
    BY <2>1 DEF Accepts, Gives
  <2>3. c = d => conn[c].server = "waiting"
    BY <2>1 DEF Accepts
  <2>4. c # d => conn'[c] = conn[c] /\ con' # c
    BY <1>1, <2>1 DEF Accepts
  <2> QED BY <2>2, <2>3, <2>4, DownStays
<1>4. CASE Idles
  BY <1>1, <1>4, DownStays DEF Idles, Gives
<1>5. CASE Gives \/ Listens \/ Turns \/ HangsUp
  <2>1. confd = con /\ confd \in Clients /\ conn[confd].server = "accepted" /\ confd # 0
    BY <1>5, SocketAssumption DEF Gives, Listens, Turns, HangsUp, OneServed, Types
  <2>2. confd' = confd /\ con' = con
    BY <1>5 DEF Gives, Listens, Turns, HangsUp, Rests
  <2>3. c # confd => conn'[c] = conn[c]
    <3>1. CASE Gives \/ HangsUp
      BY <1>1, <2>1, <3>1 DEF Gives, HangsUp
    <3>2. CASE Listens
      BY <1>1, <2>1, <3>2 DEF Listens
    <3>3. CASE Turns
      BY <1>1, <2>1, <3>3 DEF Turns
    <3> QED BY <1>5, <3>1, <3>2, <3>3
  <2>4. conn'[confd].server \in {"accepted", "closed"}
    <3>1. CASE Gives
      BY <1>1, <2>1, <3>1 DEF Gives, Sent, Conns
    <3>2. CASE HangsUp
      BY <1>1, <2>1, <3>2 DEF HangsUp, Closed, Conns
    <3>3. CASE Listens
      BY <1>1, <2>1, <3>3 DEF Listens, Conns
    <3>4. CASE Turns
      BY <1>1, <2>1, <3>4 DEF Turns, Conns
    <3> QED BY <1>5, <3>1, <3>2, <3>3, <3>4
  <2> QED BY <2>1, <2>2, <2>3, <2>4
<1>6. CASE conn' = conn /\ con' = con /\ m_connected' = m_connected /\ (confd' = 0 => confd = 0)
  BY <1>6
<1>7. CASE Opens \/ Polls \/ Passes \/ Takes \/ \E nw \in 1 .. Len(m_buf) : WritesOut(nw)
  BY <1>6, <1>7 DEF Opens, Polls, Passes, Takes, WritesOut, Rests
<1>8. CASE Serves
  BY <1>6, <1>8 DEF Serves
<1> QED BY <1>2, <1>3, <1>4, <1>5, <1>7, <1>8 DEF Outcome

LEMMA StepFlushed ==
    ASSUME IInv, [Next]_vars
    PROVE  Flushed'
<1>1. Types /\ OneServed /\ Stays /\ Ends /\ Waits /\ Flushed
  BY DEF IInv
<1>2. said \in Seq(Byte) /\ tty.in \in Seq(Byte) /\ Len(said) \in Nat /\ Len(tty.in) \in Nat
      /\ \A c \in Clients : served_from[c] \in Nat /\ accepted_at[c] \in Nat /\ c # 0
  BY <1>1, SocketAssumption, LenProperties DEF Types
<1>3. CASE UNCHANGED <<conn, taken, pc, con, confd, m_connected, revents, accepted_at,
                       served_from, said, tty>>
  BY <1>1, <1>3 DEF Flushed, Received
<1>4. CASE Device
  <2>1. UNCHANGED <<conn, taken, pc, con, confd, m_connected, revents, accepted_at, served_from>>
    BY <1>4 DEF Device, llvars, history
  <2>2. \A c \in Clients : Received(c)' = Received(c)
    BY <2>1 DEF Received
  <2>3. Len(said') \in Nat /\ Len(tty'.in) \in Nat /\ Len(said') >= Len(said)
        /\ Len(said') - Len(tty'.in) >= Len(said) - Len(tty.in)
    <3>1. CASE tty'.in = tty.in /\ said' = said
      BY <1>2, <3>1
    <3>2. CASE tty'.in = <<>> /\ said' = said
      BY <1>2, <3>2, EmptySeq
    <3>3. ASSUME NEW b \in Byte, said' = Append(said, b), tty'.in = Append(tty.in, b)
          PROVE  Len(said') = Len(said) + 1 /\ Len(tty'.in) = Len(tty.in) + 1
      BY <1>2, <3>3, AppendProperties
    <3> QED BY <1>1, <1>2, <1>4, <3>1, <3>2, <3>3, DeviceSays
  <2>4. ASSUME NEW c \in Clients
        PROVE  /\ accepted_at[c] <= Len(said')
               /\ con = c /\ m_connected /\ confd = 0 /\ pc = "tty" /\ ~revents.tty =>
                    Len(said') - Len(tty'.in) >= accepted_at[c]
    BY <1>1, <1>2, <2>3 DEF Flushed
  <2>5. ASSUME NEW c \in Clients
        PROVE  /\ confd = c \/ Received(c) # <<>> => served_from[c] >= accepted_at[c]
               /\ conn[c].server \in {"none", "waiting"} \/ (con = c /\ m_connected /\ confd = 0)
                    => Received(c) = <<>>
    BY <1>1 DEF Flushed
  <2> QED BY <2>1, <2>2, <2>4, <2>5 DEF Flushed
<1>5. CASE NetUart
  <2>1. Outcome /\ UNCHANGED <<taken, said>>
    BY <1>1, <1>5, NetUartStep DEF NetUart, llvars
  <2>2. ASSUME NEW c \in Clients
        PROVE  /\ served_from'[c] = IF confd = 0 /\ confd' = c THEN Len(said) - Len(tty.in)
                                    ELSE served_from[c]
               /\ accepted_at'[c] = IF pc = "accept" /\ con' = c THEN Len(said)
                                    ELSE accepted_at[c]
    <3>1. served_from \in [Clients -> Nat] /\ accepted_at \in [Clients -> Nat] /\ c # 0
      BY <1>1, <1>2 DEF Types
    <3> QED BY <1>5, <3>1 DEF NetUart
  <2>3. ASSUME NEW c \in Clients
        PROVE  pc = "accept" /\ con' = c => conn[c].server = "waiting" /\ confd' = 0
    BY <1>2, <2>1 DEF Outcome, Exits, Opens, Accepts, Idles, Polls, Passes, Serves,
       Takes, Gives, HangsUp, Listens, Turns, WritesOut, Rests
  <2>4. pc = "accept" => confd' = 0 /\ ~Gives
    BY <2>1 DEF Outcome, Exits, Opens, Accepts, Idles, Polls, Passes, Serves,
       Takes, Gives, HangsUp, Listens, Turns, WritesOut, Rests
  <2>5. ASSUME NEW c \in Clients PROVE accepted_at'[c] <= Len(said')
    BY <1>1, <1>2, <2>1, <2>2 DEF Flushed
  <2>6. ASSUME NEW c \in Clients, confd' = c PROVE served_from'[c] >= accepted_at'[c]
    <3>1. accepted_at'[c] = accepted_at[c]
      BY <1>2, <2>2, <2>4, <2>6
    <3>2. CASE confd = c
      BY <1>1, <1>2, <2>2, <3>1, <3>2 DEF Flushed
    <3>3. CASE confd # c
      <4>1. Serves
        BY <1>2, <2>1, <2>6, <3>3 DEF Outcome, Exits, Opens, Accepts, Idles, Polls, Passes,
           Takes, Gives, HangsUp, Listens, Turns, WritesOut, Rests
      <4>2. pc = "tty" /\ ~revents.tty /\ confd = 0 /\ m_connected /\ con = c
        BY <1>2, <2>6, <4>1 DEF Serves
      <4> QED BY <1>1, <2>2, <2>6, <3>1, <4>2 DEF Flushed
    <3> QED BY <3>2, <3>3
  <2>7. ASSUME NEW c \in Clients, Received(c)' # <<>>, confd' # c
        PROVE  served_from'[c] >= accepted_at'[c]
    <3>1. conn'[c].down = conn[c].down
      BY <1>1, <2>1, <2>7, DownStays DEF Gives, Rests
    <3>2. Received(c)' = Received(c)
      BY <2>1, <3>1 DEF Received
    <3>3. ~(pc = "accept" /\ con' = c)
      BY <1>1, <2>3, <2>7, <3>2 DEF Flushed
    <3> QED BY <1>1, <2>2, <2>7, <3>2, <3>3 DEF Flushed
  <2>8. ASSUME NEW c \in Clients, con' = c, m_connected', confd' = 0, pc' = "tty", ~revents'.tty
        PROVE  Len(said') - Len(tty'.in) >= accepted_at'[c]
    <3>1. Polls
      BY <2>1, <2>8 DEF Outcome, Exits, Opens, Accepts, Idles, Passes, Serves,
         Takes, Gives, HangsUp, Listens, Turns, WritesOut
    <3>2. tty' = tty /\ tty.in = <<>> /\ accepted_at'[c] = accepted_at[c]
      BY <2>2, <2>8, <3>1 DEF Polls
    <3>3. Len(tty'.in) = 0
      BY <3>2, EmptySeq
    <3> QED BY <1>1, <1>2, <2>1, <3>2, <3>3 DEF Flushed
  <2>9. ASSUME NEW c \in Clients, conn'[c].server \in {"none", "waiting"}
                                    \/ (con' = c /\ m_connected' /\ confd' = 0)
        PROVE  Received(c)' = <<>>
    <3>1. conn'[c].down = conn[c].down
      BY <1>1, <2>1, <2>9, NotYetServed
    <3>2. Received(c)' = Received(c)
      BY <2>1, <3>1 DEF Received
    <3>3. conn[c].server \in {"none", "waiting"} \/ (con = c /\ m_connected /\ confd = 0)
      BY <1>1, <2>1, <2>9, NotYetServed
    <3> QED BY <1>1, <3>2, <3>3 DEF Flushed
  <2> QED BY <2>5, <2>6, <2>7, <2>8, <2>9 DEF Flushed
<1>6. ASSUME NEW c \in Clients, Tool(c) PROVE Flushed'
  <2>1. UNCHANGED <<pc, con, confd, m_connected, revents, accepted_at, served_from, said, tty>>
    BY <1>6 DEF Tool, nuvars, history
  <2>2. \A d \in Clients \ {c} : conn'[d] = conn[d] /\ taken'[d] = taken[d]
    BY <1>1, <1>6, ToolTypes
  <2>3. \A d \in Clients \ {c} : Received(d)' = Received(d)
    BY <2>2 DEF Received
  <2>4. /\ \/ conn'[c].server = conn[c].server
           \/ conn[c].server = "none" /\ conn'[c].server = "waiting"
        /\ \/ Received(c)' = Received(c)
           \/ conn'[c].down = <<>> /\ taken'[c] = taken[c]
    BY <1>1, <1>6, ToolEffect
  <2>5. Received(c) = <<>> => Received(c)' = <<>>
    <3>1. CASE Received(c)' = Received(c)
      BY <3>1
    <3>2. CASE conn'[c].down = <<>> /\ taken'[c] = taken[c]
      <4> DEFINE t == taken[c]
      <4> DEFINE d == conn[c].down
      <4>1. t \in Seq(Byte) /\ d \in Seq(Byte) /\ Received(c) = t \o d
        BY <1>1 DEF Types, Conns, Received
      <4>2. Received(c)' = t \o <<>>
        BY <3>2 DEF Received
      <4> HIDE DEF t, d
      <4>3. t \o <<>> = t /\ (t \o d = <<>> => t = <<>>)
        BY <4>1, ConcatEmptySeq, ConcatEqualIffEmpty
      <4> QED BY <4>1, <4>2, <4>3
    <3> QED BY <2>4, <3>1, <3>2
  <2>6. ASSUME NEW d \in Clients
        PROVE  /\ Received(d) = <<>> => Received(d)' = <<>>
               /\ conn'[d].server \in {"none", "waiting"} => conn[d].server \in {"none", "waiting"}
    BY <2>2, <2>3, <2>4, <2>5
  <2> QED BY <1>1, <2>1, <2>6 DEF Flushed
<1>7. CASE UNCHANGED vars
  BY <1>3, <1>7 DEF vars, nuvars, llvars, history
<1> QED BY <1>4, <1>5, <1>6, <1>7 DEF Next

-----------------------------------------------------------------------------
(* What is heard of each client.                                              *)

LEMMA HeardType == ASSUME Types PROVE Heard \in Seq(Byte) /\ Len(Heard) \in Nat
<1>1. heard \in Seq(Byte) /\ tty.out \in Seq(Byte)
      /\ (IF pc = "write" /\ tty.up THEN m_buf ELSE <<>>) \in Seq(Byte)
  BY EmptySeq DEF Types
<1>2. heard \o tty.out \in Seq(Byte)
  BY <1>1, ConcatProperties
<1>3. Heard \in Seq(Byte)
  BY <1>1, <1>2, ConcatProperties DEF Heard
<1> QED BY <1>3, LenProperties

\* Only pulling the plug takes from what is heard, and only a read adds to it.
LEMMA DeviceHears ==
    ASSUME Types, Device
    PROVE  \/ Heard' = Heard /\ tty'.up = tty.up
           \/ ~fixed /\ ~tty'.up /\ \E n \in 0 .. Len(Heard) : Heard' = SubSeq(Heard, 1, n)
<1>1. heard \in Seq(Byte) /\ tty \in [up : BOOLEAN, in : Seq(Byte), out : Seq(Byte)]
      /\ m_buf \in Seq(Byte) /\ pc' = pc /\ m_buf' = m_buf
  BY DEF Types, Device
<1> DEFINE w == IF pc = "write" /\ tty.up THEN m_buf ELSE <<>>
<1>2. w \in Seq(Byte) /\ <<>> \in Seq(Byte) /\ tty.out \in Seq(Byte)
  BY <1>1, EmptySeq
<1>3. CASE Hear
  <2>1. tty'.out = Tail(tty.out) /\ tty'.up = tty.up /\ tty.out # <<>>
        /\ heard' = Append(heard, Head(tty.out))
    BY <1>1, <1>3 DEF Hear
  <2>2. Heard' = heard' \o tty'.out \o w
    BY <1>1, <2>1 DEF Heard
  <2>3. heard' \o tty'.out = heard \o tty.out
    <3> DEFINE x == heard
    <3> DEFINE y == tty.out
    <3>1. x \in Seq(Byte) /\ y \in Seq(Byte) /\ y # <<>>
      BY <1>1, <2>1
    <3> HIDE DEF x, y
    <3>2. Append(x, Head(y)) \o Tail(y) = x \o y
      BY <3>1, MoveHead
    <3> QED BY <2>1, <3>2 DEF x, y
  <2> QED BY <2>1, <2>2, <2>3 DEF Heard
<1>4. CASE Answer \/ Tell
  <2>1. tty'.out = tty.out /\ tty'.up = tty.up /\ heard' = heard
    BY <1>1, <1>4 DEF Answer, Tell, Say
  <2> QED BY <1>1, <2>1 DEF Heard
<1>5. CASE Unplug
  <2>1. ~fixed /\ tty' = [up |-> FALSE, in |-> <<>>, out |-> <<>>] /\ heard' = heard
    BY <1>5 DEF Unplug
  <2>2. ~tty'.up /\ tty'.out = <<>>
    BY <2>1
  <2>3. Heard' = heard \o <<>> \o <<>>
    BY <1>1, <2>1, <2>2 DEF Heard
  <2>4. Heard' = heard
    BY <1>1, <2>3, ConcatEmptySeq
  <2> DEFINE x == heard
  <2> DEFINE v == tty.out
  <2> DEFINE y == v \o w
  <2>5. x \in Seq(Byte) /\ y \in Seq(Byte) /\ Heard = x \o y
    <3>1. y \in Seq(Byte)
      BY <1>2, ConcatProperties
    <3>2. (heard \o v) \o w = heard \o (v \o w)
      <4> HIDE DEF v, w
      <4>1. Regroups(heard, v, w)
        BY <1>1, <1>2, Grouping DEF v
      <4> QED BY <4>1 DEF Regroups
    <3> QED BY <1>1, <3>1, <3>2 DEF Heard
  <2> HIDE DEF x, y
  <2>6. Len(x) \in 0 .. Len(x \o y) /\ SubSeq(x \o y, 1, Len(x)) = x
    <3>1. Len(x) \in Nat /\ Len(y) \in Nat /\ x \o y \in Seq(Byte)
          /\ Len(x \o y) = Len(x) + Len(y)
          /\ \A i \in 1 .. Len(x) + Len(y) : (x \o y)[i] = IF i <= Len(x) THEN x[i] ELSE y[i - Len(x)]
      BY <2>5, LenProperties, ConcatProperties
    <3>2. Len(x) \in 0 .. Len(x \o y)
      BY <3>1
    <3> DEFINE s == x \o y
    <3>3. SubSeq(s, 1, Len(x)) \in Seq(Byte) /\ Len(SubSeq(s, 1, Len(x))) = Len(x)
          /\ \A i \in 1 .. Len(x) : SubSeq(s, 1, Len(x))[i] = s[i]
      BY <3>1, <3>2, Cut
    <3>4. \A i \in 1 .. Len(x) : s[i] = x[i]
      BY <3>1
    <3> HIDE DEF s
    <3>5. SubSeq(s, 1, Len(x)) = x
      BY <2>5, <3>3, <3>4, SeqEqual
    <3> QED BY <3>2, <3>5 DEF s
  <2>7. Heard' = SubSeq(Heard, 1, Len(x)) /\ Len(x) \in 0 .. Len(Heard)
    BY <2>4, <2>5, <2>6 DEF x
  <2> QED BY <2>1, <2>2, <2>7
<1> QED BY <1>3, <1>4, <1>5 DEF Device

LEMMA NetUartHears ==
    ASSUME Types, OneServed, Outcome, heard' = heard
    PROVE  /\ tty'.up = tty.up
           /\ Heard' = IF Listens /\ tty.up THEN Heard \o First(conn[confd].up) ELSE Heard
<1>1. heard \in Seq(Byte) /\ tty \in [up : BOOLEAN, in : Seq(Byte), out : Seq(Byte)]
      /\ m_buf \in Seq(Byte)
  BY DEF Types
<1>2. ASSUME NEW nw \in 1 .. Len(m_buf), WritesOut(nw) PROVE tty'.up = tty.up /\ Heard' = Heard
  <2> DEFINE a == SubSeq(m_buf, 1, nw)
  <2> DEFINE b == SubSeq(m_buf, nw + 1, Len(m_buf))
  <2>1. tty'.up /\ tty.up /\ tty'.out = tty.out \o a /\ m_buf' = b /\ pc = "write"
        /\ pc' = IF nw = Len(m_buf) THEN "poll" ELSE "write"
    BY <1>1, <1>2 DEF WritesOut
  <2>2. nw \in 0 .. Len(m_buf)
    BY <1>1, LenProperties
  <2>3. a \in Seq(Byte) /\ b \in Seq(Byte) /\ a \o b = m_buf /\ Len(b) = Len(m_buf) - nw
    BY <1>1, <2>2, Cut, Rejoin
  <2>4. (IF pc' = "write" /\ tty'.up THEN m_buf' ELSE <<>>) = b
    <3>1. CASE nw = Len(m_buf)
      <4>1. Len(b) = 0
        BY <2>3, <3>1
      <4>2. b = <<>>
        <5> HIDE DEF b
        <5> QED BY <2>3, <4>1, EmptySeq
      <4> QED BY <2>1, <3>1, <4>2
    <3>2. CASE nw # Len(m_buf)
      BY <2>1, <3>2
    <3> QED BY <3>1, <3>2
  <2>5. Heard' = (heard \o (tty.out \o a)) \o b /\ Heard = (heard \o tty.out) \o m_buf
    BY <2>1, <2>4 DEF Heard
  <2>6. (heard \o (tty.out \o a)) \o b = (heard \o tty.out) \o (a \o b)
    <3> DEFINE h == heard
    <3> DEFINE o == tty.out
    <3>1. h \in Seq(Byte) /\ o \in Seq(Byte) /\ a \in Seq(Byte) /\ b \in Seq(Byte)
      BY <1>1, <2>3
    <3> HIDE DEF a, b, h, o
    <3>2. h \o o \in Seq(Byte)
      BY <3>1, ConcatProperties
    <3>3. Regroups(h, o, a) /\ Regroups(h \o o, a, b)
      BY <3>1, <3>2, Grouping
    <3>4. (h \o (o \o a)) \o b = (h \o o) \o (a \o b)
      BY <3>3 DEF Regroups
    <3> QED BY <3>4 DEF h, o
  <2>7. Heard' = Heard
    BY <2>3, <2>5, <2>6
  <2> QED BY <2>1, <2>7
<1>3. CASE Listens
  <2>1. pc = "skt" /\ pc' = "write" /\ m_buf' = First(conn[confd].up) /\ tty' = tty
    BY <1>3 DEF Listens
  <2>2. Heard = heard \o tty.out \o <<>>
    BY <2>1 DEF Heard
  <2>3. heard \o tty.out \in Seq(Byte)
    BY <1>1, ConcatProperties
  <2>4. Heard = heard \o tty.out
    BY <2>2, <2>3, ConcatEmptySeq
  <2>5. Heard' = heard \o tty.out \o (IF tty.up THEN First(conn[confd].up) ELSE <<>>)
    BY <2>1 DEF Heard
  <2> QED BY <1>3, <2>1, <2>2, <2>4, <2>5
<1>4. CASE Exits
  <2>1. tty' = tty /\ ~tty.up /\ ~Listens
    BY <1>4 DEF Exits, Listens
  <2> QED BY <2>1 DEF Heard
<1>5. CASE /\ tty'.up = tty.up /\ tty'.out = tty.out /\ pc # "write" /\ pc' # "write"
  BY <1>5 DEF Heard, Listens
<1>6. CASE Opens \/ (\E c \in Clients : Accepts(c)) \/ Idles \/ Polls \/ Passes \/ Serves
           \/ Takes \/ Gives \/ HangsUp \/ Turns
  BY <1>1, <1>5, <1>6 DEF Opens, Accepts, Idles, Polls, Passes, Serves, Takes, Gives, HangsUp, Turns
<1>7. CASE \E nw \in 1 .. Len(m_buf) : WritesOut(nw)
  <2>1. ~Listens
    BY <1>7 DEF Listens, WritesOut
  <2> QED BY <1>2, <1>7, <2>1
<1> QED BY <1>3, <1>4, <1>6, <1>7 DEF Outcome

\* Nothing happens to a client's commands ...
LEMMA CommandsKept ==
    ASSUME NEW c \in Clients, CommandsOf(c), UNCHANGED <<fixed, habit>>,
           Heard' = Heard, tty'.up = tty.up, wrote'[c] = wrote[c], conn'[c].up = conn[c].up,
           \/ conn'[c].server = conn[c].server
           \/ conn[c].server \in {"none", "waiting"} /\ conn'[c].server \in {"waiting", "accepted"}
    PROVE  CommandsOf(c)'
<1>1. PICK place, len \in Nat : HeardAt(c, place, len) /\ Sending(c, place, len)
  BY DEF CommandsOf
<1>2. HeardAt(c, place, len)'
  BY <1>1 DEF HeardAt
<1>3. Sending(c, place, len)'
  BY <1>1 DEF Sending
<1> QED BY <1>1, <1>2, <1>3 DEF CommandsOf

\* ... the server closes its connection ...
LEMMA CommandsClosed ==
    ASSUME NEW c \in Clients, CommandsOf(c), UNCHANGED <<fixed, habit>>,
           Heard' = Heard, tty'.up = tty.up, wrote'[c] = wrote[c], conn'[c].server = "closed",
           wrote[c] \in Nat, conn[c].up \in Seq(Byte),
           \/ ~fixed \/ habit[c] = "killed"
           \/ tty.up /\ conn[c].up = <<>> /\ conn[c].server # "closed"
    PROVE  CommandsOf(c)'
<1>1. PICK place, len \in Nat : HeardAt(c, place, len) /\ Sending(c, place, len)
  BY DEF CommandsOf
<1>2. HeardAt(c, place, len)'
  BY <1>1 DEF HeardAt
<1>3. fixed /\ habit[c] # "killed" => len = wrote[c]
  <2>1. CASE tty.up /\ conn[c].up = <<>> /\ conn[c].server # "closed"
    <3>1. Len(conn[c].up) = 0 /\ Len(conn[c].up) = wrote[c] - len
      BY <1>1, <2>1, EmptySeq DEF Sending
    <3> QED BY <1>1, <3>1
  <2> QED BY <2>1
<1>4. Sending(c, place, len)'
  BY <1>3 DEF Sending
<1> QED BY <1>1, <1>2, <1>4 DEF CommandsOf

\* ... the client writes one more ...
LEMMA CommandsWritten ==
    ASSUME NEW c \in Clients, CommandsOf(c), UNCHANGED <<fixed, habit>>,
           Heard' = Heard, tty'.up = tty.up, wrote[c] \in Nat, conn[c].up \in Seq(Byte),
           wrote'[c] = wrote[c] + 1, [to |-> c, n |-> wrote[c] + 1] \in Byte,
           conn'[c].up = Append(conn[c].up, [to |-> c, n |-> wrote[c] + 1]),
           conn[c].server # "closed",
           conn'[c].server = conn[c].server
    PROVE  CommandsOf(c)'
<1>1. PICK place, len \in Nat : HeardAt(c, place, len) /\ Sending(c, place, len)
  BY DEF CommandsOf
<1>2. len <= wrote[c] + 1
  BY <1>1 DEF HeardAt
<1>3. HeardAt(c, place, len)'
  BY <1>1, <1>2 DEF HeardAt
<1> DEFINE u == conn[c].up
<1> DEFINE b == [to |-> c, n |-> wrote[c] + 1]
<1> DEFINE v == Append(u, b)
<1>4. ASSUME tty.up
      PROVE  /\ Len(v) = wrote[c] + 1 - len
             /\ \A k \in 1 .. Len(v) : v[k] = [to |-> c, n |-> len + k]
  <2>1. Len(u) = wrote[c] - len /\ \A k \in 1 .. Len(u) : u[k] = [to |-> c, n |-> len + k]
    BY <1>1, <1>4 DEF Sending
  <2>2. u \in Seq(Byte) /\ b \in Byte /\ Len(u) \in Nat
    BY LenProperties
  <2> HIDE DEF u, b
  <2>3. Len(v) = Len(u) + 1 /\ (\A k \in 1 .. Len(u) : v[k] = u[k]) /\ v[Len(u) + 1] = b
    BY <2>2, AppendProperties
  <2>4. Len(v) = wrote[c] + 1 - len
    BY <1>1, <2>1, <2>3
  <2>5. len + (Len(u) + 1) = wrote[c] + 1
    BY <1>1, <2>1, <2>2
  <2>6. ASSUME NEW k \in 1 .. Len(v) PROVE v[k] = [to |-> c, n |-> len + k]
    <3>1. CASE k = Len(u) + 1
      BY <2>3, <2>5, <3>1 DEF b
    <3>2. CASE k \in 1 .. Len(u)
      BY <2>1, <2>3, <3>2
    <3>3. k = Len(u) + 1 \/ k \in 1 .. Len(u)
      BY <2>2, <2>3
    <3> QED BY <3>1, <3>2, <3>3
  <2> QED BY <2>4, <2>6
<1>5. Sending(c, place, len)'
  <2> DEFINE w == wrote[c] + 1
  <2>1. conn'[c].up = v /\ wrote'[c] = w
    OBVIOUS
  <2> HIDE DEF v
  <2>2. tty.up => Len(v) = w - len /\ \A k \in 1 .. Len(v) : v[k] = [to |-> c, n |-> len + k]
    BY <1>4
  <2> HIDE DEF w
  <2>3. tty'.up => /\ Len(conn'[c].up) = wrote'[c] - len
                   /\ \A k \in 1 .. Len(conn'[c].up) : conn'[c].up[k] = [to |-> c, n |-> len + k]
    BY <2>1, <2>2
  <2>4. /\ conn'[c].server \in {"none", "waiting"} => len = 0
        /\ conn'[c].server = "accepted" /\ tty'.up => len = 0 \/ place + len = Len(Heard')
        /\ conn'[c].server # "closed"
    BY <1>1 DEF Sending
  <2> QED BY <2>3, <2>4 DEF Sending
<1> QED BY <1>1, <1>3, <1>5 DEF CommandsOf

\* ... netuart reads some of them ...
LEMMA CommandsRead ==
    ASSUME NEW c \in Clients, CommandsOf(c), UNCHANGED <<fixed, habit>>,
           tty.up, tty'.up, wrote'[c] = wrote[c], wrote[c] \in Nat,
           Heard \in Seq(Byte), conn[c].up \in Seq(Byte),
           Heard' = Heard \o First(conn[c].up),
           conn'[c].up = SubSeq(conn[c].up, Len(First(conn[c].up)) + 1, Len(conn[c].up)),
           conn[c].server = "accepted", conn'[c].server = "accepted"
    PROVE  CommandsOf(c)'
<1>1. PICK place, len \in Nat : HeardAt(c, place, len) /\ Sending(c, place, len)
  BY DEF CommandsOf
<1> DEFINE u == conn[c].up
<1> DEFINE f == First(u)
<1> DEFINE v == SubSeq(u, Len(f) + 1, Len(u))
<1> DEFINE h == Heard
<1> DEFINE w == wrote[c]
<1> DEFINE hl == Len(h)
<1> DEFINE fl == Len(f)
<1> DEFINE at == IF len = 0 THEN hl ELSE place
<1>2. /\ Len(u) \in Nat /\ f \in Seq(Byte) /\ fl \in 0 .. Len(u)
      /\ \A i \in 1 .. fl : f[i] = u[i]
      /\ Len(v) = Len(u) - fl /\ \A i \in 1 .. Len(u) - fl : v[i] = u[fl + i]
  BY FirstTypes
<1>3. /\ hl \in Nat /\ Len(h \o f) = hl + fl
      /\ \A i \in 1 .. hl + fl : (h \o f)[i] = IF i <= hl THEN h[i] ELSE f[i - hl]
  BY <1>2, LenProperties, ConcatProperties
<1>4. /\ Len(u) = w - len /\ \A k \in 1 .. Len(u) : u[k] = [to |-> c, n |-> len + k]
      /\ len = 0 \/ place + len = hl
  BY <1>1 DEF Sending
<1>5. /\ place + len <= hl /\ len <= w
      /\ \A i \in 1 .. hl : h[i].to = c <=> i \in place + 1 .. place + len
      /\ \A k \in 1 .. len : h[place + k].n = k
  BY <1>1 DEF HeardAt
<1>6. Heard' = h \o f /\ conn'[c].up = v /\ w \in Nat
  OBVIOUS
<1>7. wrote'[c] = w
  OBVIOUS
<1> DEFINE g == h \o f
<1> DEFINE l == len + fl
<1>8. at \in Nat /\ at + len = hl /\ l \in Nat /\ at + l = hl + fl /\ l <= w
  <2> HIDE DEF hl, fl, w, u
  <2> QED BY <1>1, <1>2, <1>3, <1>4, <1>5, <1>6
<1>9. ASSUME NEW i \in 1 .. hl + fl PROVE g[i].to = c <=> i \in at + 1 .. at + l
  <2>1. CASE i <= hl
    <3>1. g[i] = h[i] /\ (h[i].to = c <=> i \in place + 1 .. place + len)
      <4> HIDE DEF h, f
      <4> QED BY <1>3, <1>5, <2>1
    <3>2. i \in place + 1 .. place + len <=> i \in at + 1 .. at + l
      <4> HIDE DEF h, f, hl, fl, u, w
      <4> QED BY <1>1, <1>2, <1>3, <1>4, <1>5, <1>8, <2>1
    <3> QED BY <3>1, <3>2
  <2>2. CASE i > hl
    <3>1. i - hl \in 1 .. fl /\ i - hl \in 1 .. Len(u) /\ ~(i <= hl)
      <4>1. Len(u) \in Nat /\ fl \in 0 .. Len(u) /\ hl \in Nat
        BY <1>2, <1>3
      <4>2. i \in 1 .. hl + fl
        OBVIOUS
      <4> HIDE DEF hl, fl, u
      <4> QED BY <4>1, <4>2, <2>2
    <3>2. g[i] = f[i - hl] /\ f[i - hl] = u[i - hl]
      <4> HIDE DEF h, f, u
      <4> QED BY <1>2, <1>3, <3>1
    <3>3. u[i - hl] = [to |-> c, n |-> len + (i - hl)]
      BY <1>4, <3>1
    <3>4. i \in at + 1 .. at + l
      <4> HIDE DEF hl, fl, u, w
      <4> QED BY <1>1, <1>2, <1>3, <1>8, <2>2
    <3> QED BY <3>2, <3>3, <3>4
  <2>3. i <= hl \/ i > hl
    <3> HIDE DEF hl, fl
    <3> QED BY <1>2, <1>3
  <2> QED BY <2>1, <2>2, <2>3
<1>10. ASSUME NEW k \in 1 .. l PROVE g[at + k].n = k
  <2> HIDE DEF h, f, u, w
  <2>1. CASE k <= len
    <3>1. k \in 1 .. len /\ at = place /\ at + k \in 1 .. hl + fl /\ at + k <= hl
      <4> HIDE DEF hl, fl
      <4> QED BY <1>1, <1>2, <1>3, <1>4, <1>5, <1>8, <2>1
    <3>2. g[at + k] = h[at + k]
      BY <1>3, <3>1
    <3> QED BY <1>5, <3>1, <3>2
  <2>2. CASE k > len
    <3> DEFINE j == k - len
    <3>1. /\ j \in 1 .. fl /\ j \in 1 .. Len(u) /\ at + k \in 1 .. hl + fl
          /\ at + k - hl = j /\ ~(at + k <= hl) /\ len + j = k
      <4> HIDE DEF hl, fl, at
      <4> QED BY <1>1, <1>2, <1>3, <1>8, <2>2
    <3> HIDE DEF j
    <3>2. g[at + k] = f[j]
      <4>1. g[at + k] = IF at + k <= hl THEN h[at + k] ELSE f[at + k - hl]
        BY <1>3, <3>1
      <4>2. at + k - hl = j
        BY <3>1
      <4>3. ~(at + k <= hl)
        BY <3>1
      <4> HIDE DEF g
      <4> QED BY <4>1, <4>2, <4>3
    <3>4. f[j] = u[j]
      BY <1>2, <3>1
    <3>3. u[j] = [to |-> c, n |-> len + j]
      BY <1>4, <3>1
    <3> QED BY <3>1, <3>2, <3>3, <3>4
  <2>3. k <= len \/ k > len
    BY <1>1, <1>8
  <2> QED BY <2>1, <2>2, <2>3
<1>11. Len(v) = w - l /\ \A k \in 1 .. Len(v) : v[k] = [to |-> c, n |-> l + k]
  <2> HIDE DEF u, v, f, w, h
  <2>1. Len(v) = w - l
    BY <1>1, <1>2, <1>4, <1>6
  <2>2. ASSUME NEW k \in 1 .. Len(v) PROVE v[k] = [to |-> c, n |-> l + k]
    <3>1. fl + k \in 1 .. Len(u) /\ k \in 1 .. Len(u) - fl /\ len + (fl + k) = l + k
      BY <1>1, <1>2
    <3> QED BY <1>2, <1>4, <3>1
  <2> QED BY <2>1, <2>2
<1>12. PICK p, q \in Nat : p = at /\ q = l
  <2> HIDE DEF at, l
  <2> QED BY <1>8
<1>13. HeardAt(c, p, q)'
  <2>1. Heard' = g /\ Len(g) = hl + fl
    BY <1>3, <1>6
  <2> HIDE DEF g, at, l, w, hl, fl
  <2>2. p + q <= Len(g)
    BY <1>2, <1>3, <1>8, <1>12, <2>1
  <2>3. \A i \in 1 .. Len(g) : g[i].to = c <=> i \in p + 1 .. p + q
    BY <1>9, <1>12, <2>1
  <2>4. \A k \in 1 .. q : g[p + k].n = k
    BY <1>10, <1>12
  <2> QED BY <1>7, <1>8, <1>12, <2>1, <2>2, <2>3, <2>4 DEF HeardAt
<1>14. Sending(c, p, q)'
  <2>1. Heard' = g /\ Len(g) = hl + fl /\ conn'[c].up = v
    BY <1>3, <1>6
  <2> HIDE DEF g, at, l, w, v, hl, fl
  <2>2. p + q = Len(g)
    BY <1>8, <1>12, <2>1
  <2>3. Len(v) = w - q /\ \A k \in 1 .. Len(v) : v[k] = [to |-> c, n |-> q + k]
    BY <1>11, <1>12
  <2> QED BY <1>7, <2>1, <2>2, <2>3 DEF Sending
<1> QED BY <1>13, <1>14 DEF CommandsOf

\* ... or reads some of another's ...
LEMMA CommandsOfOthers ==
    ASSUME NEW c \in Clients, CommandsOf(c), UNCHANGED <<fixed, habit>>,
           tty'.up = tty.up, wrote'[c] = wrote[c], conn'[c] = conn[c],
           conn[c].server # "accepted", Heard \in Seq(Byte), NEW f \in Seq(Byte),
           Heard' = Heard \o f, \A i \in 1 .. Len(f) : f[i].to # c
    PROVE  CommandsOf(c)'
<1>1. PICK place, len \in Nat : HeardAt(c, place, len) /\ Sending(c, place, len)
  BY DEF CommandsOf
<1> DEFINE h == Heard
<1> DEFINE g == h \o f
<1>2. /\ Len(h) \in Nat /\ Len(f) \in Nat /\ Len(g) = Len(h) + Len(f)
      /\ \A i \in 1 .. Len(h) + Len(f) : g[i] = IF i <= Len(h) THEN h[i] ELSE f[i - Len(h)]
  BY LenProperties, ConcatProperties
<1>3. /\ place + len <= Len(h) /\ len <= wrote[c]
      /\ \A i \in 1 .. Len(h) : h[i].to = c <=> i \in place + 1 .. place + len
      /\ \A k \in 1 .. len : h[place + k].n = k
  BY <1>1 DEF HeardAt
<1>4. Heard' = g
  OBVIOUS
<1> HIDE DEF h, g
<1>5. ASSUME NEW i \in 1 .. Len(g) PROVE g[i].to = c <=> i \in place + 1 .. place + len
  <2>1. CASE i <= Len(h)
    <3>1. i \in 1 .. Len(h) /\ g[i] = h[i]
      BY <1>2, <2>1
    <3> QED BY <1>3, <3>1
  <2>2. CASE ~(i <= Len(h))
    <3>1. i - Len(h) \in 1 .. Len(f) /\ g[i] = f[i - Len(h)] /\ i \notin place + 1 .. place + len
      BY <1>1, <1>2, <1>3, <2>2
    <3> QED BY <3>1
  <2> QED BY <2>1, <2>2
<1>6. ASSUME NEW k \in 1 .. len PROVE g[place + k].n = k
  <2>1. place + k \in 1 .. Len(h) + Len(f) /\ place + k <= Len(h)
    BY <1>1, <1>2, <1>3
  <2> QED BY <1>2, <1>3, <2>1
<1>7. place + len <= Len(g)
  BY <1>1, <1>2, <1>3
<1>8. HeardAt(c, place, len)'
  BY <1>3, <1>4, <1>5, <1>6, <1>7 DEF HeardAt
<1>9. Sending(c, place, len)'
  BY <1>1 DEF Sending
<1> QED BY <1>1, <1>8, <1>9 DEF CommandsOf

\* ... or the plug is pulled.
LEMMA CommandsCut ==
    ASSUME NEW c \in Clients, CommandsOf(c), UNCHANGED <<fixed, habit>>, ~fixed, ~tty'.up,
           wrote'[c] = wrote[c], wrote[c] \in Nat, conn'[c] = conn[c], Heard \in Seq(Byte),
           NEW n \in 0 .. Len(Heard), Heard' = SubSeq(Heard, 1, n)
    PROVE  CommandsOf(c)'
<1>1. PICK place, len \in Nat : HeardAt(c, place, len) /\ Sending(c, place, len)
  BY DEF CommandsOf
<1> DEFINE h == Heard
<1> DEFINE g == SubSeq(h, 1, n)
<1> DEFINE at == IF place <= n THEN place ELSE n
<1> DEFINE l == IF place + len <= n THEN len ELSE IF place <= n THEN n - place ELSE 0
<1>2. /\ Len(h) \in Nat /\ n \in Nat /\ n <= Len(h) /\ Len(g) = n
      /\ \A i \in 1 .. n : g[i] = h[i] /\ i \in 1 .. Len(h)
  <2>1. Len(h) \in Nat
    BY LenProperties
  <2>2. Len(g) = n /\ \A i \in 1 .. n : g[i] = h[i]
    BY Cut
  <2> HIDE DEF g
  <2>3. n \in 0 .. Len(h)
    OBVIOUS
  <2> HIDE DEF h
  <2>4. n \in Nat /\ n <= Len(h) /\ \A i \in 1 .. n : i \in 1 .. Len(h)
    BY <2>1, <2>3
  <2> QED BY <2>1, <2>2, <2>4
<1>3. /\ place + len <= Len(h) /\ len <= wrote[c]
      /\ \A i \in 1 .. Len(h) : h[i].to = c <=> i \in place + 1 .. place + len
      /\ \A k \in 1 .. len : h[place + k].n = k
  BY <1>1 DEF HeardAt
<1>4. Heard' = g
  OBVIOUS
<1> HIDE DEF h, g
<1>5. at \in Nat /\ l \in Nat /\ at + l <= n /\ l <= len /\ (l # 0 => at = place)
      /\ \A i \in 1 .. n : i \in place + 1 .. place + len <=> i \in at + 1 .. at + l
  BY <1>1, <1>2
<1> HIDE DEF at, l
<1>6. \A i \in 1 .. Len(g) : g[i].to = c <=> i \in at + 1 .. at + l
  BY <1>2, <1>3, <1>5
<1>7. ASSUME NEW k \in 1 .. l PROVE g[at + k].n = k
  <2>1. k \in 1 .. len /\ at = place /\ place + k \in 1 .. n
    BY <1>1, <1>2, <1>5
  <2> QED BY <1>2, <1>3, <2>1
<1>8. l <= wrote[c]
  BY <1>1, <1>3, <1>5
<1>9. HeardAt(c, at, l)'
  BY <1>2, <1>4, <1>5, <1>6, <1>7, <1>8 DEF HeardAt
<1>10. len = 0 => l = 0
  BY <1>5
<1>11. Sending(c, at, l)'
  BY <1>1, <1>10 DEF Sending
<1> QED BY <1>5, <1>9, <1>11 DEF CommandsOf

LEMMA StepCommands ==
    ASSUME IInv, [Next]_vars
    PROVE  \A c \in Clients : CommandsOf(c)'
<1>1. Types /\ OneServed /\ Stays /\ Ends /\ UNCHANGED <<fixed, habit>>
      /\ Heard \in Seq(Byte)
      /\ \A c \in Clients : /\ CommandsOf(c) /\ wrote[c] \in Nat /\ c # 0
                            /\ conn[c] \in Conns /\ conn[c].up \in Seq(Byte)
  <2>1. Types /\ OneServed /\ Stays /\ Ends /\ \A c \in Clients : CommandsOf(c)
    BY DEF IInv
  <2>2. \A c \in Clients : wrote[c] \in Nat /\ conn[c] \in Conns /\ c # 0
    BY <2>1, BridgeAssumption, SocketAssumption DEF Types
  <2>3. \A c \in Clients : conn[c].up \in Seq(Byte)
    BY <2>2 DEF Conns
  <2> QED BY <2>1, <2>2, <2>3, ByteStays, HeardType
<1>2. CASE Device
  <2>1. wrote' = wrote /\ conn' = conn
    BY <1>2 DEF Device, llvars
  <2>2. ASSUME NEW c \in Clients PROVE CommandsOf(c)'
    <3>1. CASE Heard' = Heard /\ tty'.up = tty.up
      BY <1>1, <2>1, <3>1, CommandsKept
    <3>2. CASE ~fixed /\ ~tty'.up /\ \E n \in 0 .. Len(Heard) : Heard' = SubSeq(Heard, 1, n)
      BY <1>1, <2>1, <3>2, CommandsCut
    <3> QED BY <1>1, <1>2, <3>1, <3>2, DeviceHears
  <2> QED BY <2>2
<1>3. CASE NetUart
  <2>1. Outcome /\ wrote' = wrote /\ heard' = heard
    BY <1>1, <1>3, NetUartStep DEF NetUart, llvars
  <2>2. tty'.up = tty.up
        /\ Heard' = IF Listens /\ tty.up THEN Heard \o First(conn[confd].up) ELSE Heard
    BY <1>1, <2>1, NetUartHears
  <2>3. conn \in [Clients -> Conns]
    BY <1>1 DEF Types
  <2>4. ASSUME pc \in {"send", "skt"}
        PROVE  confd \in Clients /\ conn[confd].server = "accepted"
               /\ \A c \in Clients : c # confd => conn[c].server # "accepted"
    BY <1>1, <2>4 DEF OneServed, Types
  <2>5. CASE conn' = conn /\ ~Listens
    BY <1>1, <2>1, <2>2, <2>5, CommandsKept
  <2>6. CASE Opens \/ Idles \/ Polls \/ Passes \/ Serves \/ Takes
             \/ \E nw \in 1 .. Len(m_buf) : WritesOut(nw)
    BY <2>5, <2>6 DEF Opens, Idles, Polls, Passes, Serves, Takes, WritesOut, Listens
  <2>7. CASE Exits
    <3>1. ~fixed /\ Heard' = Heard
      BY <1>1, <2>2, <2>7 DEF Exits, Stays
    <3>2. ASSUME NEW c \in Clients PROVE conn'[c] = conn[c] \/ conn'[c].server = "closed"
      <4>1. conn'[c] = IF conn[c].server \in {"waiting", "accepted"} THEN Closed(conn[c]) ELSE conn[c]
        BY <2>7 DEF Exits
      <4>2. Closed(conn[c]).server = "closed"
        BY <1>1 DEF Closed, Conns
      <4> QED BY <4>1, <4>2
    <3>3. ASSUME NEW c \in Clients PROVE CommandsOf(c)'
      <4>1. CASE conn'[c] = conn[c]
        BY <1>1, <2>1, <2>2, <3>1, <4>1, CommandsKept
      <4>2. CASE conn'[c].server = "closed"
        BY <1>1, <2>1, <2>2, <3>1, <4>2, CommandsClosed
      <4> QED BY <3>2, <4>1, <4>2
    <3> QED BY <3>3
  <2>8. CASE \E d \in Clients : Accepts(d)
    <3>1. PICK d \in Clients : Accepts(d)
      BY <2>8
    <3>2. Heard' = Heard
      BY <2>2, <3>1 DEF Accepts, Listens
    <3>3. ASSUME NEW c \in Clients
          PROVE  /\ conn'[c].up = conn[c].up
                 /\ \/ conn'[c].server = conn[c].server
                    \/ conn[c].server = "waiting" /\ conn'[c].server = "accepted"
      BY <1>1, <2>3, <3>1 DEF Accepts, Conns
    <3>4. ASSUME NEW c \in Clients PROVE CommandsOf(c)'
      BY <1>1, <2>1, <2>2, <3>2, <3>3, CommandsKept
    <3> QED BY <3>4
  <2>9. CASE Gives \/ Turns
    <3>1. Heard' = Heard /\ confd \in Clients
      BY <2>2, <2>4, <2>9 DEF Gives, Turns, Listens
    <3>2. ASSUME NEW c \in Clients, c # confd PROVE conn'[c] = conn[c]
      BY <2>3, <2>9, <3>2 DEF Gives, Turns
    <3>3. conn'[confd].up = conn[confd].up /\ conn'[confd].server = conn[confd].server
      <4>1. CASE Gives
        BY <1>1, <2>3, <3>1, <4>1 DEF Gives, Sent, Conns
      <4>2. CASE Turns
        BY <1>1, <2>3, <3>1, <4>2 DEF Turns, Conns
      <4> QED BY <2>9, <4>1, <4>2
    <3>4. ASSUME NEW c \in Clients PROVE CommandsOf(c)'
      BY <1>1, <2>1, <2>2, <3>1, <3>2, <3>3, CommandsKept
    <3> QED BY <3>4
  <2>10. CASE HangsUp
    <3>1. PICK d \in Clients : d = confd
      BY <2>4, <2>10 DEF HangsUp
    <3>2. Heard' = Heard /\ conn[d].server = "accepted"
      BY <2>2, <2>4, <2>10, <3>1 DEF HangsUp, Listens
    <3>3. conn'[d].server = "closed"
      BY <1>1, <2>3, <2>10, <3>1 DEF HangsUp, Closed, Conns
    <3>4. \/ ~fixed \/ habit[d] = "killed"
          \/ tty.up /\ conn[d].up = <<>> /\ conn[d].server # "closed"
      BY <1>1, <2>10, <3>1, <3>2 DEF HangsUp, Ends, Stays
    <3>5. CommandsOf(d)'
      BY <1>1, <2>1, <2>2, <3>2, <3>3, <3>4, CommandsClosed
    <3>6. ASSUME NEW c \in Clients, c # d PROVE CommandsOf(c)'
      <4>1. conn'[c] = conn[c]
        BY <2>3, <2>10, <3>1, <3>6 DEF HangsUp
      <4> QED BY <1>1, <2>1, <2>2, <3>2, <4>1, CommandsKept
    <3> QED BY <3>5, <3>6
  <2>11. CASE Listens
    <3>1. PICK d \in Clients : d = confd
      BY <2>4, <2>11 DEF Listens
    <3>2. First(conn[d].up) \in Seq(Byte) /\ conn[d].server = "accepted"
      BY <1>1, <2>4, <2>11, <3>1, FirstTypes DEF Listens
    <3>3. conn'[d].up = SubSeq(conn[d].up, Len(First(conn[d].up)) + 1, Len(conn[d].up))
          /\ conn'[d].server = "accepted"
      BY <1>1, <2>3, <2>11, <3>1, <3>2 DEF Listens, Conns
    <3>4. ASSUME NEW c \in Clients, c # d PROVE conn'[c] = conn[c] /\ conn[c].server # "accepted"
      BY <2>3, <2>4, <2>11, <3>1, <3>4 DEF Listens
    <3>5. CASE tty.up
      <4>1. Heard' = Heard \o First(conn[d].up) /\ tty'.up
        BY <2>2, <2>11, <3>1, <3>5
      <4>2. CommandsOf(d)'
        BY <1>1, <2>1, <3>2, <3>3, <3>5, <4>1, CommandsRead
      <4>3. ASSUME NEW i \in 1 .. Len(First(conn[d].up)) PROVE First(conn[d].up)[i].to = d
        <5>1. PICK place, len \in Nat : Sending(d, place, len)
          BY <1>1 DEF CommandsOf
        <5>2. \A k \in 1 .. Len(conn[d].up) : conn[d].up[k] = [to |-> d, n |-> len + k]
          BY <3>2, <3>5, <5>1 DEF Sending
        <5> DEFINE u == conn[d].up
        <5>3. u \in Seq(Byte)
          BY <1>1
        <5> HIDE DEF u
        <5>4. i \in 1 .. Len(First(u)) => i \in 1 .. Len(u) /\ First(u)[i] = u[i]
          BY <5>3, FirstTypes
        <5>5. i \in 1 .. Len(conn[d].up) /\ First(conn[d].up)[i] = conn[d].up[i]
          BY <5>4 DEF u
        <5>6. conn[d].up[i] = [to |-> d, n |-> len + i]
          BY <5>2, <5>5
        <5> QED BY <5>5, <5>6
      <4>4. ASSUME NEW c \in Clients, c # d PROVE CommandsOf(c)'
        <5> DEFINE f == First(conn[d].up)
        <5>1. f \in Seq(Byte) /\ Heard' = Heard \o f /\ \A i \in 1 .. Len(f) : f[i].to # c
          BY <3>2, <4>1, <4>3, <4>4
        <5> HIDE DEF f
        <5> QED BY <1>1, <2>1, <2>2, <3>4, <4>4, <5>1, CommandsOfOthers
      <4> QED BY <4>2, <4>4
    <3>6. CASE ~tty.up
      <4>1. Heard' = Heard /\ ~tty'.up
        BY <2>2, <3>6
      <4>2. CommandsOf(d)'
        <5>1. PICK place, len \in Nat : HeardAt(d, place, len) /\ Sending(d, place, len)
          BY <1>1 DEF CommandsOf
        <5>2. HeardAt(d, place, len)'
          BY <2>1, <4>1, <5>1 DEF HeardAt
        <5>3. Sending(d, place, len)'
          BY <3>3, <4>1 DEF Sending
        <5> QED BY <5>1, <5>2, <5>3 DEF CommandsOf
      <4>3. ASSUME NEW c \in Clients, c # d PROVE CommandsOf(c)'
        BY <1>1, <2>1, <2>2, <3>4, <4>1, <4>3, CommandsKept
      <4> QED BY <4>2, <4>3
    <3> QED BY <3>5, <3>6
  <2> QED BY <2>1, <2>6, <2>7, <2>8, <2>9, <2>10, <2>11 DEF Outcome
<1>4. ASSUME NEW d \in Clients, Tool(d) PROVE \A c \in Clients : CommandsOf(c)'
  <2>1. UNCHANGED <<pc, m_buf, heard, tty>>
    BY <1>4 DEF Tool, nuvars
  <2>2. Heard' = Heard
    BY <2>1 DEF Heard
  <2>3. ASSUME NEW c \in Clients, c # d PROVE CommandsOf(c)'
    <3>1. conn'[c] = conn[c] /\ wrote'[c] = wrote[c]
      BY <1>1, <1>4, <2>3, ToolTypes
    <3> QED BY <1>1, <2>1, <2>2, <3>1, CommandsKept
  <2>4. /\ \/ conn'[d].server = conn[d].server
           \/ conn[d].server = "none" /\ conn'[d].server = "waiting"
        /\ \/ conn'[d].up = conn[d].up /\ wrote'[d] = wrote[d]
           \/ /\ conn[d].server # "closed" /\ wrote'[d] = wrote[d] + 1
              /\ conn'[d].up = Append(conn[d].up, [to |-> d, n |-> wrote[d] + 1])
    BY <1>1, <1>4, ToolEffect
  <2>5. CASE conn'[d].up = conn[d].up /\ wrote'[d] = wrote[d]
    <3>1. CommandsOf(d)'
      BY <1>1, <2>1, <2>2, <2>4, <2>5, CommandsKept
    <3> QED BY <2>3, <3>1
  <2>6. CASE /\ conn[d].server # "closed" /\ wrote'[d] = wrote[d] + 1
             /\ conn'[d].up = Append(conn[d].up, [to |-> d, n |-> wrote[d] + 1])
    <3>1. [to |-> d, n |-> wrote[d] + 1] \in Byte
      <4>1. wrote'[d] \in 0 .. Commands
        BY <1>1, <1>4, ToolTypes
      <4>2. wrote[d] + 1 \in 1 .. Commands + unasked
        <5>1. unasked \in Nat
          BY <1>1 DEF Types
        <5> DEFINE w == wrote[d]
        <5>2. w \in Nat /\ w + 1 \in 0 .. Commands
          BY <1>1, <2>6, <4>1
        <5> HIDE DEF w
        <5>3. w + 1 \in 1 .. Commands + unasked
          BY <5>1, <5>2, BridgeAssumption
        <5> QED BY <5>3 DEF w
      <4> QED BY <4>2 DEF Byte
    <3>2. CASE conn'[d].server = conn[d].server
      <4>1. CommandsOf(d)'
        BY <1>1, <2>1, <2>2, <2>6, <3>1, <3>2, CommandsWritten
      <4> QED BY <2>3, <4>1
    <3>3. CASE conn'[d].server # conn[d].server
      <4>1. Write(d)
        <5>1. wrote' # wrote
          BY <1>1, <2>6
        <5> QED BY <1>4, <5>1 DEF Tool, ToolStep, Connect, Read, Shutdown, Drain, Killed
      <4>2. conn'[d].server = conn[d].server
        <5> DEFINE b == Append(conn[d].up, [to |-> d, n |-> wrote[d] + 1])
        <5>1. conn' = [conn EXCEPT ![d] = [conn[d] EXCEPT !.up = b]] \/ conn' = conn
          BY <4>1 DEF Write
        <5>2. conn \in [Clients -> Conns]
          BY <1>1 DEF Types
        <5> HIDE DEF b
        <5> QED BY <1>1, <5>1, <5>2 DEF Conns
      <4> QED BY <3>3, <4>2
    <3> QED BY <3>2, <3>3
  <2> QED BY <2>4, <2>5, <2>6
<1>5. CASE UNCHANGED vars
  <2>1. UNCHANGED <<conn, wrote, pc, m_buf, heard, tty>>
    BY <1>5 DEF vars, nuvars, llvars
  <2>2. Heard' = Heard
    BY <2>1 DEF Heard
  <2> QED BY <1>1, <2>1, <2>2, CommandsKept
<1> QED BY <1>2, <1>3, <1>4, <1>5 DEF Next

-----------------------------------------------------------------------------
(* The invariant, and what it says of the runs' properties.                   *)

LEMMA InitIInv == Init => IInv
<1> SUFFICES ASSUME Init PROVE IInv OBVIOUS
<1>1. Types
  BY InitTypes
<1>2. /\ conn = [c \in Clients |-> Unconnected] /\ tool = [c \in Clients |-> "idle"]
      /\ wrote = [c \in Clients |-> 0] /\ taken = [c \in Clients |-> <<>>]
      /\ pc = "start" /\ con = 0 /\ confd = 0 /\ m_connected = FALSE /\ m_buf = <<>>
      /\ tty = [up |-> TRUE, in |-> <<>>, out |-> <<>>] /\ heard = <<>> /\ said = <<>>
      /\ accepted_at = [c \in Clients |-> 0] /\ served_from = [c \in Clients |-> 0]
  BY DEF Init, LLInit, NuInit
<1>3. ASSUME NEW c \in Clients
      PROVE  /\ conn[c] = Unconnected /\ conn[c].server = "none" /\ conn[c].down = <<>>
             /\ conn[c].up = <<>> /\ conn[c].gone = FALSE /\ conn[c].reset = FALSE
             /\ tool[c] = "idle" /\ wrote[c] = 0 /\ taken[c] = <<>>
             /\ accepted_at[c] = 0 /\ served_from[c] = 0
  BY <1>2 DEF Unconnected
<1>4. <<>> \in Seq(Byte) /\ Len(<<>>) = 0 /\ <<>> \o <<>> = <<>>
  <2>1. <<>> \in Seq(Byte) /\ Len(<<>>) = 0
    BY EmptySeq
  <2> QED BY <2>1, ConcatEmptySeq
<1>5. tty.up /\ tty.in = <<>> /\ tty.out = <<>>
  BY <1>2
<1>6. OneServed /\ Stays /\ Ends
  BY <1>2, <1>3, <1>5 DEF OneServed, Stays, Ends
<1>7. At(<<>>, said, 0)
  BY <1>2, <1>4 DEF At
<1>8. Waits
  BY <1>2, <1>4, <1>5, <1>7 DEF Waits
<1>9. ASSUME NEW c \in Clients PROVE Received(c) = <<>> /\ Given(c) = <<>>
  BY <1>2, <1>3, <1>4 DEF Received, Given
<1>10. Follows
  BY <1>2, <1>3, <1>4, <1>5, <1>7, <1>9 DEF Follows
<1>11. Flushed
  BY <1>2, <1>3, <1>4, <1>9 DEF Flushed
<1>12. Heard = <<>>
  BY <1>2, <1>4, <1>5 DEF Heard
<1>13. ASSUME NEW c \in Clients PROVE CommandsOf(c)
  <2> DEFINE none == 0
  <2>1. none \in Nat /\ Len(Heard) = none /\ Len(conn[c].up) = none /\ wrote[c] = none
        /\ none + none = none /\ none - none = none /\ 1 .. none = {} /\ none <= none
        /\ none + 1 .. none + none = {}
    <3>1. Len(Heard) = 0 /\ Len(conn[c].up) = 0 /\ wrote[c] = 0
      BY <1>3, <1>4, <1>12
    <3>2. 0 \in Nat /\ 0 + 0 = 0 /\ 0 - 0 = 0 /\ 1 .. 0 = {} /\ 0 <= 0 /\ 0 + 1 .. 0 + 0 = {}
      OBVIOUS
    <3> QED BY <3>1, <3>2, Zenon
  <2> HIDE DEF none
  <2>2. HeardAt(c, none, none)
    BY <2>1 DEF HeardAt
  <2>3. Sending(c, none, none)
    BY <1>3, <2>1 DEF Sending
  <2> QED BY <2>1, <2>2, <2>3 DEF CommandsOf
<1> QED BY <1>1, <1>6, <1>8, <1>10, <1>11, <1>13 DEF IInv

LEMMA StepIInv == IInv /\ [Next]_vars => IInv'
<1> SUFFICES ASSUME IInv, [Next]_vars PROVE IInv' OBVIOUS
<1>1. (\A c \in Clients : CommandsOf(c))'
  BY StepCommands
<1> QED BY <1>1, StepTypes, StepOneServed, StepStays, StepEnds, StepWaits, StepFollows,
           StepFlushed DEF IInv

\* In every run of the model the inductive invariant holds.
THEOREM Invariant == Spec => []IInv
<1>1. Init => IInv
  BY InitIInv
<1>2. IInv /\ [Next]_vars => IInv'
  BY StepIInv
<1> QED BY <1>1, <1>2, PTL DEF Spec

\* netuart ends only when the TTY is gone (netuart.cpp:134-243): no client's way of
\* leaving takes it down, and no read of the TTY that poll has promised comes back empty.
THEOREM Serving == Spec => []KeepsServing
<1>1. IInv => KeepsServing
  BY DEF IInv, Stays, KeepsServing
<1> QED BY <1>1, Invariant, PTL

\* What the device had said before a client was accepted was thrown away by the flush
\* (netuart.cpp:422-424) and reaches no client.
THEOREM Flush == Spec => []FlushedBefore
<1>1. IInv => FlushedBefore
  <2> SUFFICES ASSUME IInv, NEW c \in Clients, confd = c \/ taken[c] # <<>>
               PROVE  served_from[c] >= accepted_at[c]
    BY DEF FlushedBefore
  <2>1. Types /\ Flushed
    BY DEF IInv
  <2>2. taken[c] # <<>> => Received(c) # <<>>
    <3> DEFINE t == taken[c]
    <3> DEFINE d == conn[c].down
    <3>1. t \in Seq(Byte) /\ d \in Seq(Byte)
      BY <2>1 DEF Types, Conns
    <3> HIDE DEF t, d
    <3>2. t \o d = <<>> => t = <<>>
      BY <3>1, ConcatEqualIffEmpty
    <3> QED BY <3>2 DEF t, d, Received
  <2> QED BY <2>1, <2>2 DEF Flushed
<1> QED BY <1>1, Invariant, PTL

\* A tool that closes in good order, behind a TTY that stays, has had every command it
\* wrote delivered: netuart closes a connection only after the read that finds its end
\* (netuart.cpp:204-213), however late the reset or the hang-up is seen.
THEOREM Delivered == Spec => []NoCommandDropped
<1>1. IInv => NoCommandDropped
  <2> SUFFICES ASSUME IInv, NEW c \in Clients, conn[c].server = "closed",
                      habit[c] # "killed", fixed, NEW k \in 1 .. wrote[c]
               PROVE  \E i \in DOMAIN Heard : Heard[i] = [to |-> c, n |-> k]
    BY DEF NoCommandDropped
  <2>1. Types /\ CommandsOf(c)
    BY DEF IInv
  <2>2. PICK place, len \in Nat : HeardAt(c, place, len) /\ Sending(c, place, len)
    BY <2>1 DEF CommandsOf
  <2>3. len = wrote[c] /\ k \in Nat
    BY <2>2 DEF Sending
  <2>4. Heard \in Seq(Byte) /\ Len(Heard) \in Nat
    BY <2>1, HeardType
  <2>5. place + k \in 1 .. Len(Heard) /\ place + k \in place + 1 .. place + len
    BY <2>2, <2>3, <2>4 DEF HeardAt
  <2>6. Heard[place + k].to = c /\ Heard[place + k].n = k
    BY <2>2, <2>3, <2>5 DEF HeardAt
  <2>7. Heard[place + k] \in Byte /\ place + k \in DOMAIN Heard
    BY <2>4, <2>5, ElementOfSeq, LenProperties
  <2>8. Heard[place + k] = [to |-> c, n |-> k]
    BY <2>6, <2>7 DEF Byte
  <2> QED BY <2>7, <2>8
<1> QED BY <1>1, Invariant, PTL

\* What the device hears of a client is the client's commands, whole, in order and from
\* the first on, with nothing of another's between them (the loop at netuart.cpp:219-239).
THEOREM Whole == Spec => []CommandsWhole
<1>1. IInv => CommandsWhole
  <2> SUFFICES ASSUME IInv, NEW c \in Clients
               PROVE  \E place \in 0 .. Len(Heard), len \in 0 .. wrote[c] :
                        /\ Hears(c, place, len)
                        /\ \/ conn[c].server = "closed" \/ pc = "exited" \/ ~tty.up
                           \/ conn[c].up = Rest(c, len)
    BY DEF CommandsWhole
  <2>1. Types /\ CommandsOf(c) /\ wrote[c] \in Nat /\ conn[c].up \in Seq(Byte)
    <3>1. Types /\ CommandsOf(c)
      BY DEF IInv
    <3>2. conn[c] \in Conns /\ wrote[c] \in Nat
      BY <3>1, BridgeAssumption DEF Types
    <3> QED BY <3>1, <3>2 DEF Conns
  <2>2. PICK place, len \in Nat : HeardAt(c, place, len) /\ Sending(c, place, len)
    BY <2>1 DEF CommandsOf
  <2>3. Heard \in Seq(Byte) /\ Len(Heard) \in Nat /\ DOMAIN Heard = 1 .. Len(Heard)
    BY <2>1, HeardType, LenProperties
  <2>4. place \in 0 .. Len(Heard) /\ len \in 0 .. wrote[c]
    BY <2>1, <2>2, <2>3 DEF HeardAt
  <2>5. Hears(c, place, len)
    <3>1. {i \in 1 .. Len(Heard) : Heard[i].to = c} = place + 1 .. place + len
      <4>1. \A i \in place + 1 .. place + len : i \in 1 .. Len(Heard)
        BY <2>2, <2>3 DEF HeardAt
      <4> QED BY <2>2, <4>1 DEF HeardAt
    <3> QED BY <2>2, <2>3, <3>1 DEF Hears, HeardAt
  <2>6. conn[c].server # "closed" /\ tty.up => conn[c].up = Rest(c, len)
    <3> SUFFICES ASSUME conn[c].server # "closed", tty.up PROVE conn[c].up = Rest(c, len)
      OBVIOUS
    <3> DEFINE u == conn[c].up
    <3> DEFINE w == wrote[c] - len
    <3>1. Len(u) = w /\ \A k \in 1 .. w : u[k] = [to |-> c, n |-> len + k]
      BY <2>2 DEF Sending
    <3>2. u \in Seq(Byte)
      BY <2>1
    <3> HIDE DEF u, w
    <3>3. u = [k \in 1 .. Len(u) |-> u[k]]
      BY <3>2, LenProperties
    <3>4. u = [k \in 1 .. w |-> [to |-> c, n |-> len + k]]
      BY <3>1, <3>3
    <3> QED BY <3>4 DEF u, w, Rest
  <2> QED BY <2>4, <2>5, <2>6
<1> QED BY <1>1, Invariant, PTL

\* What a client has received, is about to and will next is what the device said from
\* the moment its service began: nothing is lost, doubled, reordered or kept back
\* (check_incoming's first half, netuart.cpp:153-196).
THEOREM Answering == Spec => []AnswersWhole
<1>1. IInv => AnswersWhole
  <2> SUFFICES ASSUME IInv, NEW c \in Clients
               PROVE  LET due == SubSeq(said, served_from[c] + 1, Len(said))
                      IN IF confd = c /\ ~conn[c].gone /\ tty.up /\ pc # "exited"
                         THEN Received(c) \o Underway(c) = due
                         ELSE conn[c].server # "none" /\ Received(c) # <<>> =>
                                IsPrefix(Received(c), due)
    BY DEF AnswersWhole
  <2>1. Types /\ OneServed /\ Waits /\ Follows
    BY DEF IInv
  <2> DEFINE from == served_from[c]
  <2> DEFINE due == SubSeq(said, from + 1, Len(said))
  <2> DEFINE r == Received(c)
  <2> DEFINE m == IF pc = "send" /\ confd = c /\ ~conn[c].gone THEN m_buf ELSE <<>>
  <2> DEFINE i == tty.in
  <2>2. /\ said \in Seq(Byte) /\ from \in Nat /\ r \in Seq(Byte) /\ m \in Seq(Byte)
        /\ i \in Seq(Byte) /\ Len(said) \in Nat /\ Len(r) \in Nat /\ Len(m) \in Nat /\ Len(i) \in Nat
    <3>1. said \in Seq(Byte) /\ from \in Nat /\ taken[c] \in Seq(Byte)
          /\ conn[c].down \in Seq(Byte) /\ m_buf \in Seq(Byte) /\ i \in Seq(Byte)
      BY <2>1 DEF Types, Conns
    <3>2. r \in Seq(Byte)
      BY <3>1, ConcatProperties DEF Received
    <3>3. m \in Seq(Byte)
      BY <3>1, EmptySeq
    <3> HIDE DEF r, m, i, from
    <3> QED BY <3>1, <3>2, <3>3, LenProperties
  <2>3. Given(c) = r \o m /\ At(r \o m, said, from)
    BY <2>1 DEF Follows, Given
  <2>4. At(r, said, from) /\ At(m, said, from + Len(r))
    <3> HIDE DEF r, m, from
    <3> QED BY <2>2, <2>3, AtJoin
  <2>5. ASSUME confd = c, ~conn[c].gone, tty.up
        PROVE  r \o Underway(c) = due
    <3>1. Underway(c) = m \o i
      BY <2>5 DEF Underway
    <3>2. from + Len(r \o m) + Len(i) = Len(said)
      BY <2>1, <2>3, <2>5 DEF Follows
    <3>3. At(i, said, Len(said) - Len(i))
      BY <2>1 DEF Waits
    <3> HIDE DEF r, m, i, from
    <3>4. r \o m \in Seq(Byte) /\ Len(r \o m) = Len(r) + Len(m)
      BY <2>2, ConcatProperties
    <3>5. Len(said) - Len(i) = from + Len(r \o m)
      BY <2>2, <3>2, <3>4
    <3>6. At((r \o m) \o i, said, from)
      BY <2>2, <2>3, <3>3, <3>4, <3>5, AtJoin
    <3>7. (r \o m) \o i \in Seq(Byte) /\ Len((r \o m) \o i) = Len(r) + Len(m) + Len(i)
          /\ (r \o m) \o i = r \o (m \o i)
      <4>1. Regroups(r, m, i)
        BY <2>2, Grouping
      <4>2. (r \o m) \o i \in Seq(Byte) /\ Len((r \o m) \o i) = Len(r) + Len(m) + Len(i)
        BY <2>2, <3>4, ConcatProperties
      <4> QED BY <4>1, <4>2 DEF Regroups
    <3>8. (r \o m) \o i = due
      <4> DEFINE a == (r \o m) \o i
      <4>1. a \in Seq(Byte) /\ from + Len(a) = Len(said) /\ At(a, said, from)
        BY <2>2, <3>2, <3>4, <3>6, <3>7
      <4> HIDE DEF a
      <4>2. a = SubSeq(said, from + 1, from + Len(a))
        BY <2>2, <4>1, AtWhole
      <4> QED BY <4>1, <4>2 DEF a
    <3> QED BY <3>1, <3>7, <3>8
  <2>6. IsPrefix(r, due)
    <3> HIDE DEF r, from
    <3>1. SubSeq(due, 1, Len(r)) = r
      BY <2>2, <2>4, AtWhole
    <3>2. from \in 0 .. Len(said) /\ from + Len(r) <= Len(said)
      BY <2>2, <2>4 DEF At
    <3>3. due \in Seq(Byte) /\ Len(due) = Len(said) - from
      BY <2>2, <3>2, Cut
    <3> HIDE DEF due
    <3>4. Len(r) <= Len(due)
      BY <2>2, <3>2, <3>3
    <3>5. SubSeq(r, 1, Len(r)) = r
      BY <2>2, SubSeqFull
    <3> QED BY <3>1, <3>4, <3>5 DEF IsPrefix
  <2> QED BY <2>5, <2>6 DEF from, due, r
<1> QED BY <1>1, Invariant, PTL

-------------------------------------------------------------------------------
(* How full the buffers get, and whose answers a tool that waits for them gets. *)

\* The buffers.
Bounds ==
    /\ m_ilen \in 0 .. LineSize - 2 /\ m_olen \in 0 .. LineSize - 2
    /\ Len(m_buf) <= Chunk /\ Len(tty.out) <= TtyBuf
    /\ \A c \in Clients : Len(conn[c].up) <= SockBuf /\ Len(conn[c].down) <= SockBuf

Patient == \A c \in Clients : habit[c] = "patient"
AllOf(s, S) == \A i \in 1 .. Len(s) : s[i].to \in S

\* What the device has heard and has yet to answer.
Unanswered == SubSeq(heard, answered + 1, Len(heard))

\* Whose bytes may be on the TTY or with the device: those of the client in service.
Own == IF m_connected THEN {0, confd} ELSE {0}

\* The rest is about patient tools behind a TTY that is there.
Idle == pc \notin {"send", "write", "exited"} => m_buf = <<>>
Ready == pc \in {"tty", "send", "skt"} /\ revents.skt => confd = 0 \/ Readable(confd)
Unplugged == pc = "exited" => ~tty.up

\* A tool leaves, or its connection ends, when it has asked all and has its answers.
Finished ==
    Patient /\ tty.up => \A c \in Clients :
      /\ conn[c].upfin \/ conn[c].server = "closed" => tool[c] \in {"closing", "left"}
      /\ tool[c] \in {"closing", "left"} => wrote[c] = Commands /\ Outstanding(c) <= 0

\* No byte is where only another client's may be.
Owned ==
    Patient =>
      /\ pc = "send" \/ (pc = "write" /\ tty.up) => AllOf(m_buf, {0, confd})
      /\ \A c \in Clients : AllOf(Received(c), {0, c})
      /\ tty.up => AllOf(tty.in, Own) /\ AllOf(tty.out, Own) /\ AllOf(Unanswered, Own)

\* A command, or its answer, is at one place.
Around(b) == Count(m_buf, b) + Count(tty.out, b) + Count(Unanswered, b) + Count(tty.in, b)
Once == Patient /\ tty.up => \A b \in Byte : b.to # 0 =>
          Count(conn[b.to].up, b) + Around(b) + Count(Received(b.to), b)
            = IF b.n <= wrote[b.to] THEN 1 ELSE 0

AInv == IInv /\ Idle /\ Ready /\ Unplugged /\ Finished /\ Owned /\ Once
-----------------------------------------------------------------------------
(* What netuart does to the queue it reads, and to the end of a connection.   *)

LEMMA UpStays ==
    ASSUME Types, OneServed, Outcome, NEW c \in Clients
    PROVE  /\ conn'[c].upfin = conn[c].upfin
           /\ conn[c].reset => conn'[c].reset
           /\ \/ conn'[c].up = conn[c].up /\ ~(Listens /\ confd = c)
              \/ Exits /\ conn'[c].up = <<>>
              \/ HangsUp /\ confd = c /\ conn'[c].up = <<>>
              \/ /\ Listens /\ confd = c
                 /\ conn'[c].up = SubSeq(conn[c].up, Len(First(conn[c].up)) + 1, Len(conn[c].up))
           /\ conn'[c].server = "closed" =>
                conn[c].server = "closed" \/ Exits \/ (HangsUp /\ confd = c)
<1>1. conn[c] \in Conns /\ conn \in [Clients -> Conns]
  BY DEF Types
<1>2. CASE conn'[c] = conn[c] /\ ~Listens
  BY <1>2
<1>3. Closed(conn[c]).up = <<>> /\ Closed(conn[c]).upfin = conn[c].upfin
      /\ Closed(conn[c]).reset = conn[c].reset
  BY <1>1 DEF Closed, Conns
<1>4. CASE Exits
  <2>1. conn'[c] = Closed(conn[c]) \/ conn'[c] = conn[c]
    BY <1>4 DEF Exits
  <2>2. ~Listens
    BY <1>4 DEF Exits, Listens
  <2> QED BY <1>3, <1>4, <2>1, <2>2
<1>5. CASE HangsUp
  <2>1. conn'[c] = conn[c] \/ (confd = c /\ conn'[c] = Closed(conn[c]))
    BY <1>1, <1>5 DEF HangsUp
  <2>2. ~Listens
    BY <1>5 DEF HangsUp, Listens
  <2> QED BY <1>3, <1>5, <2>1, <2>2
<1>6. CASE \E d \in Clients : Accepts(d)
  <2>1. conn'[c] = [conn[c] EXCEPT !.server = "accepted"] \/ conn'[c] = conn[c]
    <3>1. PICK d \in Clients : Accepts(d)
      BY <1>6
    <3> QED BY <1>1, <3>1 DEF Accepts
  <2>2. ~Listens
    BY <1>6 DEF Accepts, Listens
  <2> QED BY <1>1, <2>1, <2>2 DEF Conns
<1>7. CASE Listens
  <2> DEFINE u == SubSeq(conn[c].up, Len(First(conn[c].up)) + 1, Len(conn[c].up))
  <2>1. CASE confd = c
    <3>1. conn' = [conn EXCEPT ![c] = [conn[c] EXCEPT !.up = u]]
      BY <1>7, <2>1 DEF Listens
    <3> HIDE DEF u
    <3>2. conn'[c] = [conn[c] EXCEPT !.up = u]
      BY <1>1, <3>1
    <3>3. conn'[c].up = u /\ conn'[c].upfin = conn[c].upfin /\ conn'[c].reset = conn[c].reset
          /\ conn'[c].server = conn[c].server
      BY <1>1, <3>2 DEF Conns
    <3> QED BY <1>7, <2>1, <3>3 DEF u
  <2>2. CASE confd # c
    <3>1. conn'[c] = conn[c]
      BY <1>1, <1>7, <2>2 DEF Listens
    <3> QED BY <2>2, <3>1
  <2> QED BY <2>1, <2>2
<1>8. CASE Turns
  <2>1. PICK e \in BOOLEAN : conn' = [conn EXCEPT ![confd].err = e]
    BY <1>8 DEF Turns
  <2>2. conn'[c] = conn[c] \/ conn'[c] = [conn[c] EXCEPT !.err = e]
    BY <1>1, <2>1
  <2>3. ~Listens
    BY <1>8 DEF Turns, Listens
  <2> QED BY <1>1, <2>2, <2>3 DEF Conns
<1>9. CASE Gives
  <2>1. conn' = [conn EXCEPT ![confd] = Sent(conn[confd], m_buf)] /\ ~Listens
    BY <1>9 DEF Gives, Listens
  <2>2. conn'[c] = conn[c] \/ conn'[c] = Sent(conn[c], m_buf)
    BY <1>1, <2>1
  <2>3. Sent(conn[c], m_buf).up = conn[c].up /\ Sent(conn[c], m_buf).upfin = conn[c].upfin
        /\ (conn[c].reset => Sent(conn[c], m_buf).reset)
        /\ Sent(conn[c], m_buf).server = conn[c].server
    BY <1>1 DEF Sent, Conns
  <2> QED BY <2>1, <2>2, <2>3
<1>10. (conn' = conn /\ ~Listens) \/ Exits \/ HangsUp \/ (\E d \in Clients : Accepts(d)) \/ Listens
       \/ Turns \/ Gives
  BY DEF Outcome, Opens, Idles, Polls, Passes, Serves, Takes, WritesOut, Listens
<1> QED BY <1>2, <1>4, <1>5, <1>6, <1>7, <1>8, <1>9, <1>10
-----------------------------------------------------------------------------
(* How full the buffers get.                                                  *)

LEMMA LineAfterType ==
    ASSUME NEW len \in 0 .. LineSize - 2, NEW b
    PROVE  LineAfter(len, b) \in 0 .. LineSize - 2
BY NetUartAssumption DEF LineAfter

\* The line buffer after so many bytes is a function of their number, and in range.
LEMMA LinesAfterType ==
    ASSUME NEW len \in 0 .. LineSize - 2, NEW bytes, Len(bytes) \in Nat
    PROVE  LinesAfter(len, bytes) \in 0 .. LineSize - 2
<1> DEFINE R == 0 .. LineSize - 2
<1> DEFINE Is(f, n) == f = [i \in 0 .. n |-> IF i = 0 THEN len ELSE LineAfter(f[i - 1], bytes[i])]
<1> DEFINE S == {n \in Nat : \E f : Is(f, n)}
<1>1. 0 \in S
  <2> DEFINE f == [i \in 0 .. 0 |-> len]
  <2>1. Is(f, 0)
    OBVIOUS
  <2> HIDE DEF f
  <2> QED BY <2>1
<1>2. ASSUME NEW n \in S PROVE n + 1 \in S
  <2>1. PICK f : Is(f, n)
    OBVIOUS
  <2>2. n \in Nat
    OBVIOUS
  <2> DEFINE g == [i \in 0 .. n + 1 |-> IF i = n + 1 THEN LineAfter(f[n], bytes[n + 1]) ELSE f[i]]
  <2>3. ASSUME NEW i \in 0 .. n + 1
        PROVE  g[i] = IF i = 0 THEN len ELSE LineAfter(g[i - 1], bytes[i])
    <3>1. CASE i = n + 1
      <4>1. g[i] = LineAfter(f[n], bytes[n + 1]) /\ g[i - 1] = f[n] /\ i # 0
        BY <2>2, <3>1
      <4> QED BY <3>1, <4>1
    <3>2. CASE i # n + 1
      <4>1. i \in 0 .. n /\ g[i] = f[i] /\ (i # 0 => g[i - 1] = f[i - 1])
        BY <2>2, <3>2
      <4>2. f[i] = IF i = 0 THEN len ELSE LineAfter(f[i - 1], bytes[i])
        BY <2>1, <4>1
      <4> QED BY <4>1, <4>2
    <3> QED BY <3>1, <3>2
  <2>4. Is(g, n + 1)
    <3>1. g = [i \in 0 .. n + 1 |-> g[i]]
      OBVIOUS
    <3> HIDE DEF g
    <3> QED BY <2>3, <3>1
  <2> HIDE DEF g
  <2> QED BY <2>2, <2>4
<1>3. S = Nat
  <2>1. S \subseteq Nat
    OBVIOUS
  <2> HIDE DEF S
  <2> QED BY <1>1, <1>2, <2>1, Induction
<1> DEFINE after == CHOOSE f : Is(f, Len(bytes))
<1>4. Is(after, Len(bytes))
  <2>1. Len(bytes) \in S
    <3> HIDE DEF S
    <3> QED BY <1>3
  <2> HIDE DEF Is
  <2> QED BY <2>1
<1>5. LinesAfter(len, bytes) = after[Len(bytes)]
  BY DEF LinesAfter
<1> HIDE DEF after, S
<1> DEFINE T == {n \in Nat : n <= Len(bytes) => after[n] \in R}
<1>6. 0 \in T
  BY <1>4
<1>7. ASSUME NEW n \in T PROVE n + 1 \in T
  <2> SUFFICES ASSUME n + 1 <= Len(bytes) PROVE after[n + 1] \in R
    OBVIOUS
  <2>1. n + 1 \in 0 .. Len(bytes) /\ n + 1 # 0 /\ n + 1 - 1 = n /\ after[n] \in R
    OBVIOUS
  <2>2. after[n + 1] = LineAfter(after[n], bytes[n + 1])
    BY <1>4, <2>1
  <2> QED BY <2>1, <2>2, LineAfterType
<1>8. Len(bytes) \in T
  <2>1. T \subseteq Nat
    OBVIOUS
  <2> HIDE DEF T
  <2>2. T = Nat
    BY <1>6, <1>7, <2>1, Induction
  <2> QED BY <2>2
<1> QED BY <1>5, <1>8

LEMMA InitBounds == Init => Bounds
<1> SUFFICES ASSUME Init PROVE Bounds OBVIOUS
<1>1. Len(<<>>) = 0
  OBVIOUS
<1>2. \A c \in Clients : conn[c].up = <<>> /\ conn[c].down = <<>>
  BY DEF Init, Unconnected
<1> QED BY <1>1, <1>2, NetUartAssumption, SocketAssumption DEF Init, NuInit, Bounds

\* What netuart and the tools do to the queues of a connection, in length.
LEMMA ToolFills ==
    ASSUME Types, Bounds, NEW c \in Clients, Tool(c)
    PROVE  Len(conn'[c].up) <= SockBuf /\ Len(conn'[c].down) <= SockBuf
<1>1. conn[c] \in Conns /\ conn \in [Clients -> Conns]
      /\ conn[c].up \in Seq(Byte) /\ conn[c].down \in Seq(Byte)
      /\ Len(conn[c].up) \in Nat /\ Len(conn[c].down) \in Nat /\ SockBuf \in Nat
      /\ Len(conn[c].up) <= SockBuf /\ Len(conn[c].down) <= SockBuf /\ Len(<<>>) = 0
  <2>1. conn[c] \in Conns /\ conn \in [Clients -> Conns]
    BY DEF Types
  <2>2. conn[c].up \in Seq(Byte) /\ conn[c].down \in Seq(Byte)
    BY <2>1 DEF Conns
  <2> QED BY <2>1, <2>2, LenProperties, SocketAssumption DEF Bounds
<1>2. CASE conn'[c] = conn[c]
  BY <1>1, <1>2
<1>3. CASE conn'[c] = [conn[c] EXCEPT !.server = "waiting"]
           \/ conn'[c] = [conn[c] EXCEPT !.upfin = TRUE]
  BY <1>1, <1>3 DEF Conns
<1>4. CASE conn'[c] = Gone(conn[c]) \/ conn'[c] = [conn[c] EXCEPT !.down = <<>>]
  <2>1. conn'[c].up = conn[c].up /\ conn'[c].down = <<>>
    BY <1>1, <1>4 DEF Conns, Gone
  <2> QED BY <1>1, <2>1
<1>5. CASE conn[c].down # <<>> /\ conn'[c] = [conn[c] EXCEPT !.down = Tail(conn[c].down)]
  <2>1. conn'[c].up = conn[c].up /\ conn'[c].down = Tail(conn[c].down)
    BY <1>1, <1>5 DEF Conns
  <2>2. Len(Tail(conn[c].down)) = Len(conn[c].down) - 1
    BY <1>1, <1>5, HeadTailProperties
  <2> QED BY <1>1, <2>1, <2>2
<1>6. ASSUME NEW b, Len(conn[c].up) < SockBuf, conn'[c] = [conn[c] EXCEPT !.up = Append(conn[c].up, b)]
      PROVE  Len(conn'[c].up) <= SockBuf /\ Len(conn'[c].down) <= SockBuf
  <2>1. conn'[c].up = Append(conn[c].up, b) /\ conn'[c].down = conn[c].down
    BY <1>1, <1>6 DEF Conns
  <2>2. Len(Append(conn[c].up, b)) = Len(conn[c].up) + 1
    BY <1>1
  <2> QED BY <1>1, <1>6, <2>1, <2>2
<1>7. CASE Connect(c, pc # "exited") \/ Shutdown(c) \/ Drain(c) \/ Killed(c)
  BY <1>1, <1>2, <1>3, <1>4, <1>7 DEF Connect, Shutdown, Drain, Killed
<1>8. CASE Read(c)
  BY <1>1, <1>2, <1>5, <1>8 DEF Read, Answers
<1>9. CASE Write(c)
  BY <1>1, <1>2, <1>6, <1>9 DEF Write
<1> QED BY <1>7, <1>8, <1>9 DEF Tool, ToolStep

LEMMA NetUartFills ==
    ASSUME Types, OneServed, Bounds, Outcome, NEW c \in Clients
    PROVE  Len(conn'[c].up) <= SockBuf /\ Len(conn'[c].down) <= SockBuf
<1>1. conn[c] \in Conns /\ conn \in [Clients -> Conns] /\ m_buf \in Seq(Byte)
      /\ conn[c].up \in Seq(Byte) /\ conn[c].down \in Seq(Byte)
      /\ Len(conn[c].up) \in Nat /\ Len(conn[c].down) \in Nat /\ SockBuf \in Nat
      /\ Len(conn[c].up) <= SockBuf /\ Len(conn[c].down) <= SockBuf /\ Len(<<>>) = 0
  <2>1. conn[c] \in Conns /\ conn \in [Clients -> Conns] /\ m_buf \in Seq(Byte)
    BY DEF Types
  <2>2. conn[c].up \in Seq(Byte) /\ conn[c].down \in Seq(Byte)
    BY <2>1 DEF Conns
  <2> QED BY <2>1, <2>2, LenProperties, SocketAssumption DEF Bounds
<1>2. Len(conn'[c].down) <= SockBuf
  <2>1. CASE conn'[c].down = conn[c].down
    BY <1>1, <2>1
  <2>2. CASE Gives /\ confd = c /\ conn'[c].down = conn[c].down \o m_buf
    <3>1. Len(conn[c].down) + Len(m_buf) <= SockBuf
      BY <2>2 DEF Gives
    <3>2. Len(conn[c].down \o m_buf) = Len(conn[c].down) + Len(m_buf)
      BY <1>1, ConcatProperties
    <3> QED BY <2>2, <3>1, <3>2
  <2> QED BY <2>1, <2>2, DownStays
<1>3. Len(conn'[c].up) <= SockBuf
  <2>1. CASE conn'[c].up = conn[c].up \/ conn'[c].up = <<>>
    BY <1>1, <2>1
  <2>2. CASE conn'[c].up = SubSeq(conn[c].up, Len(First(conn[c].up)) + 1, Len(conn[c].up))
    <3> DEFINE n == Len(First(conn[c].up))
    <3>1. n \in Nat /\ Len(SubSeq(conn[c].up, n + 1, Len(conn[c].up))) = Len(conn[c].up) - n
      BY <1>1, FirstTypes
    <3> HIDE DEF n
    <3> QED BY <1>1, <2>2, <3>1 DEF n
  <2> QED BY <2>1, <2>2, UpStays
<1> QED BY <1>2, <1>3

LEMMA StepBounds ==
    ASSUME IInv, Bounds, [Next]_vars
    PROVE  Bounds'
<1>1. Types /\ OneServed /\ Stays
  BY DEF IInv
<1>2. Len(m_buf) \in Nat /\ Len(tty.out) \in Nat /\ m_buf \in Seq(Byte) /\ tty.in \in Seq(Byte)
      /\ tty.out \in Seq(Byte) /\ tty \in [up : BOOLEAN, in : Seq(Byte), out : Seq(Byte)]
      /\ Chunk \in Nat /\ TtyBuf \in Nat /\ Len(<<>>) = 0
  <2>1. m_buf \in Seq(Byte) /\ tty \in [up : BOOLEAN, in : Seq(Byte), out : Seq(Byte)]
    BY <1>1 DEF Types
  <2> QED BY <2>1, LenProperties, NetUartAssumption
<1>3. CASE Device
  <2>1. Len(tty'.out) <= TtyBuf
    <3>1. CASE Hear
      <4>1. tty'.out = Tail(tty.out) /\ tty.out # <<>>
        BY <1>2, <3>1 DEF Hear
      <4>2. Len(Tail(tty.out)) = Len(tty.out) - 1
        BY <1>2, <4>1, HeadTailProperties
      <4> QED BY <1>2, <4>1, <4>2 DEF Bounds
    <3>2. CASE tty'.out = tty.out \/ tty'.out = <<>>
      BY <1>2, <3>2 DEF Bounds
    <3> QED BY <1>2, <1>3, <3>1, <3>2 DEF Device, Answer, Tell, Say, Unplug
  <2> QED BY <1>3, <2>1 DEF Device, Bounds
<1>4. CASE NetUart
  <2>1. Outcome /\ NuStep
    BY <1>1, <1>4, NetUartStep DEF NetUart
  <2>2. ASSUME NEW q \in Seq(Byte) PROVE Len(First(q)) <= Chunk /\ Len(First(q)) \in Nat
    BY <2>2, FirstTypes
  <2>3. ASSUME NEW n \in 0 .. Len(m_buf)
        PROVE  Len(SubSeq(m_buf, 1, n)) = n /\ Len(SubSeq(m_buf, n + 1, Len(m_buf))) = Len(m_buf) - n
               /\ Len(tty.out \o SubSeq(m_buf, 1, n)) = Len(tty.out) + n
    <3>1. SubSeq(m_buf, 1, n) \in Seq(Byte) /\ Len(SubSeq(m_buf, 1, n)) = n
          /\ Len(SubSeq(m_buf, n + 1, Len(m_buf))) = Len(m_buf) - n
      BY <1>2, Cut
    <3> QED BY <1>2, <3>1, ConcatProperties
  <2>4. Len(m_buf') <= Chunk
    <3>1. CASE Listens
      <4>1. conn[confd].up \in Seq(Byte)
        BY <1>1, <3>1 DEF Listens, Types, OneServed, Conns
      <4> QED BY <2>2, <3>1, <4>1 DEF Listens
    <3>2. CASE \E nw \in 1 .. Len(m_buf) : WritesOut(nw)
      <4>1. PICK nw \in 1 .. Len(m_buf) : WritesOut(nw)
        BY <3>2
      <4>2. nw \in 0 .. Len(m_buf) /\ Len(m_buf') = Len(m_buf) - nw
        <5>1. nw \in 0 .. Len(m_buf)
          BY <1>2
        <5> QED BY <4>1, <5>1, <2>3 DEF WritesOut
      <4> QED BY <1>2, <4>2 DEF Bounds
    <3>3. m_buf' = m_buf \/ m_buf' = <<>> \/ m_buf' = First(tty.in) \/ Listens
          \/ \E nw \in 1 .. Len(m_buf) : WritesOut(nw)
      BY <2>1 DEF Outcome, Exits, Opens, Accepts, Idles, Polls, Passes, Serves, Takes, Gives,
                  HangsUp, Listens, Turns
    <3>4. CASE m_buf' = m_buf \/ m_buf' = <<>> \/ m_buf' = First(tty.in)
      BY <1>2, <2>2, <3>4 DEF Bounds
    <3> QED BY <3>1, <3>2, <3>3, <3>4
  <2>5. Len(tty'.out) <= TtyBuf
    <3>1. CASE \E nw \in 1 .. Len(m_buf) : WritesOut(nw)
      <4>1. PICK nw \in 1 .. Len(m_buf) : WritesOut(nw)
        BY <3>1
      <4>2. nw \in 0 .. Len(m_buf) /\ tty'.out = tty.out \o SubSeq(m_buf, 1, nw)
        BY <1>2, <4>1 DEF WritesOut
      <4>3. Len(tty'.out) = Len(tty.out) + nw
        BY <2>3, <4>2
      <4> QED BY <4>1, <4>3 DEF WritesOut
    <3>2. CASE ~\E nw \in 1 .. Len(m_buf) : WritesOut(nw)
      <4>1. tty'.out = tty.out
        BY <1>2, <2>1, <3>2 DEF Outcome, Exits, Opens, Accepts, Idles, Polls, Passes, Serves, Takes,
                    Gives, HangsUp, Listens, Turns
      <4> QED BY <4>1 DEF Bounds
    <3> QED BY <3>1, <3>2
  <2>6. m_ilen' \in 0 .. LineSize - 2
    <3>1. m_ilen' = m_ilen \/ m_ilen' = LinesAfter(m_ilen, First(tty.in))
      BY <2>1 DEF NuStep, Start, Accept, Poll, ReadTty, SendClient, ReadClient, WriteTty
    <3>2. m_ilen \in 0 .. LineSize - 2 /\ Len(First(tty.in)) \in Nat
      BY <1>2, <2>2 DEF Bounds
    <3> QED BY <3>1, <3>2, LinesAfterType
  <2>7. m_olen' \in 0 .. LineSize - 2
    <3>1. m_olen' = m_olen \/ m_olen' = 0
          \/ \E nw \in 1 .. Len(m_buf) : m_olen' = LinesAfter(m_olen, SubSeq(m_buf, 1, nw))
      BY <2>1 DEF NuStep, Start, Accept, Poll, ReadTty, SendClient, ReadClient, WriteTty
    <3>2. m_olen \in 0 .. LineSize - 2 /\ 0 \in 0 .. LineSize - 2
      BY NetUartAssumption DEF Bounds
    <3>3. ASSUME NEW nw \in 1 .. Len(m_buf), m_olen' = LinesAfter(m_olen, SubSeq(m_buf, 1, nw))
          PROVE  m_olen' \in 0 .. LineSize - 2
      <4>1. nw \in 0 .. Len(m_buf) /\ nw \in Nat
        BY <1>2
      <4>2. Len(SubSeq(m_buf, 1, nw)) \in Nat
        BY <2>3, <4>1
      <4> QED BY <3>2, <3>3, <4>2, LinesAfterType
    <3> QED BY <3>1, <3>2, <3>3
  <2>8. \A c \in Clients : Len(conn'[c].up) <= SockBuf /\ Len(conn'[c].down) <= SockBuf
    BY <1>1, <2>1, NetUartFills
  <2> QED BY <2>4, <2>5, <2>6, <2>7, <2>8 DEF Bounds
<1>5. ASSUME NEW c \in Clients, Tool(c) PROVE Bounds'
  <2>1. UNCHANGED <<m_ilen, m_olen, m_buf, tty>>
    BY <1>5 DEF Tool, nuvars
  <2>2. \A d \in Clients \ {c} : conn'[d] = conn[d]
    BY <1>1, <1>5, ToolTypes
  <2>3. Len(conn'[c].up) <= SockBuf /\ Len(conn'[c].down) <= SockBuf
    BY <1>1, <1>5, ToolFills
  <2> QED BY <2>1, <2>2, <2>3 DEF Bounds
<1>6. CASE UNCHANGED vars
  BY <1>6 DEF vars, nuvars, Bounds
<1> QED BY <1>3, <1>4, <1>5, <1>6 DEF Next

\* The types of the run, of the line buffers and the queues with their sizes: netuart
\* never takes more than its buffer of 256 holds, the line buffers of 512 keep a place
\* for the end of the string (netuart.cpp:172-185, :224-236), and no queue overflows.
THEOREM Typed == Spec => []TypeOK
<1>1. Init => IInv /\ Bounds
  BY InitIInv, InitBounds
<1>2. IInv /\ Bounds /\ [Next]_vars => (IInv /\ Bounds)'
  BY StepIInv, StepBounds
<1>3. IInv /\ Bounds => TypeOK
  <2> SUFFICES ASSUME IInv, Bounds PROVE TypeOK OBVIOUS
  <2>1. Types
    BY DEF IInv
  <2>2. ASSUME NEW q \in Seq(Byte) PROVE ToSet(q) \subseteq Byte /\ Len(q) \in Nat
    <3>1. Len(q) \in Nat /\ \A i \in 1 .. Len(q) : q[i] \in Byte
      BY <2>2, LenProperties
    <3>2. DOMAIN q = 1 .. Len(q)
      BY <2>2, LenProperties
    <3> QED BY <3>1, <3>2 DEF ToSet
  <2>3. tty.in \in Seq(Byte) /\ tty.out \in Seq(Byte) /\ m_buf \in Seq(Byte)
    BY <2>1 DEF Types
  <2>4. ToSet(m_buf) \subseteq Byte /\ ToSet(tty.in) \cup ToSet(tty.out) \subseteq Byte
        /\ Len(m_buf) \in Nat
    BY <2>2, <2>3
  <2>5. {con, confd} \subseteq Clients \cup {0}
    BY <2>1 DEF Types
  <2>6. \A c \in Clients : tool[c] \in {"idle", "runs", "closing", "left"} /\ wrote[c] \in 0 .. Commands
    BY <2>1 DEF Types
  <2>7. {Len(m_buf)} \subseteq 0 .. Chunk
    BY <2>4, NetUartAssumption DEF Bounds
  <2> QED BY <2>1, <2>4, <2>5, <2>6, <2>7 DEF Types, Bounds, TypeOK
<1> QED BY <1>1, <1>2, <1>3, PTL DEF Spec
-----------------------------------------------------------------------------
(* What is in a sequence, and how often.                                      *)

LEMMA AllEmpty == \A S : AllOf(<<>>, S)
<1>1. Len(<<>>) = 0
  OBVIOUS
<1> QED BY <1>1 DEF AllOf

LEMMA AllMore ==
    ASSUME NEW s, NEW S, NEW T, S \subseteq T, AllOf(s, S)
    PROVE  AllOf(s, T)
BY DEF AllOf

LEMMA AllJoin ==
    ASSUME NEW s \in Seq(Byte), NEW t \in Seq(Byte), NEW S, AllOf(s, S), AllOf(t, S)
    PROVE  AllOf(s \o t, S)
<1> DEFINE u == s \o t
<1>1. Len(s) \in Nat /\ Len(t) \in Nat /\ Len(u) = Len(s) + Len(t)
      /\ \A i \in 1 .. Len(s) + Len(t) : u[i] = IF i <= Len(s) THEN s[i] ELSE t[i - Len(s)]
  BY LenProperties, ConcatProperties
<1> HIDE DEF u
<1>2. ASSUME NEW i \in 1 .. Len(u) PROVE u[i].to \in S
  <2>1. CASE i <= Len(s)
    BY <1>1, <2>1 DEF AllOf
  <2>2. CASE ~(i <= Len(s))
    <3>1. i - Len(s) \in 1 .. Len(t) /\ u[i] = t[i - Len(s)]
      BY <1>1, <2>2
    <3> QED BY <3>1 DEF AllOf
  <2> QED BY <2>1, <2>2
<1> QED BY <1>2 DEF AllOf, u

LEMMA AllAppend ==
    ASSUME NEW s \in Seq(Byte), NEW b \in Byte, NEW S, AllOf(s, S), b.to \in S
    PROVE  AllOf(Append(s, b), S)
<1>1. Len(Append(s, b)) = Len(s) + 1 /\ Len(s) \in Nat
      /\ (\A i \in 1 .. Len(s) : Append(s, b)[i] = s[i]) /\ Append(s, b)[Len(s) + 1] = b
  BY AppendProperties, LenProperties
<1> QED BY <1>1 DEF AllOf

LEMMA AllTail ==
    ASSUME NEW s \in Seq(Byte), s # <<>>, NEW S, AllOf(s, S)
    PROVE  AllOf(Tail(s), S) /\ s[1].to \in S
<1>1. Len(s) \in Nat /\ Len(s) # 0 /\ Len(Tail(s)) = Len(s) - 1
      /\ \A i \in 1 .. Len(s) - 1 : Tail(s)[i] = s[i + 1]
  BY LenProperties, HeadTailProperties, EmptySeq
<1> QED BY <1>1 DEF AllOf

LEMMA AllCut ==
    ASSUME NEW s \in Seq(Byte), NEW n \in 0 .. Len(s), NEW S, AllOf(s, S)
    PROVE  AllOf(SubSeq(s, 1, n), S) /\ AllOf(SubSeq(s, n + 1, Len(s)), S)
<1>1. Len(s) \in Nat /\ Len(SubSeq(s, 1, n)) = n /\ Len(SubSeq(s, n + 1, Len(s))) = Len(s) - n
      /\ (\A i \in 1 .. n : SubSeq(s, 1, n)[i] = s[i])
      /\ \A i \in 1 .. Len(s) - n : SubSeq(s, n + 1, Len(s))[i] = s[n + i]
  BY LenProperties, Cut
<1>2. \A i \in 1 .. n : i \in 1 .. Len(s)
  BY <1>1
<1>3. \A i \in 1 .. Len(s) - n : n + i \in 1 .. Len(s)
  BY <1>1
<1> QED BY <1>1, <1>2, <1>3 DEF AllOf

LEMMA AllNone ==
    ASSUME NEW s \in Seq(Byte), NEW S, AllOf(s, S), NEW b, b.to \notin S
    PROVE  Count(s, b) = 0
<1>1. \A i \in 1 .. Len(s) : s[i] # b
  BY DEF AllOf
<1> QED BY <1>1, CountType

LEMMA CountAppend ==
    ASSUME NEW s \in Seq(Byte), NEW x \in Byte, NEW b
    PROVE  Count(Append(s, x), b) = Count(s, b) + IF x = b THEN 1 ELSE 0
<1> DEFINE t == <<x>>
<1>1. t \in Seq(Byte) /\ Append(s, x) = s \o t /\ Count(t, b) = IF x = b THEN 1 ELSE 0
  BY CountOne, AppendIsConcat
<1> HIDE DEF t
<1>2. Count(s \o t, b) = Count(s, b) + Count(t, b)
  BY <1>1, CountJoin
<1> QED BY <1>1, <1>2

\* What is left of a sequence after its first n.
LEMMA RestStep ==
    ASSUME NEW q \in Seq(Byte), NEW n \in 0 .. Len(q)
    PROVE  /\ SubSeq(q, n + 1, Len(q)) \in Seq(Byte)
           /\ \A b \in Byte : SubSeq(Append(q, b), n + 1, Len(Append(q, b)))
                                = Append(SubSeq(q, n + 1, Len(q)), b)
           /\ n < Len(q) => /\ SubSeq(q, n + 1, Len(q)) # <<>>
                            /\ SubSeq(q, n + 1, Len(q))[1] = q[n + 1] /\ q[n + 1] \in Byte
                            /\ SubSeq(q, n + 1 + 1, Len(q)) = Tail(SubSeq(q, n + 1, Len(q)))
<1> DEFINE r == SubSeq(q, n + 1, Len(q))
<1>1. Len(q) \in Nat /\ n \in Nat /\ n <= Len(q) /\ r \in Seq(Byte) /\ Len(r) = Len(q) - n
      /\ \A i \in 1 .. Len(q) - n : r[i] = q[n + i]
  BY LenProperties, Cut
<1>2. ASSUME NEW b \in Byte
      PROVE  SubSeq(Append(q, b), n + 1, Len(Append(q, b))) = Append(r, b)
  <2> DEFINE a == Append(q, b)
  <2> DEFINE x == SubSeq(a, n + 1, Len(a))
  <2> DEFINE y == Append(r, b)
  <2>1. a \in Seq(Byte) /\ Len(a) = Len(q) + 1 /\ (\A i \in 1 .. Len(q) : a[i] = q[i])
        /\ a[Len(q) + 1] = b
    BY AppendProperties
  <2>2. y \in Seq(Byte) /\ Len(y) = Len(r) + 1 /\ (\A i \in 1 .. Len(r) : y[i] = r[i])
        /\ y[Len(r) + 1] = b
    BY <1>1, AppendProperties
  <2> HIDE DEF a, y, r
  <2>3. x \in Seq(Byte) /\ Len(x) = Len(a) - n /\ \A i \in 1 .. Len(a) - n : x[i] = a[n + i]
    <3>1. n \in 0 .. Len(a)
      BY <1>1, <2>1
    <3> QED BY <2>1, <3>1, Cut
  <2> HIDE DEF x
  <2>4. ASSUME NEW i \in 1 .. Len(x) PROVE x[i] = y[i]
    <3>1. CASE i <= Len(r)
      <4>1. n + i \in 1 .. Len(q) /\ i \in 1 .. Len(q) - n /\ i \in 1 .. Len(r) /\ i \in 1 .. Len(a) - n
        BY <1>1, <2>1, <2>3, <3>1
      <4> QED BY <1>1, <2>1, <2>2, <2>3, <4>1
    <3>2. CASE ~(i <= Len(r))
      <4>1. i = Len(r) + 1 /\ n + i = Len(q) + 1 /\ i \in 1 .. Len(a) - n
        BY <1>1, <2>1, <2>3, <3>2
      <4> QED BY <2>1, <2>2, <2>3, <4>1
    <3> QED BY <3>1, <3>2
  <2>5. Len(x) = Len(y)
    BY <1>1, <2>1, <2>2, <2>3
  <2>6. x = y
    BY <2>2, <2>3, <2>4, <2>5, SeqEqual
  <2> QED BY <2>6 DEF a, x, y, r
<1>3. ASSUME n < Len(q)
      PROVE  r # <<>> /\ r[1] = q[n + 1] /\ q[n + 1] \in Byte /\ SubSeq(q, n + 1 + 1, Len(q)) = Tail(r)
  <2> DEFINE x == SubSeq(q, n + 1 + 1, Len(q))
  <2> DEFINE y == Tail(r)
  <2> HIDE DEF r
  <2>1. r # <<>> /\ r[1] = q[n + 1] /\ q[n + 1] \in Byte
    <3>1. 1 \in 1 .. Len(q) - n /\ n + 1 \in 1 .. Len(q) /\ Len(r) # 0
      BY <1>1, <1>3
    <3>2. q[n + 1] \in Byte
      BY <3>1, ElementOfSeq
    <3> QED BY <1>1, <3>1, <3>2, EmptySeq
  <2>2. y \in Seq(Byte) /\ Len(y) = Len(r) - 1 /\ \A i \in 1 .. Len(r) - 1 : y[i] = r[i + 1]
    BY <1>1, <2>1, HeadTailProperties
  <2>3. x \in Seq(Byte) /\ Len(x) = Len(q) - (n + 1)
        /\ \A i \in 1 .. Len(q) - (n + 1) : x[i] = q[n + 1 + i]
    <3>1. n + 1 \in 0 .. Len(q)
      BY <1>1, <1>3
    <3> QED BY <3>1, Cut
  <2> HIDE DEF x, y
  <2>4. ASSUME NEW i \in 1 .. Len(x) PROVE x[i] = y[i]
    <3>1. i + 1 \in 1 .. Len(q) - n /\ n + (i + 1) = n + 1 + i /\ i \in 1 .. Len(r) - 1
          /\ i \in 1 .. Len(q) - (n + 1)
      BY <1>1, <1>3, <2>3
    <3>2. r[i + 1] = q[n + (i + 1)]
      BY <1>1, <3>1
    <3> QED BY <2>2, <2>3, <3>1, <3>2
  <2>5. Len(x) = Len(y)
    BY <1>1, <1>3, <2>2, <2>3
  <2>6. x = y
    BY <2>2, <2>3, <2>4, <2>5, SeqEqual
  <2> QED BY <2>1, <2>6 DEF x, y
<1> QED BY <1>1, <1>2, <1>3

LEMMA UnansweredType ==
    ASSUME Types
    PROVE  Unanswered \in Seq(Byte)
<1>1. heard \in Seq(Byte) /\ answered \in 0 .. Len(heard)
  BY DEF Types
<1> QED BY <1>1, RestStep DEF Unanswered

LEMMA ReceivedCount ==
    ASSUME Types, NEW c \in Clients, NEW b
    PROVE  Count(Received(c), b) = Count(taken[c], b) + Count(conn[c].down, b)
<1>1. taken[c] \in Seq(Byte) /\ conn[c].down \in Seq(Byte)
  BY DEF Types, Conns
<1> QED BY <1>1, CountJoin DEF Received
-----------------------------------------------------------------------------
(* The chunk in hand, what poll said of the client, and the TTY's end.        *)

LEMMA InitSmall == Init => Idle /\ Ready /\ Unplugged
<1> SUFFICES ASSUME Init PROVE Idle /\ Ready /\ Unplugged OBVIOUS
<1>1. pc = "start" /\ m_buf = <<>>
  BY DEF Init, NuInit
<1> QED BY <1>1 DEF Idle, Ready, Unplugged

LEMMA StepIdle ==
    ASSUME IInv, Idle, [Next]_vars
    PROVE  Idle'
<1>1. Types /\ OneServed /\ Stays
  BY DEF IInv
<1>2. CASE UNCHANGED <<pc, m_buf>>
  BY <1>2 DEF Idle
<1>3. CASE NetUart
  <2>1. Outcome
    BY <1>1, <1>3, NetUartStep DEF NetUart
  <2>2. CASE \E nw \in 1 .. Len(m_buf) : WritesOut(nw)
    <3>1. PICK nw \in 1 .. Len(m_buf) : WritesOut(nw)
      BY <2>2
    <3>2. m_buf \in Seq(Byte) /\ Len(m_buf) \in Nat
      BY <1>1, LenProperties DEF Types
    <3>3. CASE nw = Len(m_buf)
      <4>1. nw \in 0 .. Len(m_buf) /\ m_buf' = SubSeq(m_buf, nw + 1, Len(m_buf))
        BY <3>1, <3>2 DEF WritesOut
      <4>2. m_buf' \in Seq(Byte) /\ Len(m_buf') = Len(m_buf) - nw
        BY <3>2, <4>1, Cut
      <4>3. m_buf' = <<>>
        BY <3>2, <3>3, <4>2, EmptySeq
      <4> QED BY <4>3 DEF Idle
    <3>4. CASE nw # Len(m_buf)
      BY <3>1, <3>4 DEF WritesOut, Idle
    <3> QED BY <3>3, <3>4
  <2>3. CASE Exits \/ Opens \/ (\E c \in Clients : Accepts(c)) \/ Idles \/ Polls \/ Passes \/ Serves
             \/ Takes \/ Gives \/ HangsUp \/ Listens \/ Turns
    BY <2>3 DEF Exits, Opens, Accepts, Idles, Polls, Passes, Serves, Takes, Gives,
                HangsUp, Listens, Turns, Idle
  <2> QED BY <2>1, <2>2, <2>3 DEF Outcome
<1>4. Device \/ (\E c \in Clients : Tool(c)) \/ UNCHANGED vars => UNCHANGED <<pc, m_buf>>
  BY DEF Device, Tool, vars, nuvars
<1> QED BY <1>2, <1>3, <1>4 DEF Next

LEMMA StepUnplugged ==
    ASSUME IInv, Unplugged, [Next]_vars
    PROVE  Unplugged'
<1>1. Types /\ OneServed /\ Stays
  BY DEF IInv
<1>2. CASE Device
  <2>1. pc' = pc /\ (tty'.up => tty.up)
    BY <1>1, <1>2, DeviceSays DEF Device
  <2> QED BY <2>1 DEF Unplugged
<1>3. CASE NetUart
  <2>1. Outcome /\ heard' = heard
    BY <1>1, <1>3, NetUartStep DEF NetUart
  <2>2. tty'.up = tty.up
    BY <1>1, <2>1, NetUartHears
  <2>3. pc' = "exited" => ~tty.up
    BY <2>1 DEF Outcome, Exits, Opens, Accepts, Idles, Polls, Passes, Serves, Takes, Gives,
                HangsUp, Listens, Turns, WritesOut
  <2> QED BY <2>2, <2>3 DEF Unplugged
<1>4. CASE (\E c \in Clients : Tool(c)) \/ UNCHANGED vars
  BY <1>4 DEF Tool, vars, nuvars, Unplugged
<1> QED BY <1>2, <1>3, <1>4 DEF Next

\* What a tool does never takes back what poll has seen of it.
LEMMA ToolReadable ==
    ASSUME Types, OneServed, NEW c \in Clients, Tool(c), NEW d \in Clients, Readable(d)
    PROVE  Readable(d)'
<1>1. CASE d # c
  <2>1. conn'[d] = conn[d]
    BY <1>1, ToolTypes
  <2> QED BY <2>1 DEF Readable
<1>2. CASE d = c
  <2>1. conn[c] \in Conns /\ conn \in [Clients -> Conns] /\ conn[c].up \in Seq(Byte)
    BY DEF Types, Conns
  <2>2. \/ conn'[c].up = conn[c].up
        \/ conn'[c].up # <<>>
    <3>1. Append(conn[c].up, [to |-> c, n |-> wrote[c] + 1]) # <<>>
      BY <2>1, AppendSome
    <3> QED BY <3>1, ToolEffect
  <2>3. /\ conn[c].upfin => conn'[c].upfin
        /\ conn[c].reset => conn'[c].reset
    <3>1. \/ conn'[c] = conn[c] \/ conn'[c] = Gone(conn[c])
          \/ conn'[c] = [conn[c] EXCEPT !.server = "waiting"]
          \/ conn'[c] = [conn[c] EXCEPT !.upfin = TRUE]
          \/ (\E q : conn'[c] = [conn[c] EXCEPT !.up = q])
          \/ (\E q : conn'[c] = [conn[c] EXCEPT !.down = q])
      BY <2>1 DEF Tool, ToolStep, Connect, Write, Read, Shutdown, Drain, Killed
    <3> QED BY <2>1, <3>1 DEF Conns, Gone
  <2> QED BY <1>2, <2>2, <2>3 DEF Readable
<1> QED BY <1>1, <1>2

LEMMA StepReady ==
    ASSUME IInv, Ready, [Next]_vars
    PROVE  Ready'
<1>1. Types /\ OneServed /\ Stays
  BY DEF IInv
<1>2. CASE UNCHANGED <<pc, revents, confd, conn>>
  BY <1>2 DEF Ready, Readable
<1>3. CASE NetUart
  <2>1. Outcome
    BY <1>1, <1>3, NetUartStep DEF NetUart
  <2>2. CASE pc' \notin {"tty", "send", "skt"}
    BY <2>2 DEF Ready
  <2>3. CASE Polls
    BY <2>3 DEF Polls, Rests, Ready, Readable
  <2>4. CASE Passes \/ Takes
    BY <2>4 DEF Passes, Takes, Rests, Ready, Readable
  <2>5. CASE Gives
    <3>1. confd \in Clients /\ UNCHANGED <<revents, confd>> /\ pc = "send"
      BY <1>1, <2>5 DEF Gives, Rests, Types, OneServed
    <3>2. Readable(confd) => Readable(confd)'
      <4>1. conn'[confd].up = conn[confd].up /\ conn'[confd].upfin = conn[confd].upfin
            /\ (conn[confd].reset => conn'[confd].reset)
        <5>1. ~Exits /\ ~HangsUp /\ ~Listens
          BY <2>5 DEF Gives, Exits, HangsUp, Listens
        <5> QED BY <1>1, <2>1, <3>1, <5>1, UpStays
      <4> QED BY <3>1, <4>1 DEF Readable
    <3> QED BY <3>1, <3>2 DEF Ready
  <2>6. pc' \notin {"tty", "send", "skt"} \/ Polls \/ Passes \/ Takes \/ Gives
    BY <2>1 DEF Outcome, Exits, Opens, Accepts, Idles, Serves, HangsUp, Listens, Turns, WritesOut
  <2> QED BY <2>2, <2>3, <2>4, <2>5, <2>6
<1>4. ASSUME NEW c \in Clients, Tool(c) PROVE Ready'
  <2>1. UNCHANGED <<pc, revents, confd>> /\ confd \in Clients \cup {0}
    BY <1>1, <1>4 DEF Tool, nuvars, Types
  <2>2. confd \in Clients /\ Readable(confd) => Readable(confd)'
    BY <1>1, <1>4, <2>1, ToolReadable DEF Readable
  <2> QED BY <2>1, <2>2 DEF Ready
<1>5. Device \/ UNCHANGED vars => UNCHANGED <<pc, revents, confd, conn>>
  BY DEF Device, vars, nuvars
<1> QED BY <1>2, <1>3, <1>4, <1>5 DEF Next
-----------------------------------------------------------------------------
(* Patient tools: what they have taken, and when they leave.                  *)

LEMMA OursType ==
    ASSUME Types, NEW c \in Clients
    PROVE  /\ IsFiniteSet({i \in DOMAIN taken[c] : taken[c][i].to # 0}) /\ Ours(c) \in Nat
           /\ DOMAIN taken[c] = 1 .. Len(taken[c]) /\ Len(taken[c]) \in Nat /\ wrote[c] \in Nat
<1>1. taken[c] \in Seq(Byte) /\ wrote[c] \in Nat
  BY BridgeAssumption DEF Types
<1>2. DOMAIN taken[c] = 1 .. Len(taken[c]) /\ Len(taken[c]) \in Nat
  BY <1>1, LenProperties
<1> DEFINE I == {i \in DOMAIN taken[c] : taken[c][i].to # 0}
<1>3. IsFiniteSet(1 .. Len(taken[c])) /\ I \subseteq 1 .. Len(taken[c])
  BY <1>2, FS_Interval
<1>4. IsFiniteSet(I) /\ Cardinality(I) \in Nat
  <2> HIDE DEF I
  <2> QED BY <1>3, FS_Subset, FS_CardinalityType
<1> QED BY <1>1, <1>2, <1>4 DEF Ours

\* The bytes taken only grow in number.
LEMMA TakenGrows ==
    ASSUME Types, Types', NEW c \in Clients, NEW more \in Seq(Byte),
           taken'[c] = taken[c] \o more
    PROVE  Ours(c)' >= Ours(c)
<1>1. taken[c] \in Seq(Byte)
  BY DEF Types
<1> DEFINE t == taken[c]
<1> DEFINE u == t \o more
<1> DEFINE I == {i \in DOMAIN t : t[i].to # 0}
<1> DEFINE J == {i \in DOMAIN u : u[i].to # 0}
<1>2. Len(t) \in Nat /\ Len(more) \in Nat /\ u \in Seq(Byte) /\ Len(u) = Len(t) + Len(more)
      /\ (\A i \in 1 .. Len(t) + Len(more) : u[i] = IF i <= Len(t) THEN t[i] ELSE more[i - Len(t)])
      /\ DOMAIN t = 1 .. Len(t) /\ DOMAIN u = 1 .. Len(u)
  <2>1. t \in Seq(Byte) /\ u \in Seq(Byte) /\ Len(u) = Len(t) + Len(more)
      /\ (\A i \in 1 .. Len(t) + Len(more) : u[i] = IF i <= Len(t) THEN t[i] ELSE more[i - Len(t)])
    BY <1>1, ConcatProperties
  <2> HIDE DEF t, u
  <2> QED BY <2>1, LenProperties
<1> HIDE DEF t, u
<1>3. I \subseteq J
  BY <1>2
<1>4. IsFiniteSet(J)
  <2>1. IsFiniteSet(1 .. Len(u)) /\ J \subseteq 1 .. Len(u)
    BY <1>2, FS_Interval
  <2> HIDE DEF J
  <2> QED BY <2>1, FS_Subset
<1>5. Cardinality(I) <= Cardinality(J)
  <2> HIDE DEF I, J
  <2> QED BY <1>3, <1>4, FS_Subset
<1>6. Ours(c) = Cardinality(I) /\ Ours(c)' = Cardinality(J)
  BY DEF Ours, t, u
<1>7. Ours(c) \in Nat /\ Ours(c)' \in Nat
  <2>1. Cardinality(I) \in Nat /\ Cardinality(J) \in Nat
    <3>1. IsFiniteSet(I)
      BY <1>3, <1>4, FS_Subset
    <3> HIDE DEF I, J
    <3> QED BY <1>4, <3>1, FS_CardinalityType
  <2> QED BY <1>6, <2>1
<1> QED BY <1>5, <1>6, <1>7

\* A patient tool takes from its queue what it adds to the bytes taken.
LEMMA PatientTool ==
    ASSUME Types, Types', OneServed, NEW c \in Clients, habit[c] = "patient", Tool(c)
    PROVE  /\ Received(c)' = Received(c)
           /\ \E more \in Seq(Byte) : taken'[c] = taken[c] \o more
<1>1. conn[c] \in Conns /\ conn[c].down \in Seq(Byte) /\ taken[c] \in Seq(Byte)
      /\ <<>> \in Seq(Byte)
  BY EmptySeq DEF Types, Conns
<1>2. taken[c] = taken[c] \o <<>>
  BY <1>1, ConcatEmptySeq
<1>3. CASE taken'[c] = taken[c]
  <2>1. \E more \in Seq(Byte) : taken'[c] = taken[c] \o more
    BY <1>1, <1>2, <1>3
  <2>2. Received(c)' = Received(c)
    BY <1>3, ToolEffect DEF Received
  <2> QED BY <2>1, <2>2
<1>4. CASE taken'[c] # taken[c]
  <2>1. Received(c)' = Received(c)
    BY <1>4, ToolEffect
  <2>2. Read(c) \/ Drain(c)
    BY <1>4 DEF Tool, ToolStep, Connect, Write, Shutdown, Killed
  <2>3. CASE Drain(c)
    <3>1. taken'[c] = taken[c] \o conn[c].down
      BY <1>4, <2>3 DEF Drain, Types
    <3> QED BY <1>1, <2>1, <3>1
  <2>4. CASE Read(c)
    <3>1. taken'[c] = Append(taken[c], Head(conn[c].down)) /\ conn[c].down # <<>>
      BY <1>4, <2>4 DEF Read, Answers, Types
    <3>2. Head(conn[c].down) \in Byte
      BY <1>1, <3>1, HeadTailProperties
    <3>3. taken'[c] = taken[c] \o <<Head(conn[c].down)>>
      BY <1>1, <3>1, <3>2, AppendIsConcat
    <3>4. <<Head(conn[c].down)>> \in Seq(Byte)
      BY <3>2
    <3> QED BY <2>1, <3>3, <3>4
  <2> QED BY <2>2, <2>3, <2>4
<1> QED BY <1>3, <1>4

\* What a tool may do that is patient, as far as its leaving is concerned.
LEMMA ToolLeaves ==
    ASSUME Types, Types', OneServed, Unplugged, Finished, Patient, tty.up,
           NEW c \in Clients, Tool(c)
    PROVE  /\ conn'[c].upfin \/ conn'[c].server = "closed" => tool'[c] \in {"closing", "left"}
           /\ tool'[c] \in {"closing", "left"} => wrote'[c] = Commands /\ Outstanding(c)' <= 0
<1>1. conn[c] \in Conns /\ conn \in [Clients -> Conns] /\ habit[c] = "patient" /\ pc # "exited"
      /\ tool \in [Clients -> {"idle", "runs", "closing", "left"}]
  BY DEF Types, Patient, Unplugged
<1>2. Ours(c) \in Nat /\ Ours(c)' \in Nat /\ wrote[c] \in Nat /\ Ours(c)' >= Ours(c)
      /\ (taken' = taken => Ours(c)' = Ours(c))
  <2>1. Ours(c) \in Nat /\ wrote[c] \in Nat
    BY OursType
  <2>2. Types => Ours(c) \in Nat
    BY OursType
  <2>3. (Types => Ours(c) \in Nat)'
    BY OursType, PTL
  <2>4. Ours(c)' >= Ours(c)
    BY <1>1, PatientTool, TakenGrows
  <2>5. taken' = taken => Ours(c)' = Ours(c)
    BY DEF Ours
  <2> QED BY <2>1, <2>3, <2>4, <2>5
<1>3. /\ conn[c].upfin \/ conn[c].server = "closed" => tool[c] \in {"closing", "left"}
      /\ tool[c] \in {"closing", "left"} => wrote[c] = Commands /\ wrote[c] - Ours(c) <= 0
  BY DEF Finished, Outstanding
<1>4. Outstanding(c)' = wrote'[c] - Ours(c)'
  BY DEF Outstanding
<1>5. CASE Connect(c, pc # "exited")
  <2>1. conn'[c] = [conn[c] EXCEPT !.server = "waiting"] /\ tool'[c] = "runs" /\ tool[c] = "idle"
    BY <1>1, <1>5 DEF Connect
  <2>2. conn'[c].server = "waiting" /\ conn'[c].upfin = conn[c].upfin
    BY <1>1, <2>1 DEF Conns
  <2> QED BY <1>3, <2>1, <2>2
<1>6. CASE Write(c)
  <2>1. tool[c] = "runs" /\ ~EndOfFile(c)
    BY <1>3, <1>6 DEF Write, EndOfFile
  <2>2. tool' = tool /\ \E q : conn'[c] = [conn[c] EXCEPT !.up = q]
    BY <1>1, <1>6, <2>1 DEF Write
  <2>3. conn'[c].server = conn[c].server /\ conn'[c].upfin = conn[c].upfin
    BY <1>1, <2>2 DEF Conns
  <2> QED BY <1>3, <2>1, <2>2, <2>3
<1>7. CASE Read(c)
  <2>1. tool[c] = "runs" /\ ~EndOfFile(c)
    BY <1>3, <1>7 DEF Read, EndOfFile
  <2>2. tool' = tool /\ \E q : conn'[c] = [conn[c] EXCEPT !.down = q]
    BY <1>1, <1>7, <2>1 DEF Read
  <2>3. conn'[c].server = conn[c].server /\ conn'[c].upfin = conn[c].upfin
    BY <1>1, <2>2 DEF Conns
  <2> QED BY <1>3, <2>1, <2>2, <2>3
<1>8. CASE Shutdown(c)
  <2>1. tool'[c] = "closing" /\ wrote' = wrote /\ taken' = taken
    BY <1>1, <1>8 DEF Shutdown
  <2>2. wrote[c] = Commands /\ wrote[c] - Ours(c) <= 0
    BY <1>1, <1>3, <1>8 DEF Shutdown, Done, Outstanding
  <2> QED BY <1>2, <1>4, <2>1, <2>2
<1>9. CASE Drain(c)
  <2>1. tool[c] = "closing" /\ tool'[c] \in {"closing", "left"} /\ wrote' = wrote
    BY <1>1, <1>9 DEF Drain
  <2> QED BY <1>2, <1>3, <1>4, <2>1
<1>10. ~Killed(c)
  BY <1>1 DEF Killed
<1> QED BY <1>5, <1>6, <1>7, <1>8, <1>9, <1>10 DEF Tool, ToolStep

\* Whoever has as many answers as commands has the answer to each, and so none is left
\* anywhere else.
LEMMA AllTaken ==
    ASSUME Types, Finished, Owned, Once, Patient, tty.up,
           NEW c \in Clients, tool[c] \in {"closing", "left"}
    PROVE  \A b \in Byte : b.to = c =>
              /\ b.n <= Commands => \E i \in DOMAIN taken[c] : taken[c][i] = b
              /\ Count(m_buf, b) = 0 /\ Count(tty.out, b) = 0 /\ Count(Unanswered, b) = 0
              /\ Count(tty.in, b) = 0
<1> DEFINE t == taken[c]
<1> DEFINE I == {i \in DOMAIN t : t[i].to # 0}
<1>1. wrote[c] = Commands /\ Ours(c) \in Nat /\ Commands \in Nat /\ Cardinality(I) >= Commands
      /\ IsFiniteSet(I) /\ DOMAIN t = 1 .. Len(t) /\ Len(t) \in Nat /\ t \in Seq(Byte)
      /\ Cardinality(I) \in Nat
  <2>1. wrote[c] = Commands /\ wrote[c] - Ours(c) <= 0
    BY DEF Finished, Outstanding
  <2>2. Ours(c) = Cardinality(I)
    BY DEF Ours
  <2>3. Ours(c) \in Nat /\ IsFiniteSet(I) /\ DOMAIN t = 1 .. Len(t) /\ Len(t) \in Nat
        /\ t \in Seq(Byte)
    BY OursType DEF Types
  <2> QED BY <2>1, <2>2, <2>3, BridgeAssumption
<1>2. conn[c].up \in Seq(Byte) /\ conn[c].down \in Seq(Byte) /\ m_buf \in Seq(Byte)
      /\ tty.out \in Seq(Byte) /\ tty.in \in Seq(Byte) /\ Unanswered \in Seq(Byte) /\ c # 0
  BY UnansweredType, SocketAssumption DEF Types, Conns
<1>3. ASSUME NEW b \in Byte, b.to = c
      PROVE  /\ Count(t, b) \in Nat /\ Count(m_buf, b) \in Nat /\ Count(tty.out, b) \in Nat
             /\ Count(Unanswered, b) \in Nat /\ Count(tty.in, b) \in Nat
             /\ Count(conn[c].up, b) \in Nat /\ Count(conn[c].down, b) \in Nat
             /\ Count(t, b) <= 1 /\ (b.n > Commands => Count(t, b) = 0)
             /\ b.n > Commands \/ Count(t, b) # 0 =>
                  Count(m_buf, b) = 0 /\ Count(tty.out, b) = 0 /\ Count(Unanswered, b) = 0
                  /\ Count(tty.in, b) = 0
             /\ (Count(t, b) = 0 <=> \A i \in 1 .. Len(t) : t[i] # b)
  <2>1. Count(Received(c), b) = Count(t, b) + Count(conn[c].down, b)
    BY ReceivedCount
  <2>2. /\ Count(t, b) \in Nat /\ Count(m_buf, b) \in Nat /\ Count(tty.out, b) \in Nat
        /\ Count(Unanswered, b) \in Nat /\ Count(tty.in, b) \in Nat
        /\ Count(conn[c].up, b) \in Nat /\ Count(conn[c].down, b) \in Nat
        /\ (Count(t, b) = 0 <=> \A i \in 1 .. Len(t) : t[i] # b)
    <3> HIDE DEF t
    <3> QED BY <1>1, <1>2, CountType
  <2>3. Count(conn[b.to].up, b) + Around(b) + Count(Received(b.to), b)
          = IF b.n <= wrote[b.to] THEN 1 ELSE 0
    BY <1>2, <1>3 DEF Once
  <2> DEFINE x == Count(t, b)
  <2> DEFINE m == Count(m_buf, b)
  <2> DEFINE o == Count(tty.out, b)
  <2> DEFINE u == Count(Unanswered, b)
  <2> DEFINE i == Count(tty.in, b)
  <2> DEFINE p == Count(conn[c].up, b)
  <2> DEFINE d == Count(conn[c].down, b)
  <2> DEFINE r == Count(Received(c), b)
  <2> DEFINE n == b.n
  <2>4. p + (m + o + u + i) + r = IF n <= Commands THEN 1 ELSE 0
    BY <1>1, <1>3, <2>3 DEF Around
  <2>5. n \in Nat /\ r = x + d
    BY <2>1 DEF Byte
  <2>6. x \in Nat /\ m \in Nat /\ o \in Nat /\ u \in Nat /\ i \in Nat /\ p \in Nat /\ d \in Nat
    BY <2>2
  <2> HIDE DEF x, m, o, u, i, p, d, r, n
  <2>7. x <= 1 /\ (n > Commands => x = 0)
        /\ (n > Commands \/ x # 0 => m = 0 /\ o = 0 /\ u = 0 /\ i = 0)
    BY <1>1, <2>4, <2>5, <2>6
  <2> QED BY <2>2, <2>7 DEF x, m, o, u, i, n
<1>4. ASSUME NEW i \in I
      PROVE  /\ t[i] \in Byte /\ t[i].to = c /\ t[i].n \in 1 .. Commands
             /\ i \in 1 .. Len(t)
  <2>1. t[i] \in Byte /\ i \in 1 .. Len(t)
    BY <1>1, ElementOfSeq
  <2>2. t[i].to \in {0, c}
    <3> DEFINE d == conn[c].down
    <3> DEFINE r == t \o d
    <3>1. AllOf(r, {0, c})
      BY DEF Owned, Received
    <3>2. t \in Seq(Byte) /\ d \in Seq(Byte)
      BY <1>1, <1>2
    <3> HIDE DEF t, d
    <3>3. Len(d) \in Nat /\ Len(r) = Len(t) + Len(d)
          /\ \A k \in 1 .. Len(t) + Len(d) : r[k] = IF k <= Len(t) THEN t[k] ELSE d[k - Len(t)]
      BY <3>2, LenProperties, ConcatProperties
    <3> HIDE DEF r
    <3>4. i \in 1 .. Len(r) /\ r[i] = t[i]
      BY <1>1, <2>1, <3>3
    <3> QED BY <3>1, <3>4 DEF AllOf
  <2>3. t[i].to = c
    BY <2>2
  <2>4. Count(t, t[i]) # 0
    BY <1>3, <2>1, <2>3
  <2>5. t[i].n <= Commands
    <3>1. ~(t[i].n > Commands)
      BY <1>3, <2>1, <2>3, <2>4
    <3>2. t[i].n \in Nat
      BY <2>1 DEF Byte
    <3> QED BY <1>1, <3>1, <3>2
  <2>6. t[i].n \in Nat /\ t[i].n >= 1
    BY <2>1 DEF Byte
  <2> QED BY <1>1, <2>1, <2>3, <2>5, <2>6
<1>5. ASSUME NEW i \in I, NEW j \in I, t[i].n = t[j].n
      PROVE  i = j
  <2>1. t[i] = t[j]
    BY <1>4, <1>5 DEF Byte
  <2>2. Count(t, t[i]) <= 1
    BY <1>3, <1>4
  <2> DEFINE K == {k \in 1 .. Len(t) : t[k] = t[i]}
  <2>3. {i, j} \subseteq K /\ IsFiniteSet(K) /\ Cardinality(K) <= 1
    <3>1. IsFiniteSet(K) /\ Cardinality(K) = Count(t, t[i])
      <4> DEFINE b == t[i]
      <4> HIDE DEF b, t
      <4>1. IsFiniteSet({k \in 1 .. Len(t) : t[k] = b}) /\ Cardinality({k \in 1 .. Len(t) : t[k] = b}) = Count(t, b)
        BY <1>1, CountType DEF Count
      <4> QED BY <4>1 DEF b
    <3> QED BY <1>4, <2>1, <2>2, <3>1
  <2> HIDE DEF K
  <2> SUFFICES ASSUME i # j PROVE FALSE
    OBVIOUS
  <2>4. IsFiniteSet({i}) /\ Cardinality({i}) = 1 /\ Cardinality({i, j}) = 2
    <3>1. IsFiniteSet({i}) /\ Cardinality({i}) = 1
      BY FS_Singleton
    <3>2. Cardinality({i} \cup {j}) = Cardinality({i}) + 1
      BY <3>1, FS_AddElement
    <3>3. {i} \cup {j} = {i, j}
      OBVIOUS
    <3> QED BY <3>1, <3>2, <3>3
  <2>5. Cardinality({i, j}) <= Cardinality(K)
    BY <2>3, FS_Subset
  <2>6. Cardinality(K) \in Nat
    BY <2>3, FS_CardinalityType
  <2> QED BY <2>3, <2>4, <2>5, <2>6
<1>6. ASSUME NEW k \in 1 .. Commands
      PROVE  \E i \in I : t[i].n = k
  <2> DEFINE F == [i \in I |-> t[i].n]
  <2> DEFINE G == {F[i] : i \in I}
  <2> HIDE DEF I, t
  <2>1. F \in [I -> 1 .. Commands] /\ (\A i, j \in I : F[i] = F[j] => i = j)
    BY <1>4, <1>5
  <2>2. G \subseteq 1 .. Commands
    BY <2>1
  <2>3. IsFiniteSet(1 .. Commands) /\ Cardinality(1 .. Commands) = Commands
    BY <1>1, FS_Interval
  <2> HIDE DEF F
  <2>4. F \in Bijection(I, G)
    <3>1. F \in [I -> G]
      BY <2>1
    <3>2. \A y \in G : \E i \in I : F[i] = y
      OBVIOUS
    <3> HIDE DEF G
    <3> QED BY <2>1, <3>1, <3>2, Fun_IsBij
  <2> HIDE DEF G
  <2>5. Cardinality(G) = Cardinality(I) /\ IsFiniteSet(G)
    <3>1. ExistsBijection(I, G)
      BY <2>4, Fun_ExistsBij
    <3> QED BY <1>1, <3>1, FS_Bijection
  <2>6. G = 1 .. Commands
    <3>1. Cardinality(G) <= Cardinality(1 .. Commands)
          /\ (Cardinality(1 .. Commands) = Cardinality(G) => 1 .. Commands = G)
      BY <2>2, <2>3, FS_Subset
    <3> QED BY <1>1, <2>3, <2>5, <3>1
  <2>7. k \in G
    BY <2>6
  <2>8. PICK i \in I : F[i] = k
    BY <2>7 DEF G
  <2> QED BY <2>8 DEF F
<1>7. ASSUME NEW b \in Byte, b.to = c, b.n <= Commands
      PROVE  \E i \in DOMAIN t : t[i] = b
  <2>1. b.n \in 1 .. Commands
    BY <1>1, <1>7 DEF Byte
  <2>2. PICK i \in I : t[i].n = b.n
    BY <1>6, <2>1
  <2>3. t[i] = b
    BY <1>4, <1>7, <2>2 DEF Byte
  <2> QED BY <2>3
<1>8. ASSUME NEW b \in Byte, b.to = c
      PROVE  /\ Count(m_buf, b) = 0 /\ Count(tty.out, b) = 0 /\ Count(Unanswered, b) = 0
             /\ Count(tty.in, b) = 0
  <2>1. b.n \in Nat
    BY DEF Byte
  <2>2. b.n <= Commands => Count(t, b) # 0
    <3>1. b.n <= Commands => \E i \in 1 .. Len(t) : t[i] = b
      BY <1>1, <1>7, <1>8
    <3> QED BY <1>3, <1>8, <3>1
  <2>3. b.n > Commands \/ Count(t, b) # 0
    BY <1>1, <2>1, <2>2
  <2> QED BY <1>3, <1>8, <2>3
<1> QED BY <1>7, <1>8
\* A connection of a patient tool that netuart closes is one whose end it has read, and
\* so one whose tool has all its answers.
LEMMA HangsUpLast ==
    ASSUME IInv, Ready, Finished, Patient, tty.up, HangsUp
    PROVE  /\ confd \in Clients /\ m_connected /\ pc = "skt" /\ conn[confd].up = <<>>
           /\ m_buf' = m_buf /\ tool[confd] \in {"closing", "left"}
<1>1. confd \in Clients /\ m_connected /\ conn[confd].server = "accepted"
  BY DEF IInv, Types, OneServed, HangsUp
<1>2. ~conn[confd].reset
  BY <1>1 DEF IInv, Ends, Patient
<1>3. pc = "skt" /\ revents.skt /\ conn[confd].up = <<>> /\ m_buf' = m_buf
  BY <1>2 DEF HangsUp
<1>4. conn[confd].upfin
  BY <1>1, <1>2, <1>3, SocketAssumption DEF Ready, Readable
<1> QED BY <1>1, <1>3, <1>4 DEF Finished

\* Where a step leaves the TTY plugged in, it was before.
LEMMA StillUp ==
    ASSUME IInv, [Next]_vars, tty'.up
    PROVE  tty.up
<1>1. Types /\ OneServed /\ Stays
  BY DEF IInv
<1>2. CASE Device
  BY <1>1, <1>2, DeviceSays
<1>3. CASE NetUart
  <2>1. Outcome /\ heard' = heard
    BY <1>1, <1>3, NetUartStep DEF NetUart
  <2> QED BY <1>1, <2>1, NetUartHears
<1>4. CASE (\E c \in Clients : Tool(c)) \/ UNCHANGED vars
  BY <1>4 DEF Tool, vars, nuvars
<1> QED BY <1>2, <1>3, <1>4 DEF Next

LEMMA StepFinished ==
    ASSUME IInv, Ready, Unplugged, Finished, [Next]_vars
    PROVE  Finished'
<1>1. Types /\ OneServed /\ Stays /\ Types' /\ habit' = habit
  BY StepTypes, ByteStays DEF IInv
<1> SUFFICES ASSUME Patient, tty'.up, NEW c \in Clients
             PROVE  /\ conn'[c].upfin \/ conn'[c].server = "closed" => tool'[c] \in {"closing", "left"}
                    /\ tool'[c] \in {"closing", "left"} => wrote'[c] = Commands /\ Outstanding(c)' <= 0
  <2>1. Patient' = Patient
    BY <1>1 DEF Patient
  <2> QED BY <2>1 DEF Finished
<1>2. tty.up
  BY StillUp
<1>3. /\ conn[c].upfin \/ conn[c].server = "closed" => tool[c] \in {"closing", "left"}
      /\ tool[c] \in {"closing", "left"} => wrote[c] = Commands /\ Outstanding(c) <= 0
  BY <1>2 DEF Finished
<1>4. ASSUME tool'[c] = tool[c], wrote'[c] = wrote[c], taken'[c] = taken[c],
             conn'[c].upfin = conn[c].upfin,
             conn'[c].server = "closed" => tool[c] \in {"closing", "left"}
      PROVE  /\ conn'[c].upfin \/ conn'[c].server = "closed" => tool'[c] \in {"closing", "left"}
             /\ tool'[c] \in {"closing", "left"} => wrote'[c] = Commands /\ Outstanding(c)' <= 0
  <2>1. Outstanding(c)' = Outstanding(c)
    BY <1>4 DEF Outstanding, Ours
  <2> QED BY <1>3, <1>4, <2>1
<1>5. CASE Device \/ UNCHANGED vars
  <2>1. UNCHANGED <<conn, tool, wrote, taken>>
    BY <1>5 DEF Device, vars, llvars
  <2> QED BY <1>3, <1>4, <2>1
<1>6. CASE NetUart
  <2>1. Outcome /\ UNCHANGED <<tool, wrote, taken>>
    BY <1>1, <1>6, NetUartStep DEF NetUart, llvars
  <2>2. ~Exits
    BY <1>2 DEF Exits
  <2>3. conn'[c].upfin = conn[c].upfin
        /\ (conn'[c].server = "closed" => conn[c].server = "closed" \/ (HangsUp /\ confd = c))
    BY <1>1, <2>1, <2>2, UpStays
  <2>4. HangsUp /\ confd = c => tool[c] \in {"closing", "left"}
    BY <1>2, HangsUpLast
  <2> QED BY <1>3, <1>4, <2>1, <2>3, <2>4
<1>7. ASSUME NEW d \in Clients, Tool(d)
      PROVE  /\ conn'[c].upfin \/ conn'[c].server = "closed" => tool'[c] \in {"closing", "left"}
             /\ tool'[c] \in {"closing", "left"} => wrote'[c] = Commands /\ Outstanding(c)' <= 0
  <2>1. CASE d = c
    BY <1>1, <1>2, <1>7, <2>1, ToolLeaves
  <2>2. CASE d # c
    <3>1. conn'[c] = conn[c] /\ tool'[c] = tool[c] /\ wrote'[c] = wrote[c] /\ taken'[c] = taken[c]
      BY <1>1, <1>7, <2>2, ToolTypes
    <3> QED BY <1>3, <1>4, <3>1
  <2> QED BY <2>1, <2>2
<1> QED BY <1>5, <1>6, <1>7 DEF Next

-----------------------------------------------------------------------------
(* Where the bytes are that patient tools have sent, or are to have.          *)

LEMMA ReceivedType ==
    ASSUME Types, NEW c \in Clients
    PROVE  Received(c) \in Seq(Byte)
BY Joins

LEMMA ReceivedStays ==
    ASSUME IInv, Types', Outcome, UNCHANGED taken, Patient, NEW c \in Clients
    PROVE  Received(c)' = IF Gives /\ confd = c THEN Received(c) \o m_buf ELSE Received(c)
<1>1. Types /\ OneServed /\ Ends
  BY DEF IInv
<1>2. CASE ~(Gives /\ confd = c)
  <2>1. conn'[c].down = conn[c].down
    BY <1>1, <1>2, DownStays
  <2> QED BY <1>2, <2>1 DEF Received
<1>3. CASE Gives /\ confd = c
  <2>1. ~conn[c].gone
    BY <1>1, <1>3 DEF Gives, OneServed, Ends, Patient, Types
  <2>2. ~Takes /\ pc = "send" /\ pc' # "send"
    BY <1>3 DEF Gives, Takes
  <2>3. Given(c) = Received(c) \o m_buf
    BY <1>3, <2>1, <2>2 DEF Given
  <2>4. Given(c)' = Given(c)
    BY <1>3, <2>2, GivenStays
  <2>5. Types => (pc # "send" => Given(c) = Received(c))
    BY Joins
  <2>6. (Types => (pc # "send" => Given(c) = Received(c)))'
    BY <2>5, Joins, PTL
  <2> QED BY <1>3, <2>2, <2>3, <2>4, <2>6
<1> QED BY <1>2, <1>3

\* The steps of the device.
LEMMA DeviceAround ==
    ASSUME Types, Device, tty'.up
    PROVE  \/ /\ tty.out # <<>> /\ Head(tty.out) \in Byte /\ tty'.in = tty.in
              /\ Unanswered' = Append(Unanswered, Head(tty.out)) /\ tty'.out = Tail(tty.out)
           \/ /\ Unanswered # <<>> /\ Unanswered[1] \in Byte /\ tty'.out = tty.out
              /\ tty'.in = Append(tty.in, Unanswered[1]) /\ Unanswered' = Tail(Unanswered)
           \/ \E n \in 1 .. unasked : /\ tty'.in = Append(tty.in, [to |-> 0, n |-> n])
                                      /\ tty'.out = tty.out /\ Unanswered' = Unanswered
<1>1. heard \in Seq(Byte) /\ answered \in 0 .. Len(heard) /\ tty.out \in Seq(Byte)
      /\ tty \in [up : BOOLEAN, in : Seq(Byte), out : Seq(Byte)] /\ Len(heard) \in Nat
  BY LenProperties DEF Types
<1>2. CASE Hear
  <2>1. tty.out # <<>> /\ tty'.in = tty.in /\ tty'.out = Tail(tty.out)
        /\ heard' = Append(heard, Head(tty.out)) /\ answered' = answered
    BY <1>1, <1>2 DEF Hear
  <2>2. Head(tty.out) \in Byte
    BY <1>1, <2>1, HeadTailProperties
  <2>3. Unanswered' = Append(Unanswered, Head(tty.out))
    BY <1>1, <2>1, <2>2, RestStep DEF Unanswered
  <2> QED BY <2>1, <2>2, <2>3
<1>3. CASE Answer
  <2>1. answered < Len(heard) /\ answered' = answered + 1 /\ heard' = heard
        /\ tty'.in = Append(tty.in, heard[answered + 1]) /\ tty'.out = tty.out
    BY <1>1, <1>3 DEF Answer, Say
  <2>2. Unanswered # <<>> /\ Unanswered[1] = heard[answered + 1] /\ heard[answered + 1] \in Byte
        /\ Unanswered' = Tail(Unanswered)
    BY <1>1, <2>1, RestStep DEF Unanswered
  <2> QED BY <2>1, <2>2
<1>4. CASE Tell
  <2>1. told + 1 \in 1 .. unasked /\ tty'.in = Append(tty.in, [to |-> 0, n |-> told + 1])
        /\ tty'.out = tty.out /\ heard' = heard /\ answered' = answered
    BY <1>1, <1>4 DEF Tell, Say, Types
  <2> QED BY <2>1 DEF Unanswered
<1>5. ~Unplug
  BY DEF Unplug
<1> QED BY <1>2, <1>3, <1>4, <1>5 DEF Device
LEMMA FirstCount ==
    ASSUME NEW q \in Seq(Byte), NEW b
    PROVE  /\ Count(First(q), b) \in Nat
           /\ Count(SubSeq(q, Len(First(q)) + 1, Len(q)), b) \in Nat
           /\ Count(q, b) = Count(First(q), b) + Count(SubSeq(q, Len(First(q)) + 1, Len(q)), b)
<1> DEFINE n == Len(First(q))
<1>1. First(q) \in Seq(Byte) /\ n \in 0 .. Len(q) /\ Len(q) \in Nat
      /\ \A k \in 1 .. n : First(q)[k] = q[k]
  BY FirstTypes
<1> HIDE DEF n
<1>2. SubSeq(q, 1, n) \in Seq(Byte) /\ Len(SubSeq(q, 1, n)) = n
      /\ (\A k \in 1 .. n : SubSeq(q, 1, n)[k] = q[k]) /\ SubSeq(q, n + 1, Len(q)) \in Seq(Byte)
  BY <1>1, Cut
<1>3. First(q) = SubSeq(q, 1, n)
  <2>1. \A k \in 1 .. n : SubSeq(q, 1, n)[k] = First(q)[k]
    BY <1>1, <1>2
  <2>2. Len(First(q)) = n
    BY DEF n
  <2> QED BY <1>1, <1>2, <2>1, <2>2, SeqEqual
<1>4. Count(q, b) = Count(SubSeq(q, 1, n), b) + Count(SubSeq(q, n + 1, Len(q)), b)
  BY <1>1, CountCut
<1>5. Count(SubSeq(q, 1, n), b) \in Nat /\ Count(SubSeq(q, n + 1, Len(q)), b) \in Nat
  BY <1>2, CountType
<1> QED BY <1>3, <1>4, <1>5 DEF n

\* What netuart reads of a client is that client's.
LEMMA ListensOwn ==
    ASSUME IInv, Listens, tty.up
    PROVE  AllOf(First(conn[confd].up), {confd})
<1>1. Types /\ OneServed /\ \A c \in Clients : CommandsOf(c)
  BY DEF IInv
<1>2. confd \in Clients /\ conn[confd].server = "accepted" /\ conn[confd].up \in Seq(Byte)
  BY <1>1 DEF Listens, OneServed, Types, Conns
<1>3. PICK place, len \in Nat : Sending(confd, place, len)
  BY <1>1, <1>2 DEF CommandsOf
<1>4. \A k \in 1 .. Len(conn[confd].up) : conn[confd].up[k] = [to |-> confd, n |-> len + k]
  BY <1>2, <1>3 DEF Sending
<1>5. Len(First(conn[confd].up)) \in 0 .. Len(conn[confd].up) /\ Len(conn[confd].up) \in Nat
      /\ \A i \in 1 .. Len(First(conn[confd].up)) : First(conn[confd].up)[i] = conn[confd].up[i]
  BY <1>2, FirstTypes
<1>6. ASSUME NEW i \in 1 .. Len(First(conn[confd].up))
      PROVE  First(conn[confd].up)[i].to = confd
  <2>1. i \in 1 .. Len(conn[confd].up)
    BY <1>5
  <2>2. conn[confd].up[i] = [to |-> confd, n |-> len + i]
    BY <1>4, <2>1
  <2>3. First(conn[confd].up)[i] = [to |-> confd, n |-> len + i]
    BY <1>5, <2>2
  <2> QED BY <2>3
<1> QED BY <1>6 DEF AllOf

LEMMA StepOwned ==
    ASSUME AInv, [Next]_vars
    PROVE  Owned'
<1>1. IInv /\ Types /\ OneServed /\ Stays /\ Types' /\ habit' = habit /\ Idle /\ Ready
      /\ Unplugged /\ Finished /\ Owned /\ Once /\ \A c \in Clients : CommandsOf(c)
  BY StepTypes, ByteStays DEF AInv, IInv
<1> SUFFICES ASSUME Patient
             PROVE  /\ pc' = "send" \/ (pc' = "write" /\ tty'.up) => AllOf(m_buf', {0, confd'})
                    /\ \A c \in Clients : AllOf(Received(c)', {0, c})
                    /\ tty'.up => AllOf(tty'.in, Own') /\ AllOf(tty'.out, Own')
                                  /\ AllOf(Unanswered', Own')
  <2>1. Patient' = Patient
    BY <1>1 DEF Patient
  <2>2. \A s, S : AllOf(s, S)' = AllOf(s', S')
    BY DEF AllOf
  <2> QED BY <2>1 DEF Owned, AllOf
<1>2. /\ pc = "send" \/ (pc = "write" /\ tty.up) => AllOf(m_buf, {0, confd})
      /\ \A c \in Clients : AllOf(Received(c), {0, c})
      /\ tty.up => AllOf(tty.in, Own) /\ AllOf(tty.out, Own) /\ AllOf(Unanswered, Own)
  BY <1>1 DEF Owned
<1>3. tty'.up => tty.up
  BY <1>1, StillUp
<1>4. m_buf \in Seq(Byte) /\ tty \in [up : BOOLEAN, in : Seq(Byte), out : Seq(Byte)]
      /\ tty.in \in Seq(Byte) /\ tty.out \in Seq(Byte) /\ Unanswered \in Seq(Byte)
      /\ 0 \in Own /\ (\A c \in Clients : Received(c) \in Seq(Byte))
  BY <1>1, UnansweredType, ReceivedType DEF Types, Own
<1>5. CASE Device
  <2>1. UNCHANGED <<conn, taken, pc, confd, m_connected, m_buf>>
    BY <1>5 DEF Device, llvars
  <2>2. Own' = Own /\ \A c \in Clients : Received(c)' = Received(c)
    BY <2>1 DEF Own, Received
  <2>3. ASSUME tty'.up
        PROVE  AllOf(tty'.in, Own) /\ AllOf(tty'.out, Own) /\ AllOf(Unanswered', Own)
    <3>1. CASE /\ tty.out # <<>> /\ Head(tty.out) \in Byte /\ tty'.in = tty.in
               /\ Unanswered' = Append(Unanswered, Head(tty.out)) /\ tty'.out = Tail(tty.out)
      <4>1. AllOf(Tail(tty.out), Own) /\ Head(tty.out).to \in Own
        <5>1. Head(tty.out) = tty.out[1]
          BY <1>4, <3>1, HeadTailProperties
        <5> QED BY <1>2, <1>3, <1>4, <2>3, <3>1, <5>1, AllTail
      <4>2. AllOf(Unanswered', Own)
        BY <1>2, <1>3, <1>4, <2>3, <3>1, <4>1, AllAppend
      <4> QED BY <1>2, <1>3, <2>3, <3>1, <4>1, <4>2
    <3>2. CASE /\ Unanswered # <<>> /\ Unanswered[1] \in Byte /\ tty'.out = tty.out
               /\ tty'.in = Append(tty.in, Unanswered[1]) /\ Unanswered' = Tail(Unanswered)
      <4>1. AllOf(Tail(Unanswered), Own) /\ Unanswered[1].to \in Own
        BY <1>2, <1>3, <1>4, <2>3, <3>2, AllTail
      <4>2. AllOf(tty'.in, Own)
        BY <1>2, <1>3, <1>4, <2>3, <3>2, <4>1, AllAppend
      <4> QED BY <1>2, <1>3, <2>3, <3>2, <4>1, <4>2
    <3>3. CASE \E n \in 1 .. unasked : /\ tty'.in = Append(tty.in, [to |-> 0, n |-> n])
                                       /\ tty'.out = tty.out /\ Unanswered' = Unanswered
      <4>1. PICK n \in 1 .. unasked : /\ tty'.in = Append(tty.in, [to |-> 0, n |-> n])
                                      /\ tty'.out = tty.out /\ Unanswered' = Unanswered
        BY <3>3
      <4>2. [to |-> 0, n |-> n] \in Byte /\ [to |-> 0, n |-> n].to = 0
        <5>1. n \in 1 .. Commands + unasked
          BY <1>1, BridgeAssumption DEF Types
        <5> QED BY <5>1 DEF Byte
      <4>3. AllOf(tty'.in, Own)
        BY <1>2, <1>3, <1>4, <2>3, <4>1, <4>2, AllAppend
      <4> QED BY <1>2, <1>3, <2>3, <4>1, <4>3
    <3> QED BY <1>1, <1>5, <2>3, <3>1, <3>2, <3>3, DeviceAround
  <2> QED BY <1>2, <1>3, <2>1, <2>2, <2>3
<1>6. CASE NetUart
  <2>1. Outcome /\ UNCHANGED <<taken, heard, answered>> /\ Unanswered' = Unanswered
        /\ tty'.up = tty.up
    <3>1. Outcome /\ UNCHANGED <<taken, heard, answered>>
      BY <1>1, <1>6, NetUartStep DEF NetUart, llvars
    <3> QED BY <1>1, <3>1, NetUartHears DEF Unanswered
  <2>2. ASSUME NEW c \in Clients PROVE AllOf(Received(c)', {0, c})
    <3>1. CASE Gives /\ confd = c
      <4>1. AllOf(Received(c) \o m_buf, {0, c})
        BY <1>2, <1>4, <3>1, AllJoin DEF Gives
      <4> QED BY <1>1, <2>1, <3>1, <4>1, ReceivedStays
    <3>2. CASE ~(Gives /\ confd = c)
      BY <1>1, <1>2, <2>1, <3>2, ReceivedStays
    <3> QED BY <3>1, <3>2
  <2>3. ASSUME Own \subseteq Own', tty'.up, tty'.in = tty.in \/ Takes,
               tty'.out = tty.out \/ \E nw \in 1 .. Len(m_buf) : WritesOut(nw)
        PROVE  AllOf(tty'.in, Own') /\ AllOf(tty'.out, Own') /\ AllOf(Unanswered', Own')
    <3>1. AllOf(tty.in, Own) /\ AllOf(tty.out, Own) /\ AllOf(Unanswered, Own)
      BY <1>2, <1>3, <2>3
    <3>2. AllOf(tty'.in, Own)
      <4>1. CASE Takes
        <5>1. tty'.in = SubSeq(tty.in, Len(First(tty.in)) + 1, Len(tty.in))
              /\ Len(First(tty.in)) \in 0 .. Len(tty.in)
          BY <1>4, <4>1, FirstTypes DEF Takes
        <5> QED BY <1>4, <3>1, <5>1, AllCut
      <4> QED BY <2>3, <3>1, <4>1
    <3>3. AllOf(tty'.out, Own)
      <4>1. CASE \E nw \in 1 .. Len(m_buf) : WritesOut(nw)
        <5>1. PICK nw \in 1 .. Len(m_buf) : WritesOut(nw)
          BY <4>1
        <5>2. pc = "write" /\ tty'.out = tty.out \o SubSeq(m_buf, 1, nw)
              /\ nw \in 0 .. Len(m_buf) /\ AllOf(m_buf, {0, confd}) /\ {0, confd} \subseteq Own
          <6>1. pc = "write" /\ tty'.out = tty.out \o SubSeq(m_buf, 1, nw) /\ tty.up
            BY <1>4, <5>1 DEF WritesOut
          <6>2. nw \in 0 .. Len(m_buf)
            BY <1>4, LenProperties
          <6> QED BY <1>1, <1>2, <6>1, <6>2 DEF OneServed, Own
        <5>3. AllOf(SubSeq(m_buf, 1, nw), Own) /\ SubSeq(m_buf, 1, nw) \in Seq(Byte)
          BY <1>4, <5>2, AllCut, AllMore, Cut
        <5> QED BY <1>4, <3>1, <5>2, <5>3, AllJoin
      <4> QED BY <2>3, <3>1, <4>1
    <3> QED BY <2>1, <2>3, <3>1, <3>2, <3>3, AllMore
  <2>4. CASE Takes
    <3>1. Own' = Own /\ tty'.out = tty.out /\ confd' = confd
      BY <1>4, <2>4 DEF Takes, Rests, Own
    <3>2. tty.up
      <4>1. Waits
        BY <1>1 DEF IInv
      <4> QED BY <2>4, <4>1 DEF Takes, Waits
    <3>3. pc' # "write" /\ (pc' = "send" => AllOf(m_buf', {0, confd}))
      <4>1. ASSUME pc' = "send" PROVE AllOf(m_buf', {0, confd})
        <5>1. m_buf' = First(tty.in) /\ confd # 0 /\ pc = "tty"
          BY <2>4, <4>1 DEF Takes
        <5>2. Own = {0, confd}
          BY <1>1, <5>1 DEF OneServed, Own
        <5>3. AllOf(First(tty.in), Own)
          <6>1. Len(First(tty.in)) \in 0 .. Len(tty.in) /\ Len(tty.in) \in Nat
                /\ \A i \in 1 .. Len(First(tty.in)) : First(tty.in)[i] = tty.in[i]
            BY <1>4, FirstTypes
          <6>2. AllOf(tty.in, Own)
            BY <1>2, <3>2
          <6> QED BY <6>1, <6>2 DEF AllOf
        <5> QED BY <5>1, <5>2, <5>3
      <4>2. pc' \in {"poll", "send"}
        BY <2>4 DEF Takes
      <4> QED BY <4>1, <4>2
    <3> QED BY <2>2, <2>3, <2>4, <3>1, <3>3
  <2>5. CASE Listens
    <3>1. Own' = Own /\ tty' = tty /\ confd' = confd /\ pc' = "write"
          /\ m_buf' = First(conn[confd].up) /\ confd \in Clients
          /\ conn[confd].server = "accepted" /\ conn[confd].up \in Seq(Byte)
      BY <1>1, <2>5 DEF Listens, Rests, Own, OneServed, Types, Conns
    <3>2. ASSUME tty.up PROVE AllOf(m_buf', {0, confd})
      <4>1. AllOf(First(conn[confd].up), {confd})
        BY <1>1, <2>5, <3>2, ListensOwn
      <4> QED BY <3>1, <4>1 DEF AllOf
    <3> QED BY <2>1, <2>2, <2>3, <3>1, <3>2
  <2>6. CASE \E nw \in 1 .. Len(m_buf) : WritesOut(nw)
    <3>1. PICK nw \in 1 .. Len(m_buf) : WritesOut(nw)
      BY <2>6
    <3>2. Own' = Own /\ confd' = confd /\ pc' # "send" /\ tty'.in = tty.in /\ tty.up /\ pc = "write"
          /\ m_buf' = SubSeq(m_buf, nw + 1, Len(m_buf)) /\ nw \in 0 .. Len(m_buf)
      <4>1. nw \in 0 .. Len(m_buf)
        BY <1>4, LenProperties
      <4> QED BY <1>4, <3>1, <4>1 DEF WritesOut, Rests, Own
    <3>3. AllOf(m_buf', {0, confd'})
      BY <1>2, <1>4, <3>2, AllCut
    <3> QED BY <2>2, <2>3, <2>6, <3>2, <3>3
  <2>7. CASE HangsUp
    <3>1. tty' = tty /\ pc' = "accept" /\ Own' = {0} /\ confd' = confd
      BY <2>7 DEF HangsUp, Own
    <3>2. ASSUME tty.up, NEW s \in Seq(Byte), AllOf(s, Own),
                 \A b \in Byte : b.to = confd => Count(s, b) = 0
          PROVE  AllOf(s, {0})
      <4>1. m_connected /\ Own = {0, confd}
        BY <1>1, <2>7, <3>2, HangsUpLast DEF Own
      <4>2. ASSUME NEW i \in 1 .. Len(s) PROVE s[i].to = 0
        <5>1. s[i] \in Byte /\ s[i].to \in {0, confd}
          BY <3>2, <4>1, ElementOfSeq DEF AllOf
        <5>2. Count(s, s[i]) # 0
          BY <3>2, CountType
        <5> QED BY <3>2, <5>1, <5>2
      <4> QED BY <4>2 DEF AllOf
    <3>3. ASSUME tty.up
          PROVE  AllOf(tty.in, {0}) /\ AllOf(tty.out, {0}) /\ AllOf(Unanswered, {0})
      <4>1. confd \in Clients /\ tool[confd] \in {"closing", "left"}
        BY <1>1, <2>7, <3>3, HangsUpLast
      <4>2. \A b \in Byte : b.to = confd => Count(tty.in, b) = 0 /\ Count(tty.out, b) = 0
                                            /\ Count(Unanswered, b) = 0
        BY <1>1, <3>3, <4>1, AllTaken
      <4> QED BY <1>2, <1>4, <3>2, <3>3, <4>2
    <3> QED BY <2>1, <2>2, <3>1, <3>3
  <2>8. CASE Gives
    <3>1. Own' = Own /\ tty' = tty /\ pc' = "skt"
      BY <2>8 DEF Gives, Rests, Own
    <3> QED BY <2>2, <2>3, <3>1
  <2>9. CASE Exits \/ Opens \/ (\E c \in Clients : Accepts(c)) \/ Idles \/ Polls \/ Passes \/ Serves
             \/ Turns
    <3>1. tty' = tty /\ pc' \notin {"send", "write"}
      BY <2>9 DEF Exits, Opens, Accepts, Idles, Polls, Passes, Serves, Turns
    <3>2. Own \subseteq Own'
      <4>1. CASE Exits \/ Opens \/ Polls \/ Passes \/ Turns
        BY <4>1 DEF Exits, Opens, Polls, Passes, Turns, Rests, Own
      <4>2. CASE (\E c \in Clients : Accepts(c)) \/ Idles
        BY <1>1, <4>2 DEF Accepts, Idles, OneServed, Own
      <4>3. CASE Serves
        BY <4>3 DEF Serves, Own
      <4> QED BY <2>9, <4>1, <4>2, <4>3
    <3> QED BY <2>2, <2>3, <3>1, <3>2
  <2> QED BY <2>1, <2>4, <2>5, <2>6, <2>7, <2>8, <2>9 DEF Outcome
<1>7. ASSUME NEW d \in Clients, Tool(d)
      PROVE  /\ pc' = "send" \/ (pc' = "write" /\ tty'.up) => AllOf(m_buf', {0, confd'})
             /\ \A c \in Clients : AllOf(Received(c)', {0, c})
             /\ tty'.up => AllOf(tty'.in, Own') /\ AllOf(tty'.out, Own')
                           /\ AllOf(Unanswered', Own')
  <2>1. UNCHANGED <<pc, confd, m_connected, m_buf, tty, heard, answered>>
    BY <1>7 DEF Tool, nuvars
  <2>2. Own' = Own /\ Unanswered' = Unanswered
    BY <2>1 DEF Own, Unanswered
  <2>3. ASSUME NEW c \in Clients PROVE Received(c)' = Received(c)
    <3>1. CASE c = d
      BY <1>1, <1>7, <3>1, PatientTool DEF Patient
    <3>2. CASE c # d
      <4>1. conn'[c] = conn[c] /\ taken'[c] = taken[c]
        BY <1>1, <1>7, <3>2, ToolTypes
      <4> QED BY <4>1 DEF Received
    <3> QED BY <3>1, <3>2
  <2> QED BY <1>2, <2>1, <2>2, <2>3
<1>8. CASE UNCHANGED vars
  <2>1. UNCHANGED <<conn, taken, pc, confd, m_connected, m_buf, tty, heard, answered>>
    BY <1>8 DEF vars, nuvars, llvars
  <2>2. Own' = Own /\ Unanswered' = Unanswered /\ \A c \in Clients : Received(c)' = Received(c)
    BY <2>1 DEF Own, Unanswered, Received
  <2> QED BY <1>2, <2>1, <2>2
<1> QED BY <1>5, <1>6, <1>7, <1>8 DEF Next
\* The chunk in hand before and after a step of netuart, as a byte's place.
LEMMA NetUartOnce ==
    ASSUME AInv, Types', Outcome, UNCHANGED <<taken, heard, answered>>, Patient, tty.up,
           NEW b \in Byte, b.to # 0
    PROVE  Count(conn'[b.to].up, b) + Around(b)' + Count(Received(b.to)', b)
             = Count(conn[b.to].up, b) + Around(b) + Count(Received(b.to), b)
<1> DEFINE c == b.to
<1>1. IInv /\ Types /\ OneServed /\ Idle /\ Ready /\ Finished /\ Owned
      /\ c \in Clients /\ c # 0
  BY DEF AInv, IInv, Byte
<1> DEFINE q == conn[c].up
<1> DEFINE r == Received(c)
<1> DEFINE i == tty.in
<1> DEFINE o == tty.out
<1>2. m_buf \in Seq(Byte) /\ tty \in [up : BOOLEAN, in : Seq(Byte), out : Seq(Byte)]
      /\ i \in Seq(Byte) /\ o \in Seq(Byte) /\ Unanswered \in Seq(Byte)
      /\ q \in Seq(Byte) /\ r \in Seq(Byte)
  BY <1>1, UnansweredType, ReceivedType DEF Types, Conns
<1>3. Count(q, b) \in Nat /\ Count(r, b) \in Nat /\ Count(i, b) \in Nat /\ Count(o, b) \in Nat
      /\ Count(m_buf, b) \in Nat /\ Count(Unanswered, b) \in Nat /\ Count(<<>>, b) = 0
  <2> HIDE DEF q, r, i, o, c
  <2> QED BY <1>2, CountType, CountEmpty
<1>4. Unanswered' = Unanswered
  BY DEF Unanswered
<1>5. conn'[c].up = q \/ (HangsUp /\ confd = c /\ q = <<>> /\ conn'[c].up = <<>>)
        \/ (Listens /\ confd = c /\ conn'[c].up = SubSeq(q, Len(First(q)) + 1, Len(q)))
  <2>1. ~Exits
    BY DEF Exits
  <2>2. HangsUp => conn[confd].up = <<>>
    BY <1>1, HangsUpLast
  <2> QED BY <1>1, <2>1, <2>2, UpStays
<1>6. Received(c)' = IF Gives /\ confd = c THEN r \o m_buf ELSE r
  BY <1>1, ReceivedStays
<1> DEFINE q2 == conn'[c].up
<1> DEFINE r2 == Received(c)'
<1> DEFINE i2 == tty'.in
<1> DEFINE o2 == tty'.out
<1> DEFINE Same == Count(q2, b) + (Count(m_buf', b) + Count(o2, b) + Count(Unanswered, b) + Count(i2, b))
                     + Count(r2, b)
                 = Count(q, b) + (Count(m_buf, b) + Count(o, b) + Count(Unanswered, b) + Count(i, b))
                     + Count(r, b)
<1> DEFINE Goal == Count(conn'[c].up, b) + Around(b)' + Count(Received(c)', b)
                   = Count(conn[c].up, b) + Around(b) + Count(Received(c), b)
<1>7. Same => Goal
  <2>1. Around(b)' = Count(m_buf', b) + Count(o2, b) + Count(Unanswered, b) + Count(i2, b)
    BY <1>4 DEF Around, Count
  <2>2. Around(b) = Count(m_buf, b) + Count(o, b) + Count(Unanswered, b) + Count(i, b)
    BY DEF Around
  <2> HIDE DEF q, r, i, o, q2, r2, i2, o2
  <2> QED BY <2>1, <2>2 DEF q, r, q2, r2
<1> SUFFICES Goal
  OBVIOUS
<1> HIDE DEF Goal
<1>8. CASE Takes
  <2>1. q2 = q /\ r2 = r /\ o2 = o /\ i2 = SubSeq(i, Len(First(i)) + 1, Len(i)) /\ pc = "tty"
        /\ m_buf' = (IF confd = 0 THEN m_buf ELSE First(i))
    <3>1. pc = "tty" /\ i2 = SubSeq(i, Len(First(i)) + 1, Len(i)) /\ o2 = o
          /\ m_buf' = (IF confd = 0 THEN m_buf ELSE First(i))
      BY <1>2, <1>8 DEF Takes
    <3>2. ~HangsUp /\ ~Listens /\ ~Gives
      BY <1>8 DEF Takes, HangsUp, Listens, Gives
    <3> QED BY <1>5, <1>6, <3>1, <3>2
  <2>2. m_buf = <<>>
    BY <1>1, <2>1 DEF Idle
  <2> HIDE DEF q, r, i, o, q2, r2, i2, o2, c
  <2>4. Count(i, b) = Count(First(i), b) + Count(i2, b)
        /\ Count(First(i), b) \in Nat /\ Count(i2, b) \in Nat
    BY <1>2, <2>1, FirstCount
  <2>5. CASE confd # 0
    BY <1>3, <2>1, <2>2, <2>4, <2>5, <1>7
  <2>6. CASE confd = 0
    <3>1. Count(i, b) = 0
      <4>1. AllOf(i, {0})
        BY <1>1, <2>6 DEF Owned, Own, i
      <4> QED BY <1>1, <1>2, <4>1, AllNone DEF c
    <3>2. Count(i2, b) = 0
      BY <2>4, <3>1
    <3> QED BY <1>3, <1>7, <2>1, <2>6, <3>1, <3>2
  <2> QED BY <2>5, <2>6
<1>9. CASE Gives
  <2>1. pc = "send" /\ m_buf' = <<>> /\ i2 = i /\ o2 = o /\ q2 = q
    <3>1. ~HangsUp /\ ~Listens
      BY <1>9 DEF Gives, HangsUp, Listens
    <3> QED BY <1>5, <1>9, <3>1 DEF Gives
  <2>2. CASE confd = c
    <3>1. Count(r2, b) = Count(r, b) + Count(m_buf, b)
      <4>1. r2 = r \o m_buf
        BY <1>6, <1>9, <2>2
      <4> HIDE DEF r, r2
      <4> QED BY <1>2, <4>1, CountJoin
    <3> HIDE DEF q, r, i, o, q2, r2, i2, o2, c
    <3> QED BY <1>3, <1>7, <2>1, <3>1
  <2>3. CASE confd # c
    <3>1. r2 = r
      BY <1>6, <2>3
    <3>2. Count(m_buf, b) = 0
      <4>1. AllOf(m_buf, {0, confd})
        BY <1>1, <2>1 DEF Owned
      <4> QED BY <1>1, <1>2, <2>3, <4>1, AllNone
    <3> HIDE DEF q, r, i, o, q2, r2, i2, o2, c
    <3> QED BY <1>3, <1>7, <2>1, <3>1, <3>2
  <2> QED BY <2>2, <2>3
<1>10. CASE Listens
  <2>1. pc = "skt" /\ m_buf' = First(conn[confd].up) /\ i2 = i /\ o2 = o /\ r2 = r
        /\ confd \in Clients
    <3>1. ~Gives
      BY <1>10 DEF Gives, Listens
    <3> QED BY <1>1, <1>6, <1>10, <3>1 DEF Listens, OneServed, Types
  <2>2. m_buf = <<>>
    BY <1>1, <2>1 DEF Idle
  <2>3. CASE confd = c
    <3>1. q2 = SubSeq(q, Len(First(q)) + 1, Len(q)) /\ m_buf' = First(q)
      <4>1. ~HangsUp
        BY <1>10 DEF HangsUp, Listens
      <4>2. conn'[c].up = SubSeq(q, Len(First(q)) + 1, Len(q))
        BY <1>1, <1>10, <2>3, UpStays, <4>1 DEF Exits, Listens
      <4> QED BY <2>1, <2>3, <4>2
    <3> HIDE DEF q, r, i, o, q2, r2, i2, o2, c
    <3>3. Count(q, b) = Count(First(q), b) + Count(q2, b)
          /\ Count(First(q), b) \in Nat /\ Count(q2, b) \in Nat
      BY <1>2, <3>1, FirstCount
    <3> QED BY <1>3, <1>7, <2>1, <2>2, <3>1, <3>3
  <2>4. CASE confd # c
    <3>1. q2 = q
      BY <1>5, <1>10, <2>4 DEF HangsUp, Listens
    <3>2. Count(m_buf', b) = 0
      <4>1. AllOf(First(conn[confd].up), {confd}) /\ First(conn[confd].up) \in Seq(Byte)
        <5>1. conn[confd].up \in Seq(Byte)
          BY <1>1, <2>1 DEF Types, Conns
        <5> QED BY <1>1, <1>10, <5>1, ListensOwn, FirstTypes
      <4> QED BY <2>1, <2>4, <4>1, AllNone
    <3> HIDE DEF q, r, i, o, q2, r2, i2, o2, c
    <3> QED BY <1>3, <1>7, <2>1, <2>2, <3>1, <3>2
  <2> QED BY <2>3, <2>4
<1>11. CASE \E nw \in 1 .. Len(m_buf) : WritesOut(nw)
  <2>1. PICK nw \in 1 .. Len(m_buf) : WritesOut(nw)
    BY <1>11
  <2>2. q2 = q /\ r2 = r /\ i2 = i /\ o2 = o \o SubSeq(m_buf, 1, nw)
        /\ m_buf' = SubSeq(m_buf, nw + 1, Len(m_buf)) /\ nw \in 0 .. Len(m_buf)
    <3>1. ~HangsUp /\ ~Listens /\ ~Gives
      BY <2>1 DEF WritesOut, HangsUp, Listens, Gives
    <3>2. nw \in 0 .. Len(m_buf)
      BY <1>2, LenProperties
    <3> QED BY <1>2, <1>5, <1>6, <2>1, <3>1, <3>2 DEF WritesOut
  <2> HIDE DEF q, r, i, o, q2, r2, i2, o2, c
  <2>3. Count(m_buf, b) = Count(SubSeq(m_buf, 1, nw), b) + Count(m_buf', b)
        /\ SubSeq(m_buf, 1, nw) \in Seq(Byte) /\ m_buf' \in Seq(Byte)
    BY <1>2, <2>2, CountCut, Cut
  <2>4. Count(o2, b) = Count(o, b) + Count(SubSeq(m_buf, 1, nw), b)
    <3> DEFINE part == SubSeq(m_buf, 1, nw)
    <3>1. o2 = o \o part /\ o \in Seq(Byte) /\ part \in Seq(Byte)
      BY <1>2, <2>2, <2>3
    <3> HIDE DEF part
    <3>2. Count(o \o part, b) = Count(o, b) + Count(part, b)
      BY <3>1, CountJoin
    <3> QED BY <3>1, <3>2 DEF part
  <2>5. Count(SubSeq(m_buf, 1, nw), b) \in Nat /\ Count(m_buf', b) \in Nat
    BY <2>3, CountType
  <2> QED BY <1>3, <1>7, <2>2, <2>3, <2>4, <2>5
<1>12. CASE HangsUp
  <2>1. i2 = i /\ o2 = o /\ m_buf' = m_buf /\ q2 = q /\ r2 = r
    <3>1. m_buf' = m_buf /\ tty' = tty /\ ~Gives /\ ~Listens
      BY <1>1, <1>12, HangsUpLast DEF HangsUp, Gives, Listens
    <3> QED BY <1>5, <1>6, <3>1
  <2> QED BY <1>7, <2>1
<1>13. CASE Opens \/ (\E d \in Clients : Accepts(d)) \/ Idles \/ Polls \/ Passes \/ Serves \/ Turns
  <2>1. ~Gives /\ ~Listens /\ ~HangsUp /\ tty' = tty /\ m_buf' = m_buf
    BY <1>13 DEF Opens, Accepts, Idles, Polls, Passes, Serves, Turns, Gives, Listens, HangsUp
  <2>2. q2 = q /\ r2 = r /\ i2 = i /\ o2 = o
    BY <1>5, <1>6, <2>1
  <2> QED BY <1>7, <2>1, <2>2
<1>14. ~Exits
  BY DEF Exits
<1> QED BY <1>8, <1>9, <1>10, <1>11, <1>12, <1>13, <1>14 DEF Outcome
LEMMA StepOnce ==
    ASSUME AInv, [Next]_vars
    PROVE  Once'
<1>1. IInv /\ Types /\ OneServed /\ Stays /\ Types' /\ Unplugged /\ Finished /\ Once
      /\ habit' = habit /\ Byte' = Byte
  BY StepTypes, ByteStays DEF AInv, IInv
<1> SUFFICES ASSUME Patient, tty'.up, NEW b \in Byte, b.to # 0
             PROVE  Count(conn'[b.to].up, b) + Around(b)' + Count(Received(b.to)', b)
                      = IF b.n <= wrote'[b.to] THEN 1 ELSE 0
  <2>1. Patient' = Patient
    BY <1>1 DEF Patient
  <2> QED BY <1>1, <2>1 DEF Once, Count
<1> DEFINE c == b.to
<1>2. tty.up /\ c \in Clients /\ b.n \in Nat /\ wrote[c] \in Nat /\ Types
  <2>1. wrote[c] \in Nat
    BY <1>1, OursType DEF Byte
  <2> QED BY <1>1, <2>1, StillUp DEF Byte
<1>3. Count(conn[c].up, b) + Around(b) + Count(Received(c), b)
        = IF b.n <= wrote[c] THEN 1 ELSE 0
  BY <1>1, <1>2 DEF Once
<1>4. m_buf \in Seq(Byte) /\ tty.in \in Seq(Byte) /\ tty.out \in Seq(Byte)
      /\ Unanswered \in Seq(Byte) /\ conn[c].up \in Seq(Byte) /\ Received(c) \in Seq(Byte)
  BY <1>1, <1>2, UnansweredType, ReceivedType DEF Types, Conns
<1>5. Count(m_buf, b) \in Nat /\ Count(tty.in, b) \in Nat /\ Count(tty.out, b) \in Nat
      /\ Count(Unanswered, b) \in Nat /\ Count(conn[c].up, b) \in Nat
      /\ Count(Received(c), b) \in Nat
  <2> HIDE DEF c
  <2> QED BY <1>4, CountType
<1>6. Around(b)' = Count(m_buf', b) + Count(tty'.out, b) + Count(Unanswered', b) + Count(tty'.in, b)
      /\ Around(b) = Count(m_buf, b) + Count(tty.out, b) + Count(Unanswered, b) + Count(tty.in, b)
  BY DEF Around, Count
<1>7. ASSUME conn'[c].up = conn[c].up, Around(b)' = Around(b), Received(c)' = Received(c),
             wrote'[c] = wrote[c]
      PROVE  Count(conn'[b.to].up, b) + Around(b)' + Count(Received(b.to)', b)
               = IF b.n <= wrote'[b.to] THEN 1 ELSE 0
  BY <1>3, <1>7
<1>8. CASE Device
  <2>1. UNCHANGED <<conn, taken, wrote, m_buf>>
    BY <1>8 DEF Device, llvars
  <2>2. Received(c)' = Received(c)
    BY <2>1 DEF Received
  <2>3. Around(b)' = Around(b)
    <3> DEFINE m == Count(m_buf, b)
    <3> DEFINE o == Count(tty.out, b)
    <3> DEFINE u == Count(Unanswered, b)
    <3> DEFINE i == Count(tty.in, b)
    <3> DEFINE o2 == Count(tty'.out, b)
    <3> DEFINE u2 == Count(Unanswered', b)
    <3> DEFINE i2 == Count(tty'.in, b)
    <3>1. m \in Nat /\ o \in Nat /\ u \in Nat /\ i \in Nat
      BY <1>5
    <3>2. ASSUME m + o2 + u2 + i2 = m + o + u + i PROVE Around(b)' = Around(b)
      BY <1>6, <2>1, <3>2
    <3>3. CASE /\ tty.out # <<>> /\ Head(tty.out) \in Byte /\ tty'.in = tty.in
               /\ Unanswered' = Append(Unanswered, Head(tty.out)) /\ tty'.out = Tail(tty.out)
      <4> DEFINE h == IF Head(tty.out) = b THEN 1 ELSE 0
      <4>1. o = o2 + h
        <5>1. Head(tty.out) = tty.out[1]
          BY <1>4, <3>3, HeadTailProperties
        <5> QED BY <1>4, <3>3, <5>1, CountTail
      <4>2. u2 = u + h /\ i2 = i
        BY <1>4, <3>3, CountAppend
      <4>3. o2 \in Nat /\ h \in Nat
        <5>1. Tail(tty.out) \in Seq(Byte)
          BY <1>4, <3>3, HeadTailProperties
        <5> QED BY <3>3, <5>1, CountType
      <4> HIDE DEF m, o, u, i, o2, u2, i2, h
      <4>4. m + o2 + u2 + i2 = m + o + u + i
        BY <3>1, <4>1, <4>2, <4>3
      <4> QED BY <3>2, <4>4 DEF m, o, u, i, o2, u2, i2
    <3>4. CASE /\ Unanswered # <<>> /\ Unanswered[1] \in Byte /\ tty'.out = tty.out
               /\ tty'.in = Append(tty.in, Unanswered[1]) /\ Unanswered' = Tail(Unanswered)
      <4> DEFINE h == IF Unanswered[1] = b THEN 1 ELSE 0
      <4>1. u = u2 + h
        BY <1>4, <3>4, CountTail
      <4>2. i2 = i + h /\ o2 = o
        BY <1>4, <3>4, CountAppend
      <4>3. u2 \in Nat /\ h \in Nat
        <5>1. Tail(Unanswered) \in Seq(Byte)
          BY <1>4, <3>4, HeadTailProperties
        <5> QED BY <3>4, <5>1, CountType
      <4> HIDE DEF m, o, u, i, o2, u2, i2, h
      <4>4. m + o2 + u2 + i2 = m + o + u + i
        BY <3>1, <4>1, <4>2, <4>3
      <4> QED BY <3>2, <4>4 DEF m, o, u, i, o2, u2, i2
    <3>5. CASE \E n \in 1 .. unasked : /\ tty'.in = Append(tty.in, [to |-> 0, n |-> n])
                                       /\ tty'.out = tty.out /\ Unanswered' = Unanswered
      <4>1. PICK n \in 1 .. unasked : /\ tty'.in = Append(tty.in, [to |-> 0, n |-> n])
                                      /\ tty'.out = tty.out /\ Unanswered' = Unanswered
        BY <3>5
      <4>2. [to |-> 0, n |-> n] \in Byte /\ [to |-> 0, n |-> n] # b
        <5>1. n \in 1 .. Commands + unasked
          BY <1>1, BridgeAssumption DEF Types
        <5> QED BY <5>1 DEF Byte
      <4>3. i2 = i + 0
        BY <1>4, <4>1, <4>2, CountAppend
      <4>4. o2 = o /\ u2 = u
        BY <4>1
      <4> HIDE DEF m, o, u, i, o2, u2, i2
      <4>5. m + o2 + u2 + i2 = m + o + u + i
        BY <3>1, <4>3, <4>4
      <4> QED BY <3>2, <4>5 DEF m, o, u, i, o2, u2, i2
    <3> QED BY <1>1, <1>8, <3>3, <3>4, <3>5, DeviceAround
  <2> QED BY <1>7, <2>1, <2>2, <2>3
<1>9. CASE NetUart
  <2>1. Outcome /\ UNCHANGED <<taken, wrote, heard, answered>>
    BY <1>1, <1>9, NetUartStep DEF NetUart, llvars
  <2> QED BY <1>1, <1>2, <1>3, <2>1, NetUartOnce
<1>10. ASSUME NEW d \in Clients, Tool(d)
       PROVE  Count(conn'[b.to].up, b) + Around(b)' + Count(Received(b.to)', b)
                = IF b.n <= wrote'[b.to] THEN 1 ELSE 0
  <2>1. UNCHANGED <<m_buf, tty, heard, answered>>
    BY <1>10 DEF Tool, nuvars
  <2>2. Around(b)' = Around(b)
    BY <2>1 DEF Around, Unanswered
  <2>3. CASE c # d
    <3>1. conn'[c] = conn[c] /\ taken'[c] = taken[c] /\ wrote'[c] = wrote[c]
      BY <1>1, <1>2, <1>10, <2>3, ToolTypes
    <3>2. Received(c)' = Received(c)
      BY <3>1 DEF Received
    <3> QED BY <1>7, <2>2, <3>1, <3>2
  <2>4. CASE c = d
    <3>1. Received(c)' = Received(c)
      BY <1>1, <1>2, <1>10, <2>4, PatientTool DEF Patient
    <3>2. CASE conn'[c].up = conn[c].up /\ wrote'[c] = wrote[c]
      BY <1>7, <2>2, <3>1, <3>2
    <3>3. CASE /\ wrote'[c] = wrote[c] + 1
               /\ conn'[c].up = Append(conn[c].up, [to |-> c, n |-> wrote[c] + 1])
      <4> DEFINE x == [to |-> c, n |-> wrote[c] + 1]
      <4>1. x \in Byte
        <5>1. wrote'[c] \in 0 .. Commands
          BY <1>1, <1>2 DEF Types
        <5>2. unasked \in Nat /\ Commands \in Nat
          BY <1>1, BridgeAssumption DEF Types
        <5>3. wrote[c] + 1 \in 0 .. Commands
          BY <3>3, <5>1
        <5>4. wrote[c] + 1 \in 1 .. Commands + unasked
          BY <1>2, <5>2, <5>3
        <5> QED BY <1>2, <5>4 DEF Byte
      <4>2. x = b <=> b.n = wrote[c] + 1
        BY <1>2 DEF Byte
      <4>3. Count(conn'[c].up, b) = Count(conn[c].up, b) + IF x = b THEN 1 ELSE 0
        BY <1>4, <3>3, <4>1, CountAppend
      <4> DEFINE p == Count(conn[c].up, b)
      <4> DEFINE p2 == Count(conn'[c].up, b)
      <4> DEFINE a == Around(b)
      <4> DEFINE r == Count(Received(c), b)
      <4> DEFINE n == b.n
      <4> DEFINE w == wrote[c]
      <4>4. p \in Nat /\ r \in Nat /\ a \in Nat /\ n \in Nat /\ w \in Nat
            /\ p + a + r = (IF n <= w THEN 1 ELSE 0)
            /\ p2 = p + (IF n = w + 1 THEN 1 ELSE 0)
        <5>1. a \in Nat
          BY <1>5, <1>6
        <5> QED BY <1>2, <1>3, <1>5, <4>2, <4>3, <5>1
      <4>5. p2 + a + r = IF n <= w + 1 THEN 1 ELSE 0
        <5> HIDE DEF p, p2, a, r, n, w
        <5> QED BY <4>4
      <4> QED BY <2>2, <3>1, <3>3, <4>5
    <3> QED BY <1>1, <1>2, <1>10, <2>4, <3>2, <3>3, ToolEffect
  <2> QED BY <2>3, <2>4
<1>11. CASE UNCHANGED vars
  <2>1. UNCHANGED <<conn, taken, wrote, m_buf, tty, heard, answered>>
    BY <1>11 DEF vars, nuvars, llvars
  <2>2. Around(b)' = Around(b) /\ Received(c)' = Received(c)
    BY <2>1 DEF Around, Unanswered, Received
  <2> QED BY <1>7, <2>1, <2>2
<1> QED BY <1>8, <1>9, <1>10, <1>11 DEF Next

-----------------------------------------------------------------------------
(* The invariant, and what it says of the runs' properties.                   *)

LEMMA InitAInv == Init => AInv
<1> SUFFICES ASSUME Init PROVE AInv OBVIOUS
<1>1. IInv /\ Idle /\ Ready /\ Unplugged
  BY InitIInv, InitSmall
<1>2. /\ tty.in = <<>> /\ tty.out = <<>> /\ heard = <<>> /\ answered = 0 /\ m_buf = <<>>
      /\ pc = "start"
  BY DEF Init, NuInit
<1>3. ASSUME NEW c \in Clients
      PROVE  conn[c].up = <<>> /\ Received(c) = <<>> /\ wrote[c] = 0 /\ tool[c] = "idle"
             /\ conn[c].upfin = FALSE /\ conn[c].server = "none"
  <2>1. conn[c] = Unconnected /\ taken[c] = <<>> /\ wrote[c] = 0 /\ tool[c] = "idle"
    BY DEF Init, LLInit
  <2>2. conn[c].up = <<>> /\ conn[c].down = <<>> /\ conn[c].upfin = FALSE /\ conn[c].server = "none"
    BY <2>1 DEF Unconnected
  <2>3. <<>> \o <<>> = <<>>
    OBVIOUS
  <2> QED BY <2>1, <2>2, <2>3 DEF Received
<1>4. Unanswered = <<>>
  <2>1. Len(heard) = 0 /\ heard \in Seq(Byte)
    BY <1>2, EmptySeq
  <2>2. Unanswered \in Seq(Byte) /\ Len(Unanswered) = 0
    <3>1. 0 \in 0 .. Len(heard)
      BY <2>1
    <3>2. SubSeq(heard, 0 + 1, Len(heard)) \in Seq(Byte)
          /\ Len(SubSeq(heard, 0 + 1, Len(heard))) = Len(heard) - 0
      BY <2>1, <3>1, Cut
    <3> QED BY <1>2, <2>1, <3>2 DEF Unanswered
  <2> QED BY <2>2, EmptySeq
<1>5. Finished
  BY <1>3 DEF Finished
<1>6. Owned
  BY <1>2, <1>3, <1>4, AllEmpty DEF Owned
<1>7. Once
  <2> SUFFICES ASSUME NEW b \in Byte, b.to # 0
               PROVE  Count(conn[b.to].up, b) + Around(b) + Count(Received(b.to), b)
                        = IF b.n <= wrote[b.to] THEN 1 ELSE 0
    BY DEF Once
  <2>1. b.to \in Clients /\ b.n >= 1 /\ b.n \in Nat
    BY DEF Byte
  <2>2. conn[b.to].up = <<>> /\ Received(b.to) = <<>> /\ wrote[b.to] = 0
    BY <1>3, <2>1
  <2>3. Count(<<>>, b) = 0
    BY CountEmpty
  <2>4. Around(b) = 0
    BY <1>2, <1>4, <2>3 DEF Around
  <2> QED BY <2>1, <2>2, <2>3, <2>4
<1> QED BY <1>1, <1>5, <1>6, <1>7 DEF AInv

LEMMA StepAInv == AInv /\ [Next]_vars => AInv'
<1> SUFFICES ASSUME AInv, [Next]_vars PROVE AInv' OBVIOUS
<1>1. IInv /\ Idle /\ Ready /\ Unplugged /\ Finished /\ Owned /\ Once
  BY DEF AInv
<1>2. IInv'
  BY <1>1, StepIInv
<1> QED BY <1>1, <1>2, StepIdle, StepReady, StepUnplugged, StepFinished, StepOwned, StepOnce DEF AInv

\* The bytes of patient tools: each command or answer is at one place, and that a place
\* of its own client's; a connection ends when its tool has everything.
THEOREM Placed == Spec => []AInv
<1>1. Init => AInv
  BY InitAInv
<1>2. AInv /\ [Next]_vars => AInv'
  BY StepAInv
<1> QED BY <1>1, <1>2, PTL DEF Spec

\* If every tool waits for its answers, none reads the answer to another's command, although
\* nothing on the line says whose an answer is and the flush before a client is served
\* (netuart.cpp:422-424) looks only once: the answers of the one before are gone by then.
THEOREM NobodyElses == Spec => []OwnAnswers
<1>1. AInv => OwnAnswers
  <2> SUFFICES ASSUME AInv, Patient, NEW c \in Clients, NEW i \in DOMAIN Received(c)
               PROVE  Received(c)[i].to \in {0, c}
    BY DEF OwnAnswers, Patient
  <2>1. Types /\ AllOf(Received(c), {0, c})
    BY DEF AInv, IInv, Owned
  <2>2. DOMAIN Received(c) = 1 .. Len(Received(c))
    BY <2>1, ReceivedType, LenProperties
  <2>3. i \in 1 .. Len(Received(c))
    BY <2>2
  <2> QED BY <2>1, <2>3 DEF AllOf
<1> QED BY <1>1, Placed, PTL

\* A patient tool among patient tools, behind a TTY that stays, leaves with the answer to
\* each of its commands: wbregs.cpp and the like ask, read and then delete their link.
THEOREM Answered == Spec => []PatientAnswered
<1>1. AInv => PatientAnswered
  <2> SUFFICES ASSUME AInv, Patient, fixed, NEW c \in Clients, tool[c] = "left",
                      NEW k \in 1 .. Commands
               PROVE  \E i \in DOMAIN taken[c] : taken[c][i] = [to |-> c, n |-> k]
    BY DEF PatientAnswered, Patient
  <2>1. Types /\ Finished /\ Owned /\ Once /\ tty.up
    BY DEF AInv, IInv, Stays
  <2>2. [to |-> c, n |-> k] \in Byte
    <3>1. k \in 1 .. Commands + unasked
      BY <2>1, BridgeAssumption DEF Types
    <3> QED BY <3>1 DEF Byte
  <2>3. [to |-> c, n |-> k].to = c /\ [to |-> c, n |-> k].n <= Commands
    BY BridgeAssumption
  <2> QED BY <2>1, <2>2, <2>3, AllTaken
<1> QED BY <1>1, Placed, PTL

=============================================================================

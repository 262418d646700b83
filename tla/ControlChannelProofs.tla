------------------------ MODULE ControlChannelProofs ------------------------
(***************************************************************************)
(* A client never sees an older state of the pets after a newer one, and   *)
(* what it shows once all is quiet is current, for any clients, scripts,   *)
(* connections and mishaps: ControlChannel implements Mirror.              *)
(*                                                                         *)
(* Why: what the host says to a client travels through two queues, outbox  *)
(* and socket, in the order it was said (Stream), so the versions in it    *)
(* rise from the one the client shows to the host's; a window's connection *)
(* stays in the hub as long as it can be written to, so a change puts an   *)
(* event at the end of that stream; and the last word about the pets in it *)
(* is the host's state, or an answer that brings it is still to come.      *)
(*                                                                         *)
(* And what a client waits for is in one place: whoever takes a request or *)
(* its answer out of one queue puts it into the next (Traces).             *)
(***************************************************************************)
EXTENDS ControlChannel, SequenceTheorems, FiniteSetTheorems, TLAPS

Ops == {"Hello", "ListPets", "Reload", "SetPlacement"}

Hosts == [up : BOOLEAN, ver : Nat, untold : BOOLEAN, exiting : BOOLEAN, speaks : BOOLEAN]
Lines == [tag : {"answer", "pets"}, id : Nat, ok : BOOLEAN, pets : Nat]
Requests == [id : Nat, op : Ops \cup Noise]
Calls == [conn : Conns, id : Nat, op : Ops \cup Noise]
Slots == [owner : Clients \cup Scripts \cup {NoConn}, client : BOOLEAN, accepted : BOOLEAN,
          reader : BOOLEAN, writer : BOOLEAN, hub : BOOLEAN,
          up : Seq(Requests), out : Seq(Lines), down : Seq(Lines)]
Views == [state : {"disconnected", "connecting", "connected", "mismatch", "closed"},
          conn : Conns \cup {NoConn}, next : Nat \ {0},
          pending : SUBSET [id : Nat \ {0}, op : Ops], ver : Nat]

Typed ==
  /\ host \in Hosts
  /\ calls \in Seq(Calls)
  /\ conn \in [Conns -> Slots]
  /\ gui \in [Clients -> Views]

Uncalled(k) == \A i \in 1 .. Len(calls) : calls[i].conn # k

\* What a slot's fields say about each other: nothing lives without an
\* owner, nothing is said before the host accepted, and a window that can be
\* written to is in the hub, since its lines never end the reader.
WiredAs(c, up, uncalled) ==
  /\ c.owner = NoConn => c = Idle /\ uncalled
  /\ c.writer => c.accepted /\ up
  /\ c.reader => c.accepted
  /\ ~c.accepted => c.down = <<>> /\ c.out = <<>> /\ ~c.writer /\ ~c.hub /\ uncalled
  /\ c.owner \in Clients /\ c.client /\ c.writer => c.hub /\ c.reader
  /\ c.owner \in Clients => \A i \in 1 .. Len(c.up) : c.up[i].op \in Ops

\* A client's slot is its own.
Owned(g) ==
  LET k == gui[g].conn IN
  /\ k # NoConn => conn[k].owner = g /\ conn[k].client
  /\ gui[g].state \in {"connecting", "connected", "mismatch"} <=> k # NoConn
  /\ k # NoConn /\ ~conn[k].accepted => gui[g].state = "connecting"

Base ==
  /\ Typed
  /\ \A k \in Conns : WiredAs(conn[k], host.up, Uncalled(k))
  /\ \A g \in Clients : Owned(g)

-----------------------------------------------------------------------------
\* Queues.

LEMMA AppendFacts ==
  ASSUME NEW S, NEW s \in Seq(S), NEW x \in S
  PROVE  /\ Append(s, x) \in Seq(S) /\ Len(Append(s, x)) = Len(s) + 1 /\ Len(s) \in Nat
         /\ Append(s, x)[Len(s) + 1] = x
         /\ \A i \in 1 .. Len(s) : Append(s, x)[i] = s[i]
BY AppendProperties, LenProperties

LEMMA TailFacts ==
  ASSUME NEW S, NEW s \in Seq(S), s # <<>>
  PROVE  /\ Head(s) \in S /\ Tail(s) \in Seq(S) /\ Len(s) \in Nat /\ Len(s) >= 1
         /\ Head(s) = s[1] /\ Len(Tail(s)) = Len(s) - 1
         /\ \A i \in 1 .. Len(s) - 1 : Tail(s)[i] = s[i + 1]
<1>1. Len(s) \in Nat /\ Len(s) >= 1
  BY EmptySeq
<1> QED
  BY <1>1, HeadTailProperties

\* A line that goes from the outbox to the socket does not move in the stream.
LEMMA WriteKeepsStream ==
  ASSUME NEW S, NEW d \in Seq(S), NEW o \in Seq(S), o # <<>>
  PROVE  Append(d, Head(o)) \o Tail(o) = d \o o
<1>1. /\ Head(o) \in S /\ Tail(o) \in Seq(S) /\ Len(o) \in Nat /\ Len(o) >= 1
      /\ Head(o) = o[1] /\ Len(Tail(o)) = Len(o) - 1
      /\ \A i \in 1 .. Len(o) - 1 : Tail(o)[i] = o[i + 1]
  BY TailFacts
<1>2. /\ Append(d, Head(o)) \in Seq(S) /\ Len(Append(d, Head(o))) = Len(d) + 1 /\ Len(d) \in Nat
      /\ Append(d, Head(o))[Len(d) + 1] = Head(o)
      /\ \A i \in 1 .. Len(d) : Append(d, Head(o))[i] = d[i]
  BY <1>1, AppendFacts
<1> DEFINE a == Append(d, Head(o))
           t == Tail(o)
<1>3. /\ a \o t \in Seq(S) /\ Len(a \o t) = Len(a) + Len(t)
      /\ \A i \in 1 .. Len(a) + Len(t) : (a \o t)[i] = IF i <= Len(a) THEN a[i] ELSE t[i - Len(a)]
  BY <1>1, <1>2, ConcatProperties
<1>4. /\ d \o o \in Seq(S) /\ Len(d \o o) = Len(d) + Len(o)
      /\ \A i \in 1 .. Len(d) + Len(o) : (d \o o)[i] = IF i <= Len(d) THEN d[i] ELSE o[i - Len(d)]
  BY ConcatProperties
<1>5. \A i \in 1 .. Len(d) + Len(o) : (a \o t)[i] = (d \o o)[i]
  BY <1>1, <1>2, <1>3, <1>4
<1> QED
  BY <1>1, <1>2, <1>3, <1>4, <1>5, SeqEqual

\* What is put into the outbox is put at the end of the stream.
LEMMA AppendExtendsStream ==
  ASSUME NEW S, NEW d \in Seq(S), NEW o \in Seq(S), NEW x \in S
  PROVE  d \o Append(o, x) = Append(d \o o, x)
BY AppendIsConcat, ConcatAssociative, ConcatProperties, IsASeq

LEMMA LineExtendsStream ==
  ASSUME NEW d \in Seq(Lines), NEW o \in Seq(Lines), NEW x \in Lines
  PROVE  d \o Append(o, x) = Append(d \o o, x)
BY AppendExtendsStream

\* What the client takes is the head of the stream.
LEMMA TailShortensStream ==
  ASSUME NEW S, NEW d \in Seq(S), NEW o \in Seq(S), d # <<>>
  PROVE  d \o o # <<>> /\ Head(d \o o) = Head(d) /\ Tail(d) \o o = Tail(d \o o)
<1>1. /\ Tail(d) \in Seq(S) /\ Len(d) \in Nat /\ Len(d) >= 1 /\ Len(o) \in Nat
      /\ Head(d) = d[1] /\ Len(Tail(d)) = Len(d) - 1
      /\ \A i \in 1 .. Len(d) - 1 : Tail(d)[i] = d[i + 1]
  BY TailFacts, LenProperties
<1>2. /\ d \o o \in Seq(S) /\ Len(d \o o) = Len(d) + Len(o)
      /\ \A i \in 1 .. Len(d) + Len(o) : (d \o o)[i] = IF i <= Len(d) THEN d[i] ELSE o[i - Len(d)]
  BY ConcatProperties
<1>3. d \o o # <<>>
  BY <1>1, <1>2, EmptySeq
<1>4. /\ Head(d \o o) = (d \o o)[1] /\ Tail(d \o o) \in Seq(S) /\ Len(Tail(d \o o)) = Len(d) + Len(o) - 1
      /\ \A i \in 1 .. Len(d) + Len(o) - 1 : Tail(d \o o)[i] = (d \o o)[i + 1]
  BY <1>2, <1>3, TailFacts
<1> DEFINE t == Tail(d)
<1>5. /\ t \o o \in Seq(S) /\ Len(t \o o) = Len(t) + Len(o)
      /\ \A i \in 1 .. Len(t) + Len(o) : (t \o o)[i] = IF i <= Len(t) THEN t[i] ELSE o[i - Len(t)]
  BY <1>1, ConcatProperties
<1>6. \A i \in 1 .. Len(d) + Len(o) - 1 : (t \o o)[i] = Tail(d \o o)[i]
  BY <1>1, <1>2, <1>4, <1>5
<1>7. Tail(d) \o o = Tail(d \o o)
  BY <1>1, <1>4, <1>5, <1>6, SeqEqual
<1> QED
  BY <1>1, <1>2, <1>3, <1>4, <1>7

LEMMA LinesTail ==
  ASSUME NEW d \in Seq(Lines), NEW o \in Seq(Lines), d # <<>>
  PROVE  d \o o # <<>> /\ Head(d \o o) = Head(d) /\ Tail(d) \o o = Tail(d \o o)
BY TailShortensStream

-----------------------------------------------------------------------------
\* Base: types, and what the parts of a connection say about each other.

LEMMA ConnFacts == NoConn \notin Conns /\ NoConn \notin Clients /\ NoConn \notin Scripts
BY ControlAssumption

LEMMA IdleFacts ==
  /\ Idle \in Slots
  /\ Idle.owner = NoConn /\ Idle.up = <<>> /\ Idle.out = <<>> /\ Idle.down = <<>>
  /\ ~Idle.client /\ ~Idle.accepted /\ ~Idle.reader /\ ~Idle.writer /\ ~Idle.hub
BY EmptySeq DEF Idle, Slots

LEMMA SweptFacts ==
  ASSUME NEW k, NEW c \in Slots, NEW cs
  PROVE  \/ Swept(k, c, cs) = c
         \/ /\ Swept(k, c, cs) = Idle
            /\ ~c.client /\ ~c.reader /\ ~c.writer /\ \A i \in DOMAIN cs : cs[i].conn # k
BY DEF Swept

\* Taking the first call from the channel, or adding one for k, calls no one else.
LEMMA UncalledStays ==
  ASSUME Typed, NEW k \in Conns
  PROVE  /\ calls # <<>> /\ calls' = Tail(calls) /\ Uncalled(k) => Uncalled(k)'
         /\ \A call \in Calls : calls' = Append(calls, call) /\ call.conn # k /\ Uncalled(k) => Uncalled(k)'
<1>1. ASSUME calls # <<>>, calls' = Tail(calls), Uncalled(k)
      PROVE  Uncalled(k)'
  <2>1. /\ Len(calls) \in Nat /\ Len(Tail(calls)) = Len(calls) - 1
        /\ \A i \in 1 .. Len(calls) - 1 : Tail(calls)[i] = calls[i + 1]
    BY <1>1, TailFacts DEF Typed
  <2> QED
    BY <1>1, <2>1 DEF Uncalled
<1>2. ASSUME NEW call \in Calls, calls' = Append(calls, call), call.conn # k, Uncalled(k)
      PROVE  Uncalled(k)'
  <2>1. /\ Len(calls) \in Nat /\ Len(calls') = Len(calls) + 1 /\ calls'[Len(calls) + 1] = call
        /\ \A i \in 1 .. Len(calls) : calls'[i] = calls[i]
    BY <1>2, AppendFacts DEF Typed
  <2> QED
    BY <1>2, <2>1 DEF Uncalled
<1> QED
  BY <1>1, <1>2

\* One slot changes, and perhaps the client it belongs to.
LEMMA SlotBase ==
  ASSUME Base, NEW k \in Conns, conn' \in [Conns -> Slots], \A j \in Conns \ {k} : conn'[j] = conn[j],
         host' \in Hosts, host'.up = host.up,
         calls' \in Seq(Calls), \A j \in Conns : j # k /\ Uncalled(j) => Uncalled(j)',
         gui' \in [Clients -> Views],
         WiredAs(conn[k], host.up, Uncalled(k))',
         \A g \in Clients : Owned(g)' \/ (gui'[g] = gui[g] /\ gui[g].conn # k)
  PROVE  Base'
<1> USE DEF Base
<1>1. Typed'
  BY DEF Typed
<1>2. ASSUME NEW j \in Conns
      PROVE  WiredAs(conn[j], host.up, Uncalled(j))'
  BY DEF WiredAs
<1>3. ASSUME NEW g \in Clients
      PROVE  Owned(g)'
  BY DEF Owned, Typed, Views
<1> QED
  BY <1>1, <1>2, <1>3

\* A step of one of a connection's threads, which keeps its ends as they are.
LEMMA ThreadBase ==
  ASSUME Base, NEW k \in Conns, ~Free(k), NEW c \in Slots,
         \/ Slot(k, c)
         \/ Slot(k, Swept(k, c, calls)) /\ UNCHANGED calls,
         c.owner = conn[k].owner, c.client = conn[k].client, conn[k].accepted => c.accepted,
         calls' \in Seq(Calls), \A j \in Conns : j # k /\ Uncalled(j) => Uncalled(j)',
         UNCHANGED <<host, gui>>,
         WiredAs(c, host'.up, Uncalled(k)')
  PROVE  Base'
<1> USE DEF Base
<1>1. PICK d \in Slots : /\ conn' = [conn EXCEPT ![k] = d]
                         /\ d = c \/ (d = Idle /\ ~c.client /\ Uncalled(k)')
  <2>1. CASE Slot(k, c)
    BY <2>1 DEF Slot
  <2>2. CASE Slot(k, Swept(k, c, calls)) /\ UNCHANGED calls
    <3>1. DOMAIN calls = 1 .. Len(calls)
      BY LenProperties DEF Typed
    <3>2. \/ Swept(k, c, calls) = c
          \/ Swept(k, c, calls) = Idle /\ ~c.client /\ \A i \in DOMAIN calls : calls[i].conn # k
      BY SweptFacts
    <3>3. Swept(k, c, calls) \in Slots
      BY <3>2, IdleFacts
    <3>4. (\A i \in DOMAIN calls : calls[i].conn # k) => Uncalled(k)'
      BY <2>2, <3>1 DEF Uncalled
    <3> QED
      BY <2>2, <3>2, <3>3, <3>4 DEF Slot
  <2> QED
    BY <2>1, <2>2
<1>2. WiredAs(d, host'.up, Uncalled(k)')
  BY <1>1, IdleFacts, ConnFacts, EmptySeq DEF WiredAs
<1>3. conn' \in [Conns -> Slots] /\ conn'[k] = d /\ \A j \in Conns \ {k} : conn'[j] = conn[j]
  BY <1>1 DEF Typed
<1>4. ASSUME NEW g \in Clients
      PROVE  Owned(g)' \/ (gui'[g] = gui[g] /\ gui[g].conn # k)
  BY <1>1, <1>3, IdleFacts DEF Owned
<1>5. host' \in Hosts /\ host'.up = host.up /\ gui' \in [Clients -> Views]
  BY DEF Typed
<1> QED
  BY <1>2, <1>3, <1>4, <1>5, SlotBase

LEMMA AcceptBase ==
  ASSUME Base, NEW k \in Conns, Accept(k)
  PROVE  Base'
<1> DEFINE c == [conn[k] EXCEPT !.accepted = TRUE, !.reader = TRUE, !.writer = TRUE, !.hub = TRUE]
<1>1. host.up /\ ~Free(k) /\ Slot(k, c) /\ UNCHANGED <<host, calls, gui>>
  BY DEF Accept
<1>2. /\ c \in Slots /\ c.owner = conn[k].owner /\ c.client = conn[k].client /\ c.up = conn[k].up
      /\ c.accepted /\ c.reader /\ c.writer /\ c.hub
  BY DEF Base, Typed, Slots
<1> HIDE DEF c
<1>3. WiredAs(c, host'.up, Uncalled(k)')
  BY <1>1, <1>2 DEF Base, WiredAs, Uncalled, Free
<1>4. calls' \in Seq(Calls) /\ \A j \in Conns : Uncalled(j) => Uncalled(j)'
  BY <1>1 DEF Base, Typed, Uncalled
<1> QED
  BY <1>1, <1>2, <1>3, <1>4, ThreadBase

\* A slot where something lives has an owner.
LEMMA LiveIsOwned ==
  ASSUME Base, NEW k \in Conns, conn[k].reader \/ conn[k].writer \/ conn[k].client
  PROVE  ~Free(k)
BY IdleFacts DEF Base, WiredAs, Free

LEMMA ReadLineBase ==
  ASSUME Base, NEW k \in Conns, ReadLine(k)
  PROVE  Base'
<1> DEFINE c == conn[k]
           line == Head(c.up)
           rest == [c EXCEPT !.up = Tail(@)]
           answer == Answer(line.id, FALSE)
           said == Respond([conn EXCEPT ![k] = rest], k, answer)[k]
           call == [conn |-> k, id |-> line.id, op |-> line.op]
<1>1. c \in Slots /\ c.reader /\ c.up # <<>> /\ c.up \in Seq(Requests) /\ UNCHANGED <<host, gui>>
  BY DEF ReadLine, Base, Typed, Slots
<1>2. /\ line \in Requests /\ Tail(c.up) \in Seq(Requests) /\ Len(c.up) \in Nat
      /\ line = c.up[1] /\ Len(Tail(c.up)) = Len(c.up) - 1 /\ Len(c.up) >= 1
      /\ \A i \in 1 .. Len(c.up) - 1 : Tail(c.up)[i] = c.up[i + 1]
  BY <1>1, TailFacts
<1>3. answer \in Lines
  BY <1>2 DEF Answer, Infos, Lines, Requests, Base, Typed, Hosts
<1>4. /\ rest \in Slots /\ rest.owner = c.owner /\ rest.client = c.client /\ rest.accepted = c.accepted
      /\ rest.reader = c.reader /\ rest.writer = c.writer /\ rest.hub = c.hub /\ rest.up = Tail(c.up)
      /\ rest.out = c.out /\ rest.down = c.down
  BY <1>1, <1>2 DEF Slots
<1>5. said = IF rest.writer THEN [rest EXCEPT !.out = Append(@, answer)] ELSE rest
  <2>1. [conn EXCEPT ![k] = rest][k] = rest /\ [conn EXCEPT ![k] = rest] \in [Conns -> Slots]
    BY <1>4 DEF Base, Typed
  <2> HIDE DEF rest, answer
  <2> QED
    BY <2>1 DEF Respond
<1> HIDE DEF rest, said, answer
<1>6. rest.out \in Seq(Lines) /\ Append(rest.out, answer) \in Seq(Lines)
  BY <1>3, <1>4, AppendFacts DEF Slots
<1>7. /\ said \in Slots /\ said.owner = c.owner /\ said.client = c.client /\ said.accepted = c.accepted
      /\ said.reader = c.reader /\ said.writer = c.writer /\ said.hub = c.hub /\ said.up = Tail(c.up)
      /\ ~c.writer => said.out = c.out
      /\ said.down = c.down
  BY <1>4, <1>5, <1>6 DEF Slots
<1>8. ~Free(k) /\ c.accepted
  BY <1>1, LiveIsOwned DEF Base, WiredAs
<1>9. c.owner \in Clients => line.op \in Ops /\ \A i \in 1 .. Len(Tail(c.up)) : Tail(c.up)[i].op \in Ops
  BY <1>2 DEF Base, WiredAs
<1> HIDE DEF line
<1>10. CASE calls' = Append(calls, call) /\ Slot(k, rest)
  <2>1. call \in Calls
    BY <1>2 DEF Calls, Requests
  <2>2. calls' \in Seq(Calls)
    BY <1>10, <2>1, AppendFacts DEF Base, Typed
  <2>3. \A j \in Conns : j # k /\ Uncalled(j) => Uncalled(j)'
    BY <1>10, <2>1, UncalledStays DEF Base
  <2>4. WiredAs(rest, host'.up, Uncalled(k)')
    BY <1>1, <1>4, <1>8, <1>9 DEF Base, WiredAs, Free
  <2> QED
    BY <1>1, <1>4, <1>8, <1>10, <2>2, <2>3, <2>4, ThreadBase
<1>11. ASSUME UNCHANGED calls,
              \/ line.op = "bad" /\ Slot(k, said)
              \/ line.op = "long" /\ Slot(k, Swept(k, Hangup(said), calls))
              \/ line.op = "blank" /\ Slot(k, Swept(k, Hangup(rest), calls))
       PROVE  Base'
  <2>1. calls' \in Seq(Calls) /\ \A j \in Conns : Uncalled(j) => Uncalled(j)'
    BY <1>11 DEF Base, Typed, Uncalled
  <2>2. CASE line.op = "bad" /\ Slot(k, said)
    <3>1. WiredAs(said, host'.up, Uncalled(k)')
      BY <1>1, <1>7, <1>8, <1>9 DEF Base, WiredAs, Free
    <3> QED
      BY <1>1, <1>7, <1>8, <2>1, <2>2, <3>1, ThreadBase
  <2>3. ASSUME NEW d \in {said, rest}, line.op \in {"long", "blank"}, Slot(k, Swept(k, Hangup(d), calls))
        PROVE  Base'
    <3> DEFINE h == Hangup(d)
    <3>1. /\ h \in Slots /\ h.owner = c.owner /\ h.client = c.client /\ h.accepted = c.accepted
          /\ ~h.reader /\ h.writer = c.writer /\ ~h.hub /\ h.up = Tail(c.up)
      BY <1>4, <1>7 DEF Hangup, Slots
    <3>2. c.owner \notin Clients
      BY <1>9, <2>3 DEF Ops
    <3> HIDE DEF h
    <3>3. WiredAs(h, host'.up, Uncalled(k)')
      BY <1>1, <1>8, <3>1, <3>2 DEF Base, WiredAs, Free
    <3>4. Slot(k, Swept(k, h, calls))
      BY <2>3 DEF h
    <3> QED
      BY <1>1, <1>8, <1>11, <2>1, <3>1, <3>3, <3>4, ThreadBase
  <2> QED
    BY <2>2, <2>3, <1>11
<1>12. \/ calls' = Append(calls, call) /\ Slot(k, rest)
       \/ /\ UNCHANGED calls
          /\ \/ line.op = "bad" /\ Slot(k, said)
             \/ line.op = "long" /\ Slot(k, Swept(k, Hangup(said), calls))
             \/ line.op = "blank" /\ Slot(k, Swept(k, Hangup(rest), calls))
  BY DEF ReadLine, rest, line, said, answer
<1> QED
  BY <1>10, <1>11, <1>12

LEMMA SameCalls ==
  ASSUME Base, UNCHANGED calls
  PROVE  calls' \in Seq(Calls) /\ \A j \in Conns : Uncalled(j)' = Uncalled(j)
BY DEF Base, Typed, Uncalled

LEMMA ReadEndBase ==
  ASSUME Base, NEW k \in Conns, ReadEnd(k)
  PROVE  Base'
<1> DEFINE c == Hangup(conn[k])
<1>1. /\ conn[k].reader /\ (~conn[k].client \/ ~conn[k].writer)
      /\ Slot(k, Swept(k, c, calls)) /\ UNCHANGED <<host, calls, gui>>
  BY DEF ReadEnd
<1>2. /\ c \in Slots /\ c.owner = conn[k].owner /\ c.client = conn[k].client /\ c.up = conn[k].up
      /\ c.accepted = conn[k].accepted /\ ~c.reader /\ c.writer = conn[k].writer /\ ~c.hub
  BY DEF Base, Typed, Slots, Hangup
<1> HIDE DEF c
<1>3. ~Free(k)
  BY <1>1, LiveIsOwned
<1>4. WiredAs(c, host'.up, Uncalled(k)')
  BY <1>1, <1>2, <1>3 DEF Base, WiredAs, Free
<1> QED
  BY <1>1, <1>2, <1>3, <1>4, SameCalls, ThreadBase

LEMMA WriteBase ==
  ASSUME Base, NEW k \in Conns, Write(k)
  PROVE  Base'
<1> DEFINE c == [conn[k] EXCEPT !.out = Tail(@), !.down = Append(@, Head(conn[k].out))]
           d == [conn[k] EXCEPT !.writer = FALSE, !.out = <<>>]
<1>1. /\ conn[k].writer /\ conn[k].out # <<>> /\ UNCHANGED <<host, calls, gui>>
      /\ Slot(k, c) \/ (~conn[k].client /\ Slot(k, Swept(k, d, calls)))
  BY DEF Write
<1>2. conn[k] \in Slots /\ conn[k].out \in Seq(Lines) /\ conn[k].down \in Seq(Lines)
  BY DEF Base, Typed, Slots
<1>3. Tail(conn[k].out) \in Seq(Lines) /\ Append(conn[k].down, Head(conn[k].out)) \in Seq(Lines)
  BY <1>1, <1>2, TailFacts, AppendFacts
<1>4. /\ c \in Slots /\ c.owner = conn[k].owner /\ c.client = conn[k].client /\ c.up = conn[k].up
      /\ c.accepted = conn[k].accepted /\ c.reader = conn[k].reader /\ c.writer = conn[k].writer
      /\ c.hub = conn[k].hub
  BY <1>2, <1>3 DEF Slots
<1>5. /\ d \in Slots /\ d.owner = conn[k].owner /\ d.client = conn[k].client /\ d.up = conn[k].up
      /\ d.accepted = conn[k].accepted /\ d.reader = conn[k].reader /\ ~d.writer
  BY <1>2, EmptySeq DEF Slots
<1> HIDE DEF c, d
<1>6. ~Free(k) /\ conn[k].accepted
  BY <1>1, LiveIsOwned DEF Base, WiredAs
<1>7. CASE Slot(k, c)
  <2>1. WiredAs(c, host'.up, Uncalled(k)')
    BY <1>1, <1>4, <1>6 DEF Base, WiredAs, Free
  <2> QED
    BY <1>1, <1>4, <1>6, <1>7, <2>1, SameCalls, ThreadBase
<1>8. CASE ~conn[k].client /\ Slot(k, Swept(k, d, calls))
  <2>1. WiredAs(d, host'.up, Uncalled(k)')
    BY <1>1, <1>5, <1>6 DEF Base, WiredAs, Free
  <2> QED
    BY <1>1, <1>5, <1>6, <1>8, <2>1, SameCalls, ThreadBase
<1> QED
  BY <1>1, <1>7, <1>8

LEMMA WriteEndBase ==
  ASSUME Base, NEW k \in Conns, WriteEnd(k)
  PROVE  Base'
<1> DEFINE c == [conn[k] EXCEPT !.writer = FALSE]
<1>1. /\ conn[k].writer /\ Slot(k, Swept(k, c, calls)) /\ UNCHANGED <<host, calls, gui>>
  BY DEF WriteEnd
<1>2. /\ c \in Slots /\ c.owner = conn[k].owner /\ c.client = conn[k].client /\ c.up = conn[k].up
      /\ c.accepted = conn[k].accepted /\ c.reader = conn[k].reader /\ ~c.writer
  BY DEF Base, Typed, Slots
<1> HIDE DEF c
<1>3. ~Free(k) /\ conn[k].accepted
  BY <1>1, LiveIsOwned DEF Base, WiredAs
<1>4. WiredAs(c, host'.up, Uncalled(k)')
  BY <1>1, <1>2, <1>3 DEF Base, WiredAs, Free
<1> QED
  BY <1>1, <1>2, <1>3, <1>4, SameCalls, ThreadBase

\* The client's end of a connection is closed, by a script or by the window
\* that has left it.
LEMMA LeaveBase ==
  ASSUME Base, NEW k \in Conns, ~Free(k), UNCHANGED <<host, calls>>, gui' \in [Clients -> Views],
         NEW c \in Slots, Slot(k, Swept(k, c, calls)),
         ~c.client, c.down = <<>>, c.owner = conn[k].owner, c.accepted = conn[k].accepted,
         c.reader = conn[k].reader, c.writer = conn[k].writer, c.hub = conn[k].hub,
         c.up = conn[k].up, c.out = conn[k].out,
         \A g \in Clients : \/ gui'[g] = gui[g] /\ gui[g].conn # k
                            \/ gui'[g].conn = NoConn /\ gui'[g].state \in {"disconnected", "closed"}
  PROVE  Base'
<1> DEFINE d == Swept(k, c, calls)
<1>1. d = c \/ (d = Idle /\ Uncalled(k))
  <2>1. DOMAIN calls = 1 .. Len(calls)
    BY LenProperties DEF Base, Typed
  <2> QED
    BY <2>1, SweptFacts DEF Uncalled
<1>2. Slot(k, d)
  BY DEF d
<1> HIDE DEF d
<1>3. conn' \in [Conns -> Slots] /\ conn'[k] = d /\ \A j \in Conns \ {k} : conn'[j] = conn[j]
  BY <1>1, <1>2, IdleFacts DEF Slot, Base, Typed
<1>4. WiredAs(d, host'.up, Uncalled(k)')
  <2>1. CASE d = c
    BY <2>1, SameCalls DEF Base, WiredAs, Free
  <2>2. CASE d = Idle /\ Uncalled(k)
    BY <2>2, SameCalls, IdleFacts, ConnFacts DEF WiredAs
  <2> QED
    BY <1>1, <2>1, <2>2
<1>5. \A g \in Clients : Owned(g)' \/ (gui'[g] = gui[g] /\ gui[g].conn # k)
  BY DEF Owned
<1>6. host' \in Hosts /\ host'.up = host.up
  BY DEF Base, Typed
<1> QED
  BY <1>3, <1>4, <1>5, <1>6, SameCalls, SlotBase

LEMMA ScriptReadsBase ==
  ASSUME Base, NEW k \in Conns, ScriptReads(k)
  PROVE  Base'
<1>1. conn[k].owner \in Scripts /\ conn[k].client /\ UNCHANGED <<host, calls, gui>> /\ ~Free(k)
  BY LiveIsOwned DEF ScriptReads
<1>2. \A g \in Clients : gui[g].conn # k
  BY <1>1, ControlAssumption DEF Base, Owned
<1>3. CASE conn[k].down # <<>> /\ Slot(k, [conn[k] EXCEPT !.down = Tail(@)])
  <2> DEFINE c == [conn[k] EXCEPT !.down = Tail(@)]
  <2>1. conn[k] \in Slots /\ Tail(conn[k].down) \in Seq(Lines)
    BY <1>3, TailFacts DEF Base, Typed, Slots
  <2>2. /\ c \in Slots /\ c.owner = conn[k].owner /\ c.client = conn[k].client /\ c.up = conn[k].up
        /\ c.accepted = conn[k].accepted /\ c.reader = conn[k].reader /\ c.writer = conn[k].writer
        /\ c.hub = conn[k].hub /\ c.out = conn[k].out
    BY <2>1 DEF Slots
  <2> HIDE DEF c
  <2>3. WiredAs(c, host'.up, Uncalled(k)')
    BY <1>1, <1>3, <2>2, SameCalls DEF Base, WiredAs, Free
  <2>4. Slot(k, c)
    BY <1>3 DEF c
  <2> QED
    BY <1>1, <2>2, <2>3, <2>4, SameCalls, ThreadBase
<1>4. CASE Slot(k, Swept(k, [conn[k] EXCEPT !.client = FALSE, !.down = <<>>], calls))
  <2>1. gui' \in [Clients -> Views]
    BY <1>1 DEF Base, Typed
  <2> DEFINE c == [conn[k] EXCEPT !.client = FALSE, !.down = <<>>]
  <2>2. Slot(k, Swept(k, c, calls))
    BY <1>4
  <2>3. /\ c \in Slots /\ ~c.client /\ c.down = <<>> /\ c.owner = conn[k].owner
        /\ c.accepted = conn[k].accepted /\ c.reader = conn[k].reader /\ c.writer = conn[k].writer
        /\ c.hub = conn[k].hub /\ c.up = conn[k].up /\ c.out = conn[k].out
    BY EmptySeq DEF Base, Typed, Slots
  <2> HIDE DEF c
  <2> QED
    BY <1>1, <1>2, <2>1, <2>2, <2>3, LeaveBase
<1> QED
  BY <1>3, <1>4 DEF ScriptReads

LEMMA SlotIsFree ==
  ASSUME \E k \in Conns : Free(k)
  PROVE  FreeSlot \in Conns /\ Free(FreeSlot)
BY DEF FreeSlot

\* What leaves the connections as they are.
LEMMA HostBase ==
  ASSUME Base, UNCHANGED <<calls, conn, gui>>, host' \in Hosts, host.up => host'.up
  PROVE  Base'
BY SameCalls DEF Base, Typed, WiredAs, Owned

LEMMA HostStepBase ==
  ASSUME Base, SurfaceClosed \/ HostStart
  PROVE  Base'
<1> DEFINE next == host.ver + 1
<1>0. host \in Hosts /\ next \in Nat
  BY DEF Base, Typed, Hosts
<1>1. UNCHANGED <<calls, conn, gui>> /\ (host.up => host'.up)
  BY DEF SurfaceClosed, HostStart, Base, Typed, Hosts
<1>2. CASE SurfaceClosed
  <2>1. host' = [host EXCEPT !.ver = next, !.untold = TRUE]
    BY <1>2 DEF SurfaceClosed
  <2> HIDE DEF next
  <2>2. host' \in Hosts
    BY <1>0, <2>1 DEF Hosts
  <2> QED
    BY <1>1, <2>2, HostBase
<1>3. CASE HostStart
  <2>1. PICK speaks \in BOOLEAN : host' = [host EXCEPT !.up = TRUE, !.ver = next, !.speaks = speaks]
    BY <1>3 DEF HostStart
  <2> HIDE DEF next
  <2>2. host' \in Hosts
    BY <1>0, <2>1 DEF Hosts
  <2> QED
    BY <1>1, <2>2, HostBase
<1> QED
  BY <1>2, <1>3

LEMMA HostDownBase ==
  ASSUME Base, HostDown
  PROVE  Base'
<1> DEFINE cut(c) == [c EXCEPT !.reader = FALSE, !.writer = FALSE, !.hub = FALSE,
                               !.accepted = TRUE, !.up = <<>>, !.out = <<>>]
<1>1. /\ conn' = [k \in Conns |-> IF conn[k].client THEN cut(conn[k]) ELSE Idle]
      /\ calls' = <<>> /\ UNCHANGED gui
  BY DEF HostDown
<1>2. host' \in Hosts
  BY DEF HostDown, Base, Typed, Hosts
<1>3. \A c \in Slots : /\ cut(c) \in Slots /\ cut(c).owner = c.owner /\ cut(c).client = c.client
                       /\ cut(c).accepted /\ ~cut(c).reader /\ ~cut(c).writer /\ ~cut(c).hub
                       /\ cut(c).up = <<>>
  BY EmptySeq DEF Slots
<1> HIDE DEF cut
<1>4. Typed'
  BY <1>1, <1>2, <1>3, IdleFacts, EmptySeq DEF Base, Typed
<1>5. \A k \in Conns : Uncalled(k)'
  BY <1>1, EmptySeq DEF Uncalled
<1>6. ASSUME NEW k \in Conns
      PROVE  WiredAs(conn[k], host.up, Uncalled(k))'
  <2>1. CASE conn[k].client
    <3>1. conn'[k] = cut(conn[k]) /\ conn[k] \in Slots /\ ~Free(k)
      BY <1>1, <2>1, LiveIsOwned DEF Base, Typed
    <3> QED
      BY <1>3, <1>5, <3>1, EmptySeq DEF WiredAs, Free
  <2>2. CASE ~conn[k].client
    <3>1. conn'[k] = Idle
      BY <1>1, <2>2
    <3> QED
      BY <1>5, <3>1, IdleFacts, ConnFacts DEF WiredAs
  <2> QED
    BY <2>1, <2>2
<1>7. ASSUME NEW g \in Clients
      PROVE  Owned(g)'
  <2>1. CASE gui[g].conn # NoConn
    <3>1. gui[g].conn \in Conns /\ conn[gui[g].conn].client
      BY <2>1 DEF Base, Typed, Views, Owned
    <3>2. conn'[gui[g].conn] = cut(conn[gui[g].conn]) /\ conn[gui[g].conn] \in Slots
      BY <1>1, <3>1 DEF Base, Typed
    <3> QED
      BY <1>1, <1>3, <3>2 DEF Base, Owned
  <2>2. CASE gui[g].conn = NoConn
    BY <1>1, <2>2 DEF Base, Owned
  <2> QED
    BY <2>1, <2>2
<1> QED
  BY <1>4, <1>6, <1>7 DEF Base

\* A window asks: its line goes to the end of what it sent.
LEMMA AskFacts ==
  ASSUME NEW v \in Views, NEW op \in Ops
  PROVE  /\ Ask(v, op) \in Views /\ Request(v.next, op) \in Requests
         /\ Ask(v, op).next = v.next + 1 /\ Ask(v, op).pending = v.pending \cup {Request(v.next, op)}
         /\ Ask(v, op).state = v.state /\ Ask(v, op).conn = v.conn /\ Ask(v, op).ver = v.ver
<1> DEFINE next == v.next + 1
           pending == v.pending \cup {Request(v.next, op)}
<1>1. /\ next \in Nat \ {0} /\ pending \in SUBSET [id : Nat \ {0}, op : Ops]
      /\ Request(v.next, op) \in Requests
  BY DEF Views, Request, Requests
<1>2. Ask(v, op) = [v EXCEPT !.next = next, !.pending = pending]
  BY DEF Ask
<1> HIDE DEF next, pending
<1>3. /\ Ask(v, op) \in Views /\ Ask(v, op).next = next /\ Ask(v, op).pending = pending
      /\ Ask(v, op).state = v.state /\ Ask(v, op).conn = v.conn /\ Ask(v, op).ver = v.ver
  BY <1>1, <1>2 DEF Views
<1> QED
  BY <1>1, <1>3 DEF next, pending

LEMMA SendFacts ==
  ASSUME Typed, NEW g \in Clients, NEW v \in Views, NEW s \in Slots, NEW op \in Ops,
         v.conn \in Conns, Send(g, v, s, op)
  PROVE  /\ gui' \in [Clients -> Views] /\ gui'[g] = Ask(v, op)
         /\ \A h \in Clients \ {g} : gui'[h] = gui[h]
         /\ conn' \in [Conns -> Slots] /\ \A j \in Conns \ {v.conn} : conn'[j] = conn[j]
         /\ conn'[v.conn].up = Append(s.up, Request(v.next, op))
         /\ conn'[v.conn].owner = s.owner /\ conn'[v.conn].client = s.client
         /\ conn'[v.conn].accepted = s.accepted /\ conn'[v.conn].reader = s.reader
         /\ conn'[v.conn].writer = s.writer /\ conn'[v.conn].hub = s.hub
         /\ conn'[v.conn].out = s.out /\ conn'[v.conn].down = s.down
<1>1. gui' = [gui EXCEPT ![g] = Ask(v, op)] /\ Ask(v, op) \in Views
  BY AskFacts DEF Send
<1>2. gui' \in [Clients -> Views] /\ gui'[g] = Ask(v, op) /\ \A h \in Clients \ {g} : gui'[h] = gui[h]
  BY <1>1 DEF Typed
<1> DEFINE up == Append(s.up, Request(v.next, op))
           e == [s EXCEPT !.up = up]
<1>3. up \in Seq(Requests)
  BY AskFacts, AppendFacts DEF Slots
<1>4. conn' = [conn EXCEPT ![v.conn] = e]
  BY DEF Send, Slot
<1> HIDE DEF up
<1>5. /\ e \in Slots /\ e.up = up
      /\ e.owner = s.owner /\ e.client = s.client /\ e.accepted = s.accepted
      /\ e.reader = s.reader /\ e.writer = s.writer /\ e.hub = s.hub
      /\ e.out = s.out /\ e.down = s.down
  BY <1>3 DEF Slots
<1> HIDE DEF e
<1>6. conn' \in [Conns -> Slots] /\ conn'[v.conn] = e /\ \A j \in Conns \ {v.conn} : conn'[j] = conn[j]
  BY <1>4, <1>5 DEF Typed
<1> QED
  BY <1>2, <1>5, <1>6 DEF up

LEMMA SendBase ==
  ASSUME Base, NEW g \in Clients, NEW v \in Views, NEW s \in Slots, NEW op \in Ops,
         v.conn \in Conns, Send(g, v, s, op), UNCHANGED <<host, calls>>,
         \A h \in Clients \ {g} : gui[h].conn # v.conn,
         v.state \in {"connecting", "connected", "mismatch"}, s.owner = g, s.client = TRUE,
         ~s.accepted => v.state = "connecting", WiredAs(s, host.up, Uncalled(v.conn))
  PROVE  Base'
<1>1. /\ gui' \in [Clients -> Views] /\ gui'[g] = Ask(v, op)
      /\ \A h \in Clients \ {g} : gui'[h] = gui[h]
      /\ conn' \in [Conns -> Slots] /\ \A j \in Conns \ {v.conn} : conn'[j] = conn[j]
  BY SendFacts DEF Base
<1>2. PICK d \in Slots : d = conn'[v.conn]
  BY <1>1
<1>3. /\ d.up = Append(s.up, Request(v.next, op))
      /\ d.owner = s.owner /\ d.client = s.client /\ d.accepted = s.accepted
      /\ d.reader = s.reader /\ d.writer = s.writer /\ d.hub = s.hub
      /\ d.out = s.out /\ d.down = s.down
  <2>1. Typed
    BY DEF Base
  <2> QED
    BY <1>2, <2>1, SendFacts
<1>4. /\ Request(v.next, op).op = op /\ s.up \in Seq(Requests) /\ Request(v.next, op) \in Requests
  BY AskFacts DEF Request, Slots
<1>5. /\ Len(d.up) = Len(s.up) + 1 /\ Len(s.up) \in Nat /\ d.up[Len(s.up) + 1] = Request(v.next, op)
      /\ \A i \in 1 .. Len(s.up) : d.up[i] = s.up[i]
  BY <1>3, <1>4, AppendFacts
<1>6. \A i \in 1 .. Len(d.up) : d.up[i].op \in Ops
  BY <1>4, <1>5 DEF WiredAs
<1>7. Uncalled(v.conn)' = Uncalled(v.conn) /\ host'.up = host.up /\ host' \in Hosts
  BY SameCalls DEF Base, Typed
<1>8. WiredAs(d, host'.up, Uncalled(v.conn)')
  BY <1>3, <1>6, <1>7, ConnFacts DEF WiredAs
<1>9. gui'[g].conn = v.conn /\ gui'[g].state = v.state
  BY <1>1, AskFacts
<1>10. Owned(g)'
  BY <1>2, <1>3, <1>9, ConnFacts DEF Owned
<1>11. \A h \in Clients : Owned(h)' \/ (gui'[h] = gui[h] /\ gui[h].conn # v.conn)
  BY <1>1, <1>10
<1>12. WiredAs(conn[v.conn], host.up, Uncalled(v.conn))'
  BY <1>2, <1>8
<1>13. calls' \in Seq(Calls) /\ \A j \in Conns : Uncalled(j) => Uncalled(j)'
  BY SameCalls
<1> QED
  BY <1>1, <1>7, <1>11, <1>12, <1>13, SlotBase

\* No two clients share a slot, and a free one is nobody's.
LEMMA SlotIsOwn ==
  ASSUME Base
  PROVE  /\ \A g, h \in Clients : gui[g].conn = gui[h].conn /\ gui[g].conn # NoConn => g = h
         /\ \A g \in Clients : gui[g].conn # NoConn =>
              gui[g].conn \in Conns /\ ~Free(gui[g].conn) /\ conn[gui[g].conn].owner = g
              /\ conn[gui[g].conn].client
BY ConnFacts, SMTT(20) DEF Base, Owned, Free, Typed, Views

LEMMA ConnectBase ==
  ASSUME Base, NEW g \in Clients, Connect(g)
  PROVE  Base'
<1> DEFINE v == [gui[g] EXCEPT !.conn = FreeSlot, !.state = "connecting", !.pending = {}]
           s == [Idle EXCEPT !.owner = g, !.client = TRUE]
<1>1. /\ host.up /\ FreeSlot \in Conns /\ Free(FreeSlot) /\ UNCHANGED <<host, calls>>
      /\ Send(g, v, s, "Hello")
  BY SlotIsFree DEF Connect
<1>2. v \in Views /\ v.conn = FreeSlot /\ v.state = "connecting"
  BY <1>1 DEF Base, Typed, Views
<1>3. /\ s \in Slots /\ s.owner = g /\ s.client /\ s.up = <<>> /\ s.out = <<>> /\ s.down = <<>>
      /\ ~s.accepted /\ ~s.reader /\ ~s.writer /\ ~s.hub
  BY EmptySeq DEF Idle, Slots
<1> HIDE DEF v, s
<1>4. Uncalled(FreeSlot) /\ \A h \in Clients : gui[h].conn # FreeSlot
  BY <1>1, SlotIsOwn, ConnFacts DEF Base, WiredAs, Free
<1>5. WiredAs(s, host.up, Uncalled(v.conn))
  BY <1>2, <1>3, <1>4, ConnFacts, EmptySeq DEF WiredAs
<1> QED
  BY <1>1, <1>2, <1>3, <1>4, <1>5, SendBase DEF Ops

\* A client that waits for something, or shows something, has a slot.
LEMMA ClientRequestBase ==
  ASSUME Base, NEW g \in Clients, ClientRequest(g)
  PROVE  Base'
<1>1. PICK op \in Ops : Send(g, gui[g], conn[gui[g].conn], op)
  BY DEF ClientRequest, Ops
<1>2. gui[g].state = "connected" /\ gui[g] \in Views /\ gui[g].conn # NoConn /\ UNCHANGED <<host, calls>>
  BY DEF ClientRequest, Base, Typed, Owned
<1>3. /\ gui[g].conn \in Conns /\ conn[gui[g].conn] \in Slots /\ conn[gui[g].conn].owner = g
      /\ conn[gui[g].conn].client /\ \A h \in Clients \ {g} : gui[h].conn # gui[g].conn
  BY <1>2, SlotIsOwn DEF Base, Typed
<1>4. /\ WiredAs(conn[gui[g].conn], host.up, Uncalled(gui[g].conn))
      /\ ~conn[gui[g].conn].accepted => gui[g].state = "connecting"
  BY <1>2, <1>3 DEF Base, Owned
<1> QED
  BY <1>1, <1>2, <1>3, <1>4, SendBase

LEMMA ScriptRunsBase ==
  ASSUME Base, NEW x \in Scripts, ScriptRuns(x)
  PROVE  Base'
<1>1. PICK op \in Noise :
        Slot(FreeSlot, [Idle EXCEPT !.owner = x, !.client = TRUE, !.up = <<Request(0, op)>>])
  BY DEF ScriptRuns
<1>2. PICK k \in Conns : k = FreeSlot /\ Free(k)
  BY SlotIsFree DEF ScriptRuns
<1> DEFINE up == <<Request(0, op)>>
           s == [Idle EXCEPT !.owner = x, !.client = TRUE, !.up = up]
<1>3. Free(k) /\ UNCHANGED <<host, calls, gui>> /\ Slot(k, s)
  BY <1>1, <1>2 DEF ScriptRuns
<1>4. up \in Seq(Requests)
  BY DEF Request, Requests
<1> HIDE DEF up
<1>5. /\ s \in Slots /\ s.owner = x /\ s.client /\ s.up = up /\ s.out = <<>> /\ s.down = <<>>
      /\ ~s.accepted /\ ~s.reader /\ ~s.writer /\ ~s.hub
  BY <1>4, EmptySeq DEF Idle, Slots
<1> HIDE DEF s
<1>6. conn' \in [Conns -> Slots] /\ conn'[k] = s /\ \A j \in Conns \ {k} : conn'[j] = conn[j]
  BY <1>3, <1>5 DEF Slot, Base, Typed
<1>7. Uncalled(k) /\ \A h \in Clients : gui[h].conn # k
  BY <1>3, SlotIsOwn, ConnFacts DEF Base, WiredAs, Free
<1>8. x # NoConn /\ x \notin Clients
  BY ControlAssumption
<1>9. Uncalled(k)' /\ calls' \in Seq(Calls) /\ \A j \in Conns : Uncalled(j) => Uncalled(j)'
  BY <1>3, <1>7, SameCalls
<1>10. WiredAs(conn[k], host.up, Uncalled(k))'
  BY <1>5, <1>6, <1>8, <1>9 DEF WiredAs
<1>11. host' \in Hosts /\ host'.up = host.up /\ gui' \in [Clients -> Views]
       /\ \A g \in Clients : gui'[g] = gui[g]
  BY <1>3 DEF Base, Typed
<1> QED
  BY <1>3, <1>6, <1>7, <1>9, <1>10, <1>11, SlotBase

\* What the client still awaits once it has taken a line.
Awaits(v, line) == v.pending \ {r \in v.pending : line.tag = "answer" /\ r.id = line.id}

\* A tick takes the first line of the socket and shows the pets it brings,
\* asks for them, or keeps what it shows.
LEMMA ReceiveFacts ==
  ASSUME Base, NEW g \in Clients, Receive(g),
         NEW k, k = gui[g].conn, NEW line, line = Head(conn[k].down)
  PROVE  /\ k \in Conns /\ conn[k].down # <<>> /\ line \in Lines /\ UNCHANGED <<host, calls>>
         /\ gui' \in [Clients -> Views] /\ gui'[g].conn = k
         /\ \A h \in Clients \ {g} : gui'[h] = gui[h]
         /\ conn' \in [Conns -> Slots] /\ \A j \in Conns \ {k} : conn'[j] = conn[j]
         /\ conn'[k].down = Tail(conn[k].down) /\ conn'[k].out = conn[k].out
         /\ conn'[k].owner = conn[k].owner /\ conn'[k].client = conn[k].client
         /\ conn'[k].accepted = conn[k].accepted /\ conn'[k].reader = conn[k].reader
         /\ conn'[k].writer = conn[k].writer /\ conn'[k].hub = conn[k].hub
         /\ \/ /\ gui'[g].ver = line.pets /\ gui'[g].state = gui[g].state
               /\ conn'[k].up = conn[k].up /\ gui'[g].next = gui[g].next
               /\ gui'[g].pending = Awaits(gui[g], line)
            \/ /\ gui'[g].ver = gui[g].ver /\ gui'[g].state \in {gui[g].state, "mismatch"}
               /\ conn'[k].up = conn[k].up /\ gui'[g].next = gui[g].next
               /\ gui'[g].pending = Awaits(gui[g], line)
               /\ line.tag = "answer"
               /\ \/ ~line.ok
                  \/ \A r \in gui[g].pending : r.id # line.id
                  \/ \E r \in gui[g].pending : r.id = line.id /\ r.op # "ListPets"
            \/ /\ gui'[g].ver = gui[g].ver /\ gui'[g].state \in {gui[g].state, "connected"}
               /\ conn'[k].up = Append(conn[k].up, Request(gui[g].next, "ListPets"))
               /\ gui'[g].next = gui[g].next + 1
               /\ gui'[g].pending = Awaits(gui[g], line) \cup {Request(gui[g].next, "ListPets")}
               /\ line.tag = "answer"
<1> DEFINE rest == [conn[k] EXCEPT !.down = Tail(@)]
           mine == {r \in gui[g].pending : line.tag = "answer" /\ r.id = line.id}
           op   == IF mine = {} THEN "none" ELSE (CHOOSE r \in mine : TRUE).op
           c    == [gui[g] EXCEPT !.pending = @ \ mine]
           told(d) == gui' = [gui EXCEPT ![g] = d] /\ Slot(k, rest)
<1>1. /\ k # NoConn /\ conn[k].down # <<>> /\ UNCHANGED <<host, calls>>
      /\ \/ told([c EXCEPT !.ver = line.pets])
         \/ line.tag = "answer" /\ ~line.ok /\ told([c EXCEPT !.state = "mismatch"])
         \/ line.tag = "answer" /\ ~line.ok /\ told(c)
         \/ line.tag = "answer" /\ Send(g, [c EXCEPT !.state = "connected"], rest, "ListPets")
         \/ line.tag = "answer" /\ Send(g, c, rest, "ListPets")
         \/ line.tag = "answer" /\ op \in {"SetPlacement", "none"} /\ told(c)
  BY DEF Receive
<1>2. /\ k \in Conns /\ conn[k] \in Slots /\ conn[k].down \in Seq(Lines) /\ gui[g] \in Views /\ Typed
  BY <1>1 DEF Base, Typed, Views, Slots
<1>3. line \in Lines /\ Tail(conn[k].down) \in Seq(Lines)
  BY <1>1, <1>2, TailFacts
<1>4. /\ rest \in Slots /\ rest.down = Tail(conn[k].down) /\ rest.out = conn[k].out
      /\ rest.owner = conn[k].owner /\ rest.client = conn[k].client
      /\ rest.accepted = conn[k].accepted /\ rest.reader = conn[k].reader
      /\ rest.writer = conn[k].writer /\ rest.hub = conn[k].hub /\ rest.up = conn[k].up
  BY <1>2, <1>3 DEF Slots
<1>5. /\ c \in Views /\ c.conn = k /\ c.ver = gui[g].ver /\ c.state = gui[g].state
      /\ c.next = gui[g].next /\ c.pending = Awaits(gui[g], line)
  BY <1>2 DEF Views, Awaits
<1>6. ASSUME op \in {"SetPlacement", "none"}
      PROVE  \/ \A r \in gui[g].pending : line.tag = "answer" => r.id # line.id
             \/ \E r \in gui[g].pending : r.id = line.id /\ r.op # "ListPets"
  BY <1>6
<1> HIDE DEF rest, c, op, mine
<1>7. ASSUME NEW d \in Views, told(d)
      PROVE  /\ gui' \in [Clients -> Views] /\ gui'[g] = d /\ \A h \in Clients \ {g} : gui'[h] = gui[h]
             /\ conn' \in [Conns -> Slots] /\ conn'[k] = rest /\ \A j \in Conns \ {k} : conn'[j] = conn[j]
  BY <1>2, <1>4, <1>7 DEF Slot, Typed
<1>8. CASE told([c EXCEPT !.ver = line.pets])
  <2> DEFINE d == [c EXCEPT !.ver = line.pets]
  <2>1. /\ d \in Views /\ d.conn = k /\ d.ver = line.pets /\ d.state = gui[g].state
        /\ d.next = gui[g].next /\ d.pending = Awaits(gui[g], line)
    BY <1>3, <1>5 DEF Views, Lines
  <2>2. told(d)
    BY <1>8
  <2> HIDE DEF d, told
  <2>3. /\ gui' \in [Clients -> Views] /\ gui'[g] = d /\ \A h \in Clients \ {g} : gui'[h] = gui[h]
        /\ conn' \in [Conns -> Slots] /\ conn'[k] = rest /\ \A j \in Conns \ {k} : conn'[j] = conn[j]
    BY <1>7, <2>1, <2>2
  <2> QED
    BY <1>1, <1>2, <1>3, <1>4, <2>1, <2>3
<1>9. CASE line.tag = "answer" /\ ~line.ok /\ told([c EXCEPT !.state = "mismatch"])
  <2> DEFINE d == [c EXCEPT !.state = "mismatch"]
  <2>1. /\ d \in Views /\ d.conn = k /\ d.ver = gui[g].ver /\ d.state = "mismatch"
        /\ d.next = gui[g].next /\ d.pending = Awaits(gui[g], line)
    BY <1>3, <1>5 DEF Views
  <2>2. told(d)
    BY <1>9
  <2> HIDE DEF d, told
  <2>3. /\ gui' \in [Clients -> Views] /\ gui'[g] = d /\ \A h \in Clients \ {g} : gui'[h] = gui[h]
        /\ conn' \in [Conns -> Slots] /\ conn'[k] = rest /\ \A j \in Conns \ {k} : conn'[j] = conn[j]
    BY <1>7, <2>1, <2>2
  <2> QED
    BY <1>1, <1>2, <1>3, <1>4, <1>9, <2>1, <2>3
<1>10. CASE line.tag = "answer" /\ (~line.ok \/ op \in {"SetPlacement", "none"}) /\ told(c)
  <2>1. /\ gui' \in [Clients -> Views] /\ gui'[g] = c /\ \A h \in Clients \ {g} : gui'[h] = gui[h]
        /\ conn' \in [Conns -> Slots] /\ conn'[k] = rest /\ \A j \in Conns \ {k} : conn'[j] = conn[j]
    BY <1>5, <1>7, <1>10
  <2> HIDE DEF told
  <2> QED
    BY <1>1, <1>2, <1>3, <1>4, <1>5, <1>6, <1>10, <2>1
<1>11. ASSUME NEW d \in Views, d.conn = k, d.ver = gui[g].ver, d.state \in {gui[g].state, "connected"},
              d.next = gui[g].next, d.pending = Awaits(gui[g], line),
              Send(g, d, rest, "ListPets"), line.tag = "answer"
       PROVE  /\ gui' \in [Clients -> Views] /\ gui'[g].conn = k
              /\ \A h \in Clients \ {g} : gui'[h] = gui[h]
              /\ conn' \in [Conns -> Slots] /\ \A j \in Conns \ {k} : conn'[j] = conn[j]
              /\ conn'[k].down = Tail(conn[k].down) /\ conn'[k].out = conn[k].out
              /\ conn'[k].owner = conn[k].owner /\ conn'[k].client = conn[k].client
              /\ conn'[k].accepted = conn[k].accepted /\ conn'[k].reader = conn[k].reader
              /\ conn'[k].writer = conn[k].writer /\ conn'[k].hub = conn[k].hub
              /\ gui'[g].ver = gui[g].ver /\ gui'[g].state \in {gui[g].state, "connected"}
              /\ conn'[k].up = Append(conn[k].up, Request(gui[g].next, "ListPets"))
              /\ gui'[g].next = gui[g].next + 1
              /\ gui'[g].pending = Awaits(gui[g], line) \cup {Request(gui[g].next, "ListPets")}
  <2>1. "ListPets" \in Ops /\ d.conn \in Conns
    BY <1>2, <1>11 DEF Ops
  <2>2. /\ gui' \in [Clients -> Views] /\ gui'[g] = Ask(d, "ListPets")
        /\ \A h \in Clients \ {g} : gui'[h] = gui[h]
        /\ conn' \in [Conns -> Slots] /\ \A j \in Conns \ {d.conn} : conn'[j] = conn[j]
        /\ conn'[d.conn].up = Append(rest.up, Request(d.next, "ListPets"))
        /\ conn'[d.conn].owner = rest.owner /\ conn'[d.conn].client = rest.client
        /\ conn'[d.conn].accepted = rest.accepted /\ conn'[d.conn].reader = rest.reader
        /\ conn'[d.conn].writer = rest.writer /\ conn'[d.conn].hub = rest.hub
        /\ conn'[d.conn].out = rest.out /\ conn'[d.conn].down = rest.down
    BY <1>2, <1>4, <1>11, <2>1, SendFacts
  <2>3. /\ gui'[g].next = d.next + 1 /\ gui'[g].pending = d.pending \cup {Request(d.next, "ListPets")}
        /\ gui'[g].state = d.state /\ gui'[g].conn = d.conn /\ gui'[g].ver = d.ver
    BY <2>1, <2>2, AskFacts
  <2> QED
    BY <1>4, <1>11, <2>2, <2>3
<1>12. CASE line.tag = "answer" /\ Send(g, [c EXCEPT !.state = "connected"], rest, "ListPets")
  <2> DEFINE d == [c EXCEPT !.state = "connected"]
  <2>1. /\ d \in Views /\ d.conn = k /\ d.ver = gui[g].ver /\ d.state = "connected"
        /\ d.next = gui[g].next /\ d.pending = Awaits(gui[g], line) /\ Send(g, d, rest, "ListPets")
    BY <1>5, <1>12 DEF Views
  <2> HIDE DEF d
  <2> QED
    BY <1>1, <1>2, <1>3, <1>11, <1>12, <2>1
<1>13. CASE line.tag = "answer" /\ Send(g, c, rest, "ListPets")
  BY <1>1, <1>2, <1>3, <1>5, <1>11, <1>13
<1> QED
  BY <1>1, <1>8, <1>9, <1>10, <1>12, <1>13

LEMMA ReceiveBase ==
  ASSUME Base, NEW g \in Clients, Receive(g)
  PROVE  Base'
<1>1. PICK k \in Conns, line \in Lines : k = gui[g].conn /\ line = Head(conn[k].down)
  BY ReceiveFacts
<1>2. /\ conn[k].down # <<>> /\ UNCHANGED <<host, calls>>
      /\ gui' \in [Clients -> Views] /\ gui'[g].conn = k
      /\ \A h \in Clients \ {g} : gui'[h] = gui[h]
      /\ conn' \in [Conns -> Slots] /\ \A j \in Conns \ {k} : conn'[j] = conn[j]
  BY <1>1, ReceiveFacts
<1>3. /\ conn'[k].owner = conn[k].owner /\ conn'[k].client = conn[k].client
      /\ conn'[k].accepted = conn[k].accepted /\ conn'[k].reader = conn[k].reader
      /\ conn'[k].writer = conn[k].writer /\ conn'[k].hub = conn[k].hub
  BY <1>1, ReceiveFacts
<1>4. /\ conn'[k].up = conn[k].up \/ conn'[k].up = Append(conn[k].up, Request(gui[g].next, "ListPets"))
      /\ gui'[g].state \in {gui[g].state, "mismatch", "connected"}
  BY <1>1, ReceiveFacts, SMTT(20)
<1>5. /\ k # NoConn /\ conn[k].owner = g /\ conn[k].client /\ conn[k].accepted
      /\ \A h \in Clients \ {g} : gui[h].conn # k
  BY <1>1, <1>2, SlotIsOwn, ConnFacts DEF Base, WiredAs
<1>6. /\ Request(gui[g].next, "ListPets") \in Requests /\ Request(gui[g].next, "ListPets").op \in Ops
      /\ conn[k].up \in Seq(Requests) /\ \A i \in 1 .. Len(conn[k].up) : conn[k].up[i].op \in Ops
  BY <1>5 DEF Base, Typed, Slots, Views, WiredAs, Request, Requests, Ops
<1>7. \A i \in 1 .. Len(conn'[k].up) : conn'[k].up[i].op \in Ops
  <2>1. CASE conn'[k].up = conn[k].up
    BY <1>6, <2>1
  <2>2. CASE conn'[k].up = Append(conn[k].up, Request(gui[g].next, "ListPets"))
    <3> DEFINE x == Request(gui[g].next, "ListPets")
               up == conn[k].up
    <3> HIDE DEF x, up
    <3>1. x \in Requests /\ x.op \in Ops /\ up \in Seq(Requests) /\ \A i \in 1 .. Len(up) : up[i].op \in Ops
      BY <1>6 DEF x, up
    <3>2. /\ Len(Append(up, x)) = Len(up) + 1 /\ Len(up) \in Nat /\ Append(up, x)[Len(up) + 1] = x
          /\ \A i \in 1 .. Len(up) : Append(up, x)[i] = up[i]
      BY <3>1, AppendFacts
    <3>3. \A i \in 1 .. Len(Append(up, x)) : Append(up, x)[i].op \in Ops
      BY <3>1, <3>2
    <3> QED
      BY <2>2, <3>3 DEF x, up
  <2> QED
    BY <1>4, <2>1, <2>2
<1>8. Uncalled(k)' = Uncalled(k) /\ host'.up = host.up /\ host' \in Hosts
      /\ calls' \in Seq(Calls) /\ \A j \in Conns : Uncalled(j) => Uncalled(j)'
  BY <1>2, SameCalls DEF Base, Typed
<1>9. WiredAs(conn[k], host.up, Uncalled(k))'
  BY <1>3, <1>5, <1>7, <1>8, ConnFacts DEF Base, WiredAs
<1>10. Owned(g)'
  BY <1>1, <1>2, <1>3, <1>4, <1>5 DEF Base, Owned
<1>11. \A h \in Clients : Owned(h)' \/ (gui'[h] = gui[h] /\ gui[h].conn # k)
  BY <1>2, <1>5, <1>10
<1> QED
  BY <1>2, <1>8, <1>9, <1>11, SlotBase

\* The connection of a client that drops it, or whose window is closed.
LEMMA DropBase ==
  ASSUME Base, NEW g \in Clients, gui[g].conn # NoConn, UNCHANGED <<host, calls>>,
         NEW v \in Views, v.conn = NoConn, v.state \in {"disconnected", "closed"},
         gui' = [gui EXCEPT ![g] = v],
         Slot(gui[g].conn, Swept(gui[g].conn, [conn[gui[g].conn] EXCEPT !.client = FALSE, !.down = <<>>], calls))
  PROVE  Base'
<1>1. PICK k \in Conns : k = gui[g].conn
  BY DEF Base, Typed, Views
<1> DEFINE c == [conn[k] EXCEPT !.client = FALSE, !.down = <<>>]
<1>2. /\ ~Free(k) /\ \A h \in Clients \ {g} : gui[h].conn # k
  BY <1>1, SlotIsOwn
<1>3. /\ c \in Slots /\ ~c.client /\ c.down = <<>> /\ c.owner = conn[k].owner
      /\ c.accepted = conn[k].accepted /\ c.reader = conn[k].reader /\ c.writer = conn[k].writer
      /\ c.hub = conn[k].hub /\ c.up = conn[k].up /\ c.out = conn[k].out
      /\ Slot(k, Swept(k, c, calls))
  <2>1. Slot(k, Swept(k, c, calls))
    BY <1>1
  <2>2. conn[k] \in Slots
    BY DEF Base, Typed
  <2>3. /\ c \in Slots /\ ~c.client /\ c.down = <<>> /\ c.owner = conn[k].owner
        /\ c.accepted = conn[k].accepted /\ c.reader = conn[k].reader /\ c.writer = conn[k].writer
        /\ c.hub = conn[k].hub /\ c.up = conn[k].up /\ c.out = conn[k].out
    BY <2>2, EmptySeq DEF Slots
  <2> HIDE DEF c
  <2> QED
    BY <2>1, <2>3
<1> HIDE DEF c
<1>4. /\ gui' \in [Clients -> Views] /\ gui'[g] = v /\ \A h \in Clients \ {g} : gui'[h] = gui[h]
  BY DEF Base, Typed
<1>5. \A h \in Clients : \/ gui'[h] = gui[h] /\ gui[h].conn # k
                         \/ gui'[h].conn = NoConn /\ gui'[h].state \in {"disconnected", "closed"}
  BY <1>2, <1>4
<1> QED
  BY <1>2, <1>3, <1>4, <1>5, LeaveBase

\* What a client becomes that has lost its connection, or was closed.
LEMMA DroppedFacts ==
  ASSUME Typed, NEW g \in Clients
  PROVE  /\ Dropped(g) \in Views /\ Dropped(g).conn = NoConn /\ Dropped(g).state = "disconnected"
         /\ Dropped(g).ver = gui[g].ver /\ Dropped(g).pending = {}
         /\ LET v == [Dropped(g) EXCEPT !.state = "closed"]
            IN  v \in Views /\ v.conn = NoConn /\ v.state = "closed" /\ v.ver = gui[g].ver /\ v.pending = {}
BY DEF Typed, Dropped, Views

LEMMA EndBase ==
  ASSUME Base, NEW g \in Clients, EndOfStream(g) \/ CloseWindow(g)
  PROVE  Base'
<1>1. Typed
  BY DEF Base
<1>2. CASE EndOfStream(g)
  BY <1>1, <1>2, DroppedFacts, DropBase DEF EndOfStream
<1>3. CASE CloseWindow(g)
  <2> DEFINE v == [Dropped(g) EXCEPT !.state = "closed"]
  <2>1. v \in Views /\ v.conn = NoConn /\ v.state = "closed" /\ gui' = [gui EXCEPT ![g] = v]
    BY <1>1, <1>3, DroppedFacts DEF CloseWindow
  <2> HIDE DEF v
  <2> QED
    BY <1>3, <2>1, DropBase DEF CloseWindow
<1> QED
  BY <1>2, <1>3

-----------------------------------------------------------------------------
\* The host loop speaks: what a slot becomes when a line is offered to it.

Talks(c, d) ==
  /\ d.owner = c.owner /\ d.client = c.client /\ d.accepted = c.accepted
  /\ d.reader = c.reader /\ d.writer = c.writer /\ d.up = c.up /\ d.down = c.down
  /\ d.hub => c.hub
  /\ c.writer => d.hub = c.hub

\* Its line goes to the outbox.
Told(c, d, line) == Talks(c, d) /\ d.out = IF c.writer THEN Append(c.out, line) ELSE c.out

\* Its line goes to the outbox if the slot is in the hub.
Heard(c, d, line) == Talks(c, d) /\ d.out = IF c.hub /\ c.writer THEN Append(c.out, line) ELSE c.out

LEMMA TalksTwice ==
  ASSUME NEW c \in Slots, NEW d \in Slots, NEW e \in Slots, Talks(c, d), Talks(d, e)
  PROVE  Talks(c, e)
BY DEF Talks

LEMMA RespondFacts ==
  ASSUME NEW cs \in [Conns -> Slots], NEW k \in Conns, NEW line \in Lines
  PROVE  /\ Respond(cs, k, line) \in [Conns -> Slots] /\ Told(cs[k], Respond(cs, k, line)[k], line)
         /\ \A j \in Conns \ {k} : Respond(cs, k, line)[j] = cs[j]
<1>1. cs[k] \in Slots /\ Append(cs[k].out, line) \in Seq(Lines)
  BY AppendFacts DEF Slots
<1> DEFINE d == [cs[k] EXCEPT !.out = Append(cs[k].out, line)]
<1>2. d \in Slots /\ (cs[k].writer => Told(cs[k], d, line)) /\ (~cs[k].writer => Told(cs[k], cs[k], line))
  BY <1>1 DEF Slots, Told, Talks
<1> HIDE DEF d
<1>3. Respond(cs, k, line) = IF cs[k].writer THEN [cs EXCEPT ![k] = d] ELSE cs
  BY DEF Respond, d
<1> QED
  BY <1>2, <1>3

LEMMA BroadcastFacts ==
  ASSUME NEW cs \in [Conns -> Slots], NEW line \in Lines
  PROVE  /\ Broadcast(cs, line) \in [Conns -> Slots]
         /\ \A k \in Conns : Heard(cs[k], Broadcast(cs, line)[k], line)
<1> DEFINE b == Broadcast(cs, line)
<1>1. ASSUME NEW k \in Conns
      PROVE  b[k] \in Slots /\ Heard(cs[k], b[k], line)
  <2>1. cs[k] \in Slots /\ Append(cs[k].out, line) \in Seq(Lines)
    BY AppendFacts DEF Slots
  <2> DEFINE d == [cs[k] EXCEPT !.out = Append(cs[k].out, line)]
             e == [cs[k] EXCEPT !.hub = FALSE]
  <2>2. b[k] = IF ~cs[k].hub THEN cs[k] ELSE IF cs[k].writer THEN d ELSE e
    BY DEF Broadcast
  <2>3. /\ d \in Slots /\ (cs[k].hub /\ cs[k].writer => Heard(cs[k], d, line))
        /\ e \in Slots /\ (~cs[k].writer => Heard(cs[k], e, line))
        /\ (~cs[k].hub => Heard(cs[k], cs[k], line))
    BY <2>1 DEF Slots, Heard, Talks
  <2> HIDE DEF b, d, e
  <2> QED
    BY <2>1, <2>2, <2>3
<1>2. b = [k \in Conns |-> b[k]]
  BY DEF Broadcast
<1> HIDE DEF b
<1>3. b \in [Conns -> Slots]
  BY <1>1, <1>2
<1> QED
  BY <1>1, <1>3 DEF b

\* Talking leaves a slot as it was wired.
LEMMA TalksWired ==
  ASSUME NEW c \in Slots, NEW d \in Slots, Talks(c, d), d.out = c.out \/ c.writer,
         NEW up, NEW uncalled, WiredAs(c, up, uncalled)
  PROVE  WiredAs(d, up, uncalled)
<1>1. CASE c.owner = NoConn
  <2>1. c = Idle /\ uncalled
    BY <1>1 DEF WiredAs
  <2>2. d = Idle
    BY <2>1, IdleFacts DEF Talks, Slots, Idle
  <2> QED
    BY <2>1, <2>2 DEF WiredAs
<1>2. CASE c.owner # NoConn
  BY <1>2 DEF WiredAs, Talks, Slots
<1> QED
  BY <1>1, <1>2

\* The host loop, its connections being cs: it answers call on the slot it
\* came by, which is perhaps free from then on.
Replies(cs, call, answer) ==
  LET k == call.conn IN
  /\ conn' \in [Conns -> Slots] /\ \A j \in Conns \ {k} : conn'[j] = cs[j]
  /\ \/ Told(cs[k], conn'[k], answer)
     \/ conn'[k] = Idle /\ ~cs[k].client /\ Uncalled(k)'

LEMMA RepliesFacts ==
  ASSUME Typed, calls # <<>>, calls' = Tail(calls), NEW cs \in [Conns -> Slots], NEW answer \in Lines,
         NEW call \in Calls,
         conn' = [Respond(cs, call.conn, answer) EXCEPT ![call.conn] = Swept(call.conn, @, Tail(calls))]
  PROVE  Replies(cs, call, answer)
<1>1. PICK k \in Conns : k = call.conn
  BY DEF Calls
<1> DEFINE said == Respond(cs, k, answer)
           d == Swept(k, said[k], Tail(calls))
<1>2. said \in [Conns -> Slots] /\ Told(cs[k], said[k], answer) /\ \A j \in Conns \ {k} : said[j] = cs[j]
  BY RespondFacts
<1>3. conn' = [said EXCEPT ![k] = d]
  BY <1>1
<1>4. Tail(calls) \in Seq(Calls) /\ DOMAIN Tail(calls) = 1 .. Len(Tail(calls))
  BY TailFacts, LenProperties DEF Typed
<1>5. \/ d = said[k]
      \/ d = Idle /\ ~said[k].client /\ Uncalled(k)'
  <2> HIDE DEF said
  <2>1. said[k] \in Slots
    BY <1>2
  <2>2. \/ d = said[k]
        \/ d = Idle /\ ~said[k].client /\ \A i \in DOMAIN Tail(calls) : Tail(calls)[i].conn # k
    BY <2>1, SweptFacts
  <2> HIDE DEF d
  <2> QED
    BY <2>2, <1>4 DEF Uncalled
<1> HIDE DEF d, said
<1>6. conn' \in [Conns -> Slots] /\ conn'[k] = d /\ \A j \in Conns \ {k} : conn'[j] = cs[j]
  <2>1. d \in Slots
    BY <1>2, <1>5, IdleFacts
  <2>2. conn' \in [Conns -> Slots]
    BY <1>2, <1>3, <2>1
  <2>3. conn'[k] = d
    BY <1>2, <1>3
  <2>4. \A j \in Conns \ {k} : conn'[j] = cs[j]
    BY <1>2, <1>3
  <2> QED
    BY <2>2, <2>3, <2>4
<1>7. said[k].client = cs[k].client
  BY <1>2 DEF Told, Talks
<1> QED
  BY <1>1, <1>2, <1>5, <1>6, <1>7 DEF Replies

ChangedFacts(cs) == \A j \in Conns : Heard(conn[j], cs[j], PetsChanged(host.ver + 1))

HostChanged == host'.ver = host.ver + 1 /\ ~host'.untold

LEMMA ChangeFacts ==
  ASSUME Base
  PROVE  /\ PetsChanged(host.ver + 1) \in Lines
         /\ Changed(conn) \in [Conns -> Slots] /\ ChangedFacts(Changed(conn))
         /\ host' = HostChanges => host' \in Hosts /\ host'.up = host.up /\ HostChanged
<1> DEFINE next == host.ver + 1
           event == PetsChanged(next)
<1>1. host \in Hosts /\ next \in Nat /\ conn \in [Conns -> Slots]
  BY DEF Base, Typed, Hosts
<1>2. HostChanges = [host EXCEPT !.ver = next, !.untold = FALSE]
  BY DEF HostChanges
<1> HIDE DEF next
<1>3. event \in Lines
  BY <1>1 DEF PetsChanged, Lines
<1>4. Changed(conn) = Broadcast(conn, event)
  BY DEF Changed, next
<1> HIDE DEF event
<1>5. Changed(conn) \in [Conns -> Slots] /\ \A j \in Conns : Heard(conn[j], Changed(conn)[j], event)
  BY <1>1, <1>3, <1>4, BroadcastFacts
<1>6. host' = HostChanges => host' \in Hosts /\ host'.up = host.up /\ host'.ver = next /\ ~host'.untold
  BY <1>1, <1>2 DEF Hosts
<1> QED
  BY <1>3, <1>5, <1>6 DEF ChangedFacts, HostChanged, event, next

LEMMA HandleFacts ==
  ASSUME Base, HandleControl, NEW call, call = Head(calls)
  PROVE  /\ calls # <<>> /\ calls' = Tail(calls) /\ call \in Calls /\ UNCHANGED gui
         /\ host' \in Hosts /\ host'.up = host.up
         /\ \E cs \in [Conns -> Slots], answer \in Lines :
              /\ answer.tag = "answer" /\ answer.id = call.id /\ answer.pets = host'.ver
              /\ call.op = "ListPets" => answer.ok
              /\ Replies(cs, call, answer)
              /\ \/ cs = conn /\ host'.ver = host.ver /\ host'.untold = host.untold
                 \/ ChangedFacts(cs) /\ HostChanged
<1> DEFINE done(cs, answer) ==
             conn' = [Respond(cs, call.conn, answer) EXCEPT ![call.conn] = Swept(call.conn, @, Tail(calls))]
           changed == [Answer(call.id, TRUE) EXCEPT !.pets = host.ver + 1]
<1>1. /\ calls # <<>> /\ calls' = Tail(calls) /\ UNCHANGED gui
      /\ \/ call.op = "Hello" /\ done(conn, Answer(call.id, host.speaks)) /\ UNCHANGED host
         \/ call.op = "ListPets" /\ done(conn, Answer(call.id, TRUE)) /\ UNCHANGED host
         \/ call.op \in {"Reload", "SetPlacement"} /\ done(conn, Answer(call.id, FALSE)) /\ UNCHANGED host
         \/ call.op \in {"Reload", "SetPlacement"} /\ host' = HostChanges /\ done(Changed(conn), changed)
         \/ call.op = "Quit" /\ done(conn, Answer(call.id, TRUE)) /\ host' = [host EXCEPT !.exiting = TRUE]
  BY DEF HandleControl
<1>2. call \in Calls /\ Typed /\ host \in Hosts
  BY <1>1, TailFacts DEF Base, Typed
<1>3. ASSUME NEW cs \in [Conns -> Slots], NEW answer \in Lines, done(cs, answer)
      PROVE  Replies(cs, call, answer)
  BY <1>1, <1>2, <1>3, RepliesFacts
<1>4. \A ok \in BOOLEAN : /\ Answer(call.id, ok) \in Lines /\ Answer(call.id, ok).tag = "answer"
                          /\ Answer(call.id, ok).id = call.id /\ Answer(call.id, ok).ok = ok
                          /\ Answer(call.id, ok).pets = host.ver
  BY <1>2 DEF Answer, Infos, Lines, Calls, Hosts
<1>5. changed \in Lines /\ changed.tag = "answer" /\ changed.id = call.id /\ changed.ok
      /\ changed.pets = host.ver + 1
  <2> DEFINE next == host.ver + 1
  <2>1. next \in Nat
    BY <1>2 DEF Hosts
  <2>2. changed = [Answer(call.id, TRUE) EXCEPT !.pets = next]
    OBVIOUS
  <2> HIDE DEF next
  <2>3. changed \in Lines /\ changed.tag = "answer" /\ changed.id = call.id /\ changed.ok /\ changed.pets = next
    BY <1>4, <2>1, <2>2 DEF Lines
  <2> QED
    BY <2>3 DEF next
<1>6. host.speaks \in BOOLEAN /\ conn \in [Conns -> Slots]
  BY <1>2 DEF Hosts, Typed
<1>7. ASSUME NEW ok \in BOOLEAN, done(conn, Answer(call.id, ok)), call.op = "ListPets" => ok,
             host' \in Hosts, host'.up = host.up, host'.ver = host.ver, host'.untold = host.untold
      PROVE  \E cs \in [Conns -> Slots], answer \in Lines :
               /\ answer.tag = "answer" /\ answer.id = call.id /\ answer.pets = host'.ver
               /\ call.op = "ListPets" => answer.ok
               /\ Replies(cs, call, answer)
               /\ \/ cs = conn /\ host'.ver = host.ver /\ host'.untold = host.untold
                  \/ ChangedFacts(cs) /\ HostChanged
  <2>1. PICK answer \in Lines : answer = Answer(call.id, ok)
    BY <1>4
  <2>2. /\ answer.tag = "answer" /\ answer.id = call.id /\ answer.pets = host.ver /\ answer.ok = ok
        /\ done(conn, answer)
    BY <1>4, <1>7, <2>1
  <2>3. Replies(conn, call, answer)
    BY <1>3, <1>6, <2>2
  <2> HIDE DEF done, changed
  <2> QED
    BY <1>6, <1>7, <2>2, <2>3
<1>8. CASE UNCHANGED host
  <2>1. host' \in Hosts /\ host'.up = host.up /\ host'.ver = host.ver /\ host'.untold = host.untold
    BY <1>2, <1>8
  <2>2. \/ ~(call.op \in {"Reload", "SetPlacement"} /\ host' = HostChanges /\ done(Changed(conn), changed))
        \/ host' = host /\ host' = HostChanges
    BY <1>8
  <2>3. host' # HostChanges
    BY <1>2, <1>8, ChangeFacts DEF HostChanged, Hosts
  <2>4. PICK ok \in BOOLEAN : done(conn, Answer(call.id, ok)) /\ (call.op = "ListPets" => ok)
    BY <1>1, <1>6, <2>3
  <2> HIDE DEF done, changed
  <2> QED
    BY <1>1, <1>2, <1>7, <2>1, <2>4
<1>9. CASE call.op = "Quit" /\ done(conn, Answer(call.id, TRUE)) /\ host' = [host EXCEPT !.exiting = TRUE]
  <2>1. host' \in Hosts /\ host'.up = host.up /\ host'.ver = host.ver /\ host'.untold = host.untold
    BY <1>2, <1>9 DEF Hosts
  <2> HIDE DEF done, changed
  <2> QED
    BY <1>1, <1>2, <1>7, <1>9, <2>1
<1>10. CASE call.op \in {"Reload", "SetPlacement"} /\ host' = HostChanges /\ done(Changed(conn), changed)
  <2>1. host' \in Hosts /\ host'.up = host.up /\ HostChanged
        /\ Changed(conn) \in [Conns -> Slots] /\ ChangedFacts(Changed(conn))
    BY <1>10, ChangeFacts
  <2>2. Replies(Changed(conn), call, changed)
    BY <1>3, <1>5, <1>10, <2>1
  <2> HIDE DEF done, changed
  <2>3. changed.pets = host'.ver
    BY <1>5, <2>1 DEF HostChanged
  <2> QED
    BY <1>1, <1>2, <1>5, <2>1, <2>2, <2>3
<1> QED
  BY <1>1, <1>8, <1>9, <1>10

\* What the host loop says leaves the connections wired as they were.
LEMMA SpokenBase ==
  ASSUME Base, NEW cs \in [Conns -> Slots], cs = conn \/ ChangedFacts(cs)
  PROVE  \A j \in Conns : Talks(conn[j], cs[j]) /\ WiredAs(cs[j], host.up, Uncalled(j))
<1> SUFFICES ASSUME NEW j \in Conns
             PROVE  Talks(conn[j], cs[j]) /\ WiredAs(cs[j], host.up, Uncalled(j))
  OBVIOUS
<1>1. conn[j] \in Slots /\ cs[j] \in Slots /\ WiredAs(conn[j], host.up, Uncalled(j))
  BY DEF Base, Typed
<1>2. Talks(conn[j], cs[j]) /\ (cs[j].out = conn[j].out \/ conn[j].writer)
  BY DEF ChangedFacts, Heard, Talks
<1> QED
  BY <1>1, <1>2, TalksWired

LEMMA HandleBase ==
  ASSUME Base, HandleControl
  PROVE  Base'
<1>1. PICK call \in Calls : call = Head(calls)
  BY HandleFacts
<1>2. calls # <<>> /\ calls' = Tail(calls) /\ UNCHANGED gui /\ host' \in Hosts /\ host'.up = host.up
  BY <1>1, HandleFacts
<1>3. PICK cs \in [Conns -> Slots], answer \in Lines :
        Replies(cs, call, answer) /\ (cs = conn \/ ChangedFacts(cs))
  BY <1>1, HandleFacts
<1>4. PICK k \in Conns : k = call.conn
  BY DEF Calls
<1>5. /\ conn' \in [Conns -> Slots] /\ \A j \in Conns \ {k} : conn'[j] = cs[j]
      /\ Told(cs[k], conn'[k], answer) \/ (conn'[k] = Idle /\ ~cs[k].client /\ Uncalled(k)')
  BY <1>3, <1>4 DEF Replies
<1>6. \A j \in Conns : Talks(conn[j], cs[j]) /\ WiredAs(cs[j], host.up, Uncalled(j))
  BY <1>3, SpokenBase
<1>7. Typed' /\ Typed
  BY <1>2, <1>5, TailFacts DEF Base, Typed
<1>8. ASSUME NEW j \in Conns
      PROVE  WiredAs(conn'[j], host'.up, Uncalled(j)')
  <2>1. Uncalled(j) => Uncalled(j)'
    BY <1>2, <1>7, UncalledStays
  <2>2. WiredAs(cs[j], host.up, Uncalled(j)')
    BY <1>6, <2>1 DEF WiredAs
  <2>3. CASE j # k
    BY <1>2, <1>5, <2>2, <2>3
  <2>4. CASE j = k /\ Told(cs[k], conn'[k], answer)
    BY <1>2, <1>5, <2>2, <2>4, TalksWired DEF Told
  <2>5. CASE j = k /\ conn'[k] = Idle /\ Uncalled(k)'
    BY <2>5, IdleFacts, ConnFacts DEF WiredAs
  <2> QED
    BY <1>5, <2>3, <2>4, <2>5
<1>9. ASSUME NEW g \in Clients
      PROVE  Owned(g)'
  <2>1. CASE gui[g].conn = NoConn
    BY <1>2, <2>1 DEF Base, Owned
  <2>2. CASE gui[g].conn # NoConn
    <3>1. PICK j \in Conns : j = gui[g].conn
      BY <2>2, SlotIsOwn
    <3>2. cs[j].client /\ conn[j].client /\ conn[j].owner = g
      BY <1>6, <2>2, <3>1, SlotIsOwn DEF Talks
    <3>3. Talks(cs[j], conn'[j]) \/ conn'[j] = cs[j]
      BY <1>5, <3>2 DEF Told
    <3>4. conn'[j].owner = g /\ conn'[j].client /\ conn'[j].accepted = conn[j].accepted
      BY <1>6, <3>2, <3>3 DEF Talks
    <3> QED
      BY <1>2, <2>2, <3>1, <3>4 DEF Base, Owned
  <2> QED
    BY <2>1, <2>2
<1>10. \A j \in Conns : WiredAs(conn[j], host.up, Uncalled(j))'
  BY <1>8
<1> QED
  BY <1>7, <1>9, <1>10 DEF Base

LEMMA HostChangeBase ==
  ASSUME Base, HostChange
  PROVE  Base'
<1>1. /\ conn' = Changed(conn) /\ UNCHANGED <<calls, gui>>
      /\ host' \in Hosts /\ host'.up = host.up
      /\ conn' \in [Conns -> Slots] /\ ChangedFacts(Changed(conn))
  BY ChangeFacts DEF HostChange
<1>2. PICK cs \in [Conns -> Slots] : cs = conn' /\ ChangedFacts(cs)
  BY <1>1
<1>3. \A j \in Conns : Talks(conn[j], cs[j]) /\ WiredAs(cs[j], host.up, Uncalled(j))
  BY <1>2, SpokenBase
<1>4. Typed'
  BY <1>1 DEF Base, Typed
<1>5. \A j \in Conns : WiredAs(conn[j], host.up, Uncalled(j))'
  BY <1>1, <1>2, <1>3, SameCalls
<1>6. ASSUME NEW g \in Clients
      PROVE  Owned(g)'
  BY <1>1, <1>2, <1>3, SlotIsOwn DEF Base, Owned, Talks
<1> QED
  BY <1>4, <1>5, <1>6 DEF Base

LEMMA InitBase ==
  ASSUME Init
  PROVE  Base
<1>1. Typed
  BY IdleFacts, EmptySeq DEF Init, Typed, Hosts, Views
<1>2. \A k \in Conns : Uncalled(k)
  BY EmptySeq DEF Init, Uncalled
<1>3. \A k \in Conns : WiredAs(conn[k], host.up, Uncalled(k))
  BY <1>2, IdleFacts, ConnFacts DEF Init, WiredAs
<1>4. \A g \in Clients : Owned(g)
  BY DEF Init, Owned
<1> QED
  BY <1>1, <1>3, <1>4 DEF Base

LEMMA NextBase ==
  ASSUME Base, [Next]_vars
  PROVE  Base'
<1>1. CASE \E k \in Conns : Accept(k) \/ Reader(k) \/ Writer(k) \/ ScriptReads(k)
  BY <1>1, AcceptBase, ReadLineBase, ReadEndBase, WriteBase, WriteEndBase, ScriptReadsBase
  DEF Reader, Writer
<1>2. CASE HandleControl \/ HostChange \/ SurfaceClosed \/ HostDown \/ HostStart
  BY <1>2, HandleBase, HostChangeBase, HostStepBase, HostDownBase
<1>3. CASE \E g \in Clients : Connect(g) \/ ClientRequest(g) \/ Tick(g) \/ CloseWindow(g)
  BY <1>3, ConnectBase, ClientRequestBase, ReceiveBase, EndBase DEF Tick
<1>4. CASE \E x \in Scripts : ScriptRuns(x)
  BY <1>4, ScriptRunsBase
<1>5. CASE UNCHANGED vars
  BY <1>5 DEF vars, Base, Typed, Owned, Uncalled
<1> QED
  BY <1>1, <1>2, <1>3, <1>4, <1>5 DEF Next

-----------------------------------------------------------------------------
\* What a client may rely on: v is its view, sent the requests on their way
\* to the host loop, s what the host said that it has not taken yet, ver the
\* state of the pets.

Items(s) == {s[i] : i \in 1 .. Len(s)}

AllAnswers(s) == \A x \in Items(s) : x.tag = "answer"

Rising(s) == \A i, j \in 1 .. Len(s) : i <= j => s[i].pets <= s[j].pets

\* The versions said rise from the one it shows to the host's.
Rises(v, s, ver) == v.ver <= ver /\ Rising(s) /\ \A x \in Items(s) : v.ver <= x.pets /\ x.pets <= ver

\* An id stands for one request only, and for the one that bears it.
Matches(v, sent, s) ==
  /\ \A r \in v.pending : r.id < v.next
  /\ \A r, q \in v.pending : r.id = q.id => r = q
  /\ \A x \in sent : x.id < v.next /\ \A r \in v.pending : r.id = x.id => r.op = x.op
  /\ \A x \in Items(s) : x.tag = "answer" =>
       x.id < v.next /\ (~x.ok => \A r \in v.pending : r.id = x.id => r.op # "ListPets")

\* The last word about the pets, and the answers behind it, are the state.
LastWord(s, ver) ==
  \A i \in 1 .. Len(s) : (\A j \in 1 .. Len(s) : j > i => s[j].tag = "answer") => s[i].pets = ver

\* A client that has no such word to come, and does not ask, shows the state.
Shown(v, s, ver) ==
  v.state = "connected" /\ AllAnswers(s) /\ (\A r \in v.pending : r.op # "ListPets") => v.ver = ver

Sound(v, sent, s, ver) == Rises(v, s, ver) /\ Matches(v, sent, s)

Fresh(v, s, ver) == LastWord(s, ver) /\ Shown(v, s, ver)

LEMMA AppendItems ==
  ASSUME NEW S, NEW s \in Seq(S), NEW x \in S
  PROVE  Items(Append(s, x)) = Items(s) \cup {x}
<1> DEFINE a == Append(s, x)
<1>1. /\ Len(a) = Len(s) + 1 /\ Len(s) \in Nat /\ a[Len(s) + 1] = x
      /\ \A i \in 1 .. Len(s) : a[i] = s[i]
  BY AppendFacts
<1> HIDE DEF a
<1>2. Items(a) \subseteq Items(s) \cup {x}
  <2> SUFFICES ASSUME NEW i \in 1 .. Len(a)
               PROVE  a[i] \in Items(s) \cup {x}
    BY DEF Items
  <2>1. CASE i = Len(s) + 1
    BY <1>1, <2>1
  <2>2. CASE i # Len(s) + 1
    <3>1. i \in 1 .. Len(s)
      BY <1>1, <2>2
    <3> QED
      BY <1>1, <3>1 DEF Items
  <2> QED
    BY <2>1, <2>2
<1>3. ASSUME NEW i \in 1 .. Len(s)
      PROVE  s[i] \in Items(a)
  <2>1. i \in 1 .. Len(a) /\ a[i] = s[i]
    BY <1>1
  <2> QED
    BY <2>1 DEF Items
<1>4. x \in Items(a)
  <2>1. Len(s) + 1 \in 1 .. Len(a)
    BY <1>1
  <2> QED
    BY <1>1, <2>1 DEF Items
<1> QED
  BY <1>2, <1>3, <1>4 DEF a, Items

LEMMA TailItems ==
  ASSUME NEW S, NEW s \in Seq(S), s # <<>>
  PROVE  Items(s) = {Head(s)} \cup Items(Tail(s))
<1> DEFINE t == Tail(s)
<1>1. /\ Len(s) \in Nat /\ Len(s) >= 1 /\ Head(s) = s[1] /\ Len(t) = Len(s) - 1
      /\ \A i \in 1 .. Len(s) - 1 : t[i] = s[i + 1]
  BY TailFacts
<1> HIDE DEF t
<1>2. ASSUME NEW i \in 1 .. Len(t)
      PROVE  t[i] \in Items(s)
  <2>1. i + 1 \in 1 .. Len(s) /\ t[i] = s[i + 1]
    BY <1>1
  <2> QED
    BY <2>1 DEF Items
<1>3. Head(s) \in Items(s)
  BY <1>1 DEF Items
<1>4. ASSUME NEW i \in 1 .. Len(s)
      PROVE  s[i] \in {Head(s)} \cup Items(t)
  <2>1. CASE i = 1
    BY <1>1, <2>1
  <2>2. CASE i # 1
    <3>1. i - 1 \in 1 .. Len(t) /\ t[i - 1] = s[i]
      BY <1>1, <2>2
    <3> QED
      BY <3>1 DEF Items
  <2> QED
    BY <2>1, <2>2
<1> QED
  BY <1>2, <1>3, <1>4 DEF t, Items

\* A line that brings the host's state goes to the end of the stream.
LEMMA RisesAppend ==
  ASSUME NEW v \in Views, NEW s \in Seq(Lines), NEW ver \in Nat, NEW next \in Nat, ver <= next,
         NEW x \in Lines, x.pets = next, Rises(v, s, ver)
  PROVE  Rises(v, Append(s, x), next)
<1> DEFINE a == Append(s, x)
<1>1. /\ Len(a) = Len(s) + 1 /\ Len(s) \in Nat /\ a[Len(s) + 1] = x
      /\ \A i \in 1 .. Len(s) : a[i] = s[i]
  BY AppendFacts
<1>2. Items(a) = Items(s) \cup {x}
  BY AppendItems
<1> HIDE DEF a
<1>3. v.ver \in Nat
  BY DEF Views
<1>4. \A i \in 1 .. Len(s) : s[i] \in Items(s) /\ s[i] \in Lines /\ s[i].pets \in Nat /\ s[i].pets <= ver
  <2>1. \A i \in 1 .. Len(s) : s[i] \in Lines /\ s[i] \in Items(s)
    BY ElementOfSeq DEF Items
  <2> QED
    BY <2>1 DEF Rises, Lines
<1>5. Rising(a)
  BY <1>1, <1>4 DEF Rises, Rising
<1>6. ASSUME NEW y \in Items(a)
      PROVE  v.ver <= y.pets /\ y.pets <= next
  <2>1. CASE y = x
    BY <1>3, <2>1 DEF Rises
  <2>2. CASE y \in Items(s)
    <3>1. y.pets \in Nat /\ v.ver <= y.pets /\ y.pets <= ver
      BY <1>4, <2>2 DEF Rises, Items
    <3> QED
      BY <1>3, <3>1
  <2> QED
    BY <1>2, <2>1, <2>2
<1>7. v.ver <= next
  BY <1>3 DEF Rises
<1> QED
  BY <1>5, <1>6, <1>7 DEF a, Rises

\* ... as an event,
LEMMA SoundEvent ==
  ASSUME NEW v \in Views, NEW sent, NEW s \in Seq(Lines), NEW ver \in Nat, NEW next \in Nat,
         ver <= next, Sound(v, sent, s, ver), NEW x \in Lines, x.tag = "pets", x.pets = next
  PROVE  Sound(v, sent, Append(s, x), next) /\ Fresh(v, Append(s, x), next)
<1> DEFINE a == Append(s, x)
<1>1. /\ Len(a) = Len(s) + 1 /\ Len(s) \in Nat /\ a[Len(s) + 1] = x
      /\ \A i \in 1 .. Len(s) : a[i] = s[i]
  BY AppendFacts
<1>2. Items(a) = Items(s) \cup {x}
  BY AppendItems
<1>3. Rises(v, a, next)
  BY RisesAppend DEF Sound
<1> HIDE DEF a
<1>4. Matches(v, sent, a)
  BY <1>2 DEF Sound, Matches
<1>5. LastWord(a, next)
  <2> SUFFICES ASSUME NEW i \in 1 .. Len(a), \A j \in 1 .. Len(a) : j > i => a[j].tag = "answer"
               PROVE  a[i].pets = next
    BY DEF LastWord
  <2>1. i = Len(s) + 1
    BY <1>1
  <2> QED
    BY <1>1, <2>1
<1>6. Shown(v, a, next)
  BY <1>2 DEF Shown, AllAnswers
<1> QED
  BY <1>3, <1>4, <1>5, <1>6 DEF a, Sound, Fresh

\* ... or as an answer to one of the requests.
LEMMA SoundAnswer ==
  ASSUME NEW v \in Views, NEW sent, NEW s \in Seq(Lines), NEW ver \in Nat,
         Sound(v, sent, s, ver), NEW x \in Lines, x.tag = "answer", x.pets = ver,
         NEW r \in sent, r.id = x.id, r.op = "ListPets" => x.ok
  PROVE  /\ Sound(v, sent, Append(s, x), ver)
         /\ Fresh(v, s, ver) => Fresh(v, Append(s, x), ver)
<1> DEFINE a == Append(s, x)
<1>1. /\ Len(a) = Len(s) + 1 /\ Len(s) \in Nat /\ a[Len(s) + 1] = x
      /\ \A i \in 1 .. Len(s) : a[i] = s[i]
  BY AppendFacts
<1>2. Items(a) = Items(s) \cup {x}
  BY AppendItems
<1>3. Rises(v, a, ver)
  BY RisesAppend DEF Sound
<1> HIDE DEF a
<1>4. Matches(v, sent, a)
  BY <1>2 DEF Sound, Matches
<1>5. ASSUME LastWord(s, ver)
      PROVE  LastWord(a, ver)
  <2> SUFFICES ASSUME NEW i \in 1 .. Len(a), \A j \in 1 .. Len(a) : j > i => a[j].tag = "answer"
               PROVE  a[i].pets = ver
    BY DEF LastWord
  <2>1. CASE i = Len(s) + 1
    BY <1>1, <2>1
  <2>2. CASE i # Len(s) + 1
    <3>1. i \in 1 .. Len(s) /\ \A j \in 1 .. Len(s) : j > i => s[j].tag = "answer"
      BY <1>1, <2>2
    <3> QED
      BY <1>1, <1>5, <3>1 DEF LastWord
  <2> QED
    BY <2>1, <2>2
<1>6. ASSUME Shown(v, s, ver)
      PROVE  Shown(v, a, ver)
  BY <1>2, <1>6 DEF Shown, AllAnswers
<1> QED
  BY <1>3, <1>4, <1>5, <1>6 DEF a, Sound, Fresh

\* Requests reach their end; the pets change and nobody is told.
LEMMA SoundLess ==
  ASSUME NEW v \in Views, NEW sent, NEW s \in Seq(Lines), NEW ver \in Nat, Sound(v, sent, s, ver),
         NEW less \in SUBSET sent, NEW next \in Nat, ver <= next
  PROVE  Sound(v, less, s, next)
<1>1. \A i \in 1 .. Len(s) : s[i] \in Lines
  BY ElementOfSeq
<1>2. v.ver \in Nat /\ \A x \in Items(s) : x.pets \in Nat
  BY <1>1 DEF Views, Items, Lines
<1>3. Rises(v, s, next)
  BY <1>2 DEF Sound, Rises
<1>4. Matches(v, less, s)
  BY DEF Sound, Matches
<1> QED
  BY <1>3, <1>4 DEF Sound

\* The outbox goes, what the socket holds remains.
LEMMA SoundCut ==
  ASSUME NEW v \in Views, NEW sent, NEW d \in Seq(Lines), NEW o \in Seq(Lines), NEW ver \in Nat,
         Sound(v, sent, d \o o, ver)
  PROVE  Sound(v, {}, d, ver) /\ d \o <<>> = d
<1> DEFINE s == d \o o
<1>1. /\ Len(d) \in Nat /\ Len(o) \in Nat /\ Len(s) = Len(d) + Len(o)
      /\ \A i \in 1 .. Len(d) + Len(o) : s[i] = IF i <= Len(d) THEN d[i] ELSE o[i - Len(d)]
  BY ConcatProperties, LenProperties
<1>2. Sound(v, sent, s, ver)
  OBVIOUS
<1> HIDE DEF s
<1>3. \A i \in 1 .. Len(d) : i \in 1 .. Len(s) /\ s[i] = d[i]
  BY <1>1
<1>4. Items(d) \subseteq Items(s)
  BY <1>3 DEF Items
<1>5. Rising(d)
  BY <1>2, <1>3 DEF Sound, Rises, Rising
<1>6. d \o <<>> = d
  BY ConcatEmptySeq
<1> QED
  BY <1>2, <1>4, <1>5, <1>6 DEF Sound, Rises, Matches

\* Nothing is on the way.
LEMMA SoundNew ==
  ASSUME NEW v \in Views, v.pending = {}, NEW ver \in Nat, v.ver <= ver
  PROVE  Rises(v, <<>>, ver) /\ Matches(v, {}, <<>>)
BY EmptySeq DEF Items, Rising, Rises, Matches

\* The client asks for something under its next id.
LEMMA SoundAsk ==
  ASSUME NEW v \in Views, NEW sent \in SUBSET Requests, NEW s \in Seq(Lines), NEW ver \in Nat,
         Rises(v, s, ver), Matches(v, sent, s),
         NEW op \in Ops, NEW w \in Views, w.next = v.next + 1, w.ver = v.ver,
         w.pending = v.pending \cup {Request(v.next, op)}
  PROVE  /\ Sound(w, sent \cup {Request(v.next, op)}, s, ver)
         /\ op = "ListPets" /\ LastWord(s, ver) => Fresh(w, s, ver)
         /\ w.state = v.state /\ Fresh(v, s, ver) => Fresh(w, s, ver)
<1>1. v.next \in Nat /\ \A r \in v.pending : r.id \in Nat
  BY DEF Views
<1>2. \A i \in 1 .. Len(s) : s[i] \in Lines
  BY ElementOfSeq
<1>3. (\A x \in Items(s) : x.id \in Nat) /\ \A x \in sent : x.id \in Nat
  BY <1>2 DEF Items, Lines, Requests
<1> DEFINE q == Request(v.next, op)
<1>4. q.id = v.next /\ q.op = op
  BY DEF Request
<1> HIDE DEF q
<1>5. w.pending = v.pending \cup {q}
  BY DEF q
<1>6. \A r \in w.pending : r.id < w.next
  <2>1. \A r \in v.pending : r.id < v.next
    BY DEF Matches
  <2> QED
    BY <1>1, <1>4, <1>5, <2>1
<1>7. \A r, z \in w.pending : r.id = z.id => r = z
  <2>1. \A r \in v.pending : r.id # v.next
    BY <1>1 DEF Matches
  <2> QED
    BY <1>4, <1>5, <2>1 DEF Matches
<1>8. \A x \in sent \cup {q} : x.id < w.next /\ \A r \in w.pending : r.id = x.id => r.op = x.op
  <2>1. ASSUME NEW x \in sent
        PROVE  x.id < w.next /\ x.id # v.next /\ \A r \in v.pending : r.id = x.id => r.op = x.op
    BY <1>1, <1>3 DEF Matches
  <2>2. \A r \in v.pending : r.id # v.next
    BY <1>1 DEF Matches
  <2>3. q.id < w.next
    BY <1>1, <1>4
  <2> QED
    BY <1>4, <1>5, <2>1, <2>2, <2>3
<1>9. ASSUME NEW x \in Items(s), x.tag = "answer"
      PROVE  x.id < w.next /\ (~x.ok => \A r \in w.pending : r.id = x.id => r.op # "ListPets")
  <2>1. x.id < v.next /\ (~x.ok => \A r \in v.pending : r.id = x.id => r.op # "ListPets")
    BY <1>9 DEF Matches
  <2>2. x.id # v.next /\ x.id < w.next
    BY <1>1, <1>3, <2>1
  <2> QED
    BY <1>4, <1>5, <2>1, <2>2
<1>10. Matches(w, sent \cup {q}, s)
  BY <1>6, <1>7, <1>8, <1>9 DEF Matches
<1>11. Rises(w, s, ver)
  BY DEF Rises
<1>12. op = "ListPets" => Shown(w, s, ver)
  BY <1>4, <1>5 DEF Shown
<1>13. w.state = v.state /\ Shown(v, s, ver) => Shown(w, s, ver)
  BY <1>5 DEF Shown
<1> QED
  BY <1>10, <1>11, <1>12, <1>13 DEF Sound, Fresh, q

\* What a client may rely on when it has taken the head of the stream,
\* whatever it shows then.
LEMMA TakeFacts ==
  ASSUME NEW v \in Views, NEW sent, NEW s \in Seq(Lines), s # <<>>, NEW ver \in Nat,
         Sound(v, sent, s, ver), NEW x, x = Head(s)
  PROVE  /\ x \in Lines /\ Tail(s) \in Seq(Lines) /\ Items(s) = {x} \cup Items(Tail(s))
         /\ v.ver <= x.pets /\ x.pets <= ver
         /\ \A w \in Views : w.ver \in {v.ver, x.pets} => Rises(w, Tail(s), ver)
         /\ \A w \in Views : w.next = v.next /\ w.pending = Awaits(v, x) => Matches(w, sent, Tail(s))
         /\ LastWord(s, ver) => LastWord(Tail(s), ver)
         /\ LastWord(s, ver) /\ AllAnswers(Tail(s)) => x.pets = ver
<1> DEFINE t == Tail(s)
<1>1. /\ Len(s) \in Nat /\ Len(s) >= 1 /\ x = s[1] /\ Len(t) = Len(s) - 1 /\ x \in Lines
      /\ t \in Seq(Lines) /\ \A i \in 1 .. Len(s) - 1 : t[i] = s[i + 1]
  BY TailFacts
<1>2. Items(s) = {x} \cup Items(t)
  BY TailItems
<1>3. v.ver <= x.pets /\ x.pets <= ver /\ v.ver \in Nat /\ x.pets \in Nat
  BY <1>1, <1>2 DEF Sound, Rises, Views, Lines
<1> HIDE DEF t
<1>4. Rising(t)
  <2> SUFFICES ASSUME NEW i \in 1 .. Len(t), NEW j \in 1 .. Len(t), i <= j
               PROVE  t[i].pets <= t[j].pets
    BY DEF Rising
  <2>1. i + 1 \in 1 .. Len(s) /\ j + 1 \in 1 .. Len(s) /\ i + 1 <= j + 1
    BY <1>1
  <2> QED
    BY <1>1, <2>1 DEF Sound, Rises, Rising
<1>5. ASSUME NEW y \in Items(t)
      PROVE  x.pets <= y.pets
  <2>1. PICK i \in 1 .. Len(t) : y = t[i]
    BY DEF Items
  <2>2. i + 1 \in 1 .. Len(s) /\ 1 \in 1 .. Len(s) /\ 1 <= i + 1 /\ y = s[i + 1]
    BY <1>1, <2>1
  <2> QED
    BY <1>1, <2>2 DEF Sound, Rises, Rising
<1>6. \A w \in Views : w.ver \in {v.ver, x.pets} => Rises(w, t, ver)
  BY <1>2, <1>3, <1>4, <1>5 DEF Sound, Rises
<1>7. \A w \in Views : w.next = v.next /\ w.pending = Awaits(v, x) => Matches(w, sent, t)
  BY <1>2 DEF Sound, Matches, Awaits
<1>8. ASSUME LastWord(s, ver)
      PROVE  LastWord(t, ver)
  <2> SUFFICES ASSUME NEW i \in 1 .. Len(t), \A j \in 1 .. Len(t) : j > i => t[j].tag = "answer"
               PROVE  t[i].pets = ver
    BY DEF LastWord
  <2>1. i + 1 \in 1 .. Len(s) /\ t[i] = s[i + 1]
    BY <1>1
  <2>2. ASSUME NEW j \in 1 .. Len(s), j > i + 1
        PROVE  s[j].tag = "answer"
    <3>1. j - 1 \in 1 .. Len(t) /\ j - 1 > i /\ t[j - 1] = s[j]
      BY <1>1, <2>2
    <3> QED
      BY <3>1
  <2> QED
    BY <1>8, <2>1, <2>2 DEF LastWord
<1>9. ASSUME LastWord(s, ver), AllAnswers(t)
      PROVE  x.pets = ver
  <2>1. ASSUME NEW j \in 1 .. Len(s), j > 1
        PROVE  s[j].tag = "answer"
    <3>1. j - 1 \in 1 .. Len(t) /\ t[j - 1] = s[j]
      BY <1>1, <2>1
    <3> QED
      BY <1>9, <3>1 DEF AllAnswers, Items
  <2>2. 1 \in 1 .. Len(s)
    BY <1>1
  <2> QED
    BY <1>1, <1>9, <2>1, <2>2 DEF LastWord
<1> QED
  BY <1>1, <1>2, <1>3, <1>6, <1>7, <1>8, <1>9 DEF t

\* A client takes the head of the stream and shows the pets it brings, or
\* keeps what it shows.
LEMMA SoundTake ==
  ASSUME NEW v \in Views, NEW sent, NEW s \in Seq(Lines), s # <<>>, NEW ver \in Nat,
         Sound(v, sent, s, ver), NEW x, x = Head(s), NEW w \in Views,
         w.pending = Awaits(v, x),
         w.next = v.next,
         \/ w.ver = x.pets
         \/ /\ w.ver = v.ver /\ w.state \in {v.state, "mismatch"} /\ x.tag = "answer"
            /\ \/ x.ok = FALSE
               \/ \A r \in v.pending : r.id # x.id
               \/ \E r \in v.pending : r.id = x.id /\ r.op # "ListPets"
  PROVE  /\ Sound(w, sent, Tail(s), ver)
         /\ Fresh(v, s, ver) => Fresh(w, Tail(s), ver)
<1>1. /\ Items(s) = {x} \cup Items(Tail(s)) /\ Rises(w, Tail(s), ver) /\ Matches(w, sent, Tail(s))
      /\ LastWord(s, ver) => LastWord(Tail(s), ver)
      /\ LastWord(s, ver) /\ AllAnswers(Tail(s)) => x.pets = ver
  <2>1. Items(s) = {x} \cup Items(Tail(s))
    BY TailItems
  <2>2. \A u \in Views : u.ver \in {v.ver, x.pets} => Rises(u, Tail(s), ver)
    BY TakeFacts
  <2>3. LastWord(s, ver) => LastWord(Tail(s), ver)
    BY TakeFacts
  <2>4. LastWord(s, ver) /\ AllAnswers(Tail(s)) => x.pets = ver
    BY TakeFacts, ZenonT(30)
  <2>5. \A u \in Views : u.next = v.next /\ u.pending = Awaits(v, x) => Matches(u, sent, Tail(s))
    BY TakeFacts
  <2>6. w.ver \in {v.ver, x.pets}
    OBVIOUS
  <2> QED
    BY <2>1, <2>2, <2>3, <2>4, <2>5, <2>6
<1>2. ASSUME Fresh(v, s, ver)
      PROVE  Shown(w, Tail(s), ver)
  <2>1. CASE w.ver = x.pets
    BY <1>1, <1>2, <2>1 DEF Shown, Fresh
  <2>2. CASE /\ w.ver = v.ver /\ w.state \in {v.state, "mismatch"} /\ x.tag = "answer"
             /\ \A r \in v.pending : r.id = x.id => r.op # "ListPets"
    <3> SUFFICES ASSUME w.state = "connected", AllAnswers(Tail(s)), \A r \in w.pending : r.op # "ListPets"
                 PROVE  w.ver = ver
      BY DEF Shown
    <3>1. v.state = "connected" /\ AllAnswers(s)
      BY <1>1, <2>2 DEF AllAnswers
    <3>2. \A r \in v.pending : r.op # "ListPets"
      BY <2>2 DEF Awaits
    <3> QED
      BY <1>2, <2>2, <3>1, <3>2 DEF Fresh, Shown
  <2>3. x.tag = "answer" /\ ~x.ok => \A r \in v.pending : r.id = x.id => r.op # "ListPets"
    BY <1>1 DEF Sound, Matches
  <2>4. (\E r \in v.pending : r.id = x.id /\ r.op # "ListPets")
          => \A r \in v.pending : r.id = x.id => r.op # "ListPets"
    BY DEF Sound, Matches
  <2> QED
    BY <2>1, <2>2, <2>3, <2>4
<1> QED
  BY <1>1, <1>2 DEF Sound, Fresh

\* A client takes the head of the stream, an answer, and asks for the pets.
LEMMA SoundTakeAndAsk ==
  ASSUME NEW v \in Views, NEW sent \in SUBSET Requests, NEW s \in Seq(Lines), s # <<>>,
         NEW ver \in Nat,
         Sound(v, sent, s, ver), NEW x, x = Head(s), NEW w \in Views,
         w.pending = Awaits(v, x) \cup {Request(v.next, "ListPets")},
         w.next = v.next + 1, w.ver = v.ver
  PROVE  /\ Sound(w, sent \cup {Request(v.next, "ListPets")}, Tail(s), ver)
         /\ Fresh(v, s, ver) => Fresh(w, Tail(s), ver)
<1> DEFINE pending == Awaits(v, x)
           u == [v EXCEPT !.pending = pending]
<1>1. pending \in SUBSET [id : Nat \ {0}, op : Ops]
  BY DEF Views, Awaits
<1> HIDE DEF pending
<1>2. u \in Views /\ u.pending = pending /\ u.next = v.next /\ u.ver = v.ver /\ u.state = v.state
  BY <1>1 DEF Views
<1> HIDE DEF u
<1>3. /\ Tail(s) \in Seq(Lines) /\ Rises(u, Tail(s), ver) /\ Matches(u, sent, Tail(s))
      /\ LastWord(s, ver) => LastWord(Tail(s), ver)
  <2>1. /\ Tail(s) \in Seq(Lines)
        /\ \A z \in Views : z.ver \in {v.ver, x.pets} => Rises(z, Tail(s), ver)
        /\ LastWord(s, ver) => LastWord(Tail(s), ver)
    BY TakeFacts
  <2>2. \A z \in Views : z.next = v.next /\ z.pending = Awaits(v, x) => Matches(z, sent, Tail(s))
    BY TakeFacts
  <2> QED
    BY <1>2, <2>1, <2>2 DEF pending
<1>4. w.pending = u.pending \cup {Request(u.next, "ListPets")} /\ "ListPets" \in Ops
  BY <1>2 DEF pending, Ops
<1>5. /\ Sound(w, sent \cup {Request(u.next, "ListPets")}, Tail(s), ver)
      /\ LastWord(Tail(s), ver) => Fresh(w, Tail(s), ver)
  BY <1>2, <1>3, <1>4, SoundAsk
<1> QED
  BY <1>2, <1>3, <1>5 DEF Fresh

-----------------------------------------------------------------------------
\* What every client relies on, step by step.

Stream(k) == conn[k].down \o conn[k].out

\* The requests of connection k that the host loop has not answered.
Sent(k) == Items(conn[k].up) \cup {Request(x.id, x.op) : x \in {y \in Items(calls) : y.conn = k}}

Follows(g) ==
  LET k == gui[g].conn IN
  /\ gui[g].ver <= host.ver
  /\ k # NoConn =>
       /\ Sound(gui[g], Sent(k), Stream(k), host.ver)
       /\ conn[k].writer /\ ~host.untold => Fresh(gui[g], Stream(k), host.ver)

IInv == Base /\ \A g \in Clients : Follows(g)

LEMMA ItemsIn ==
  ASSUME NEW S, NEW s \in Seq(S)
  PROVE  Items(s) \subseteq S
BY ElementOfSeq DEF Items

LEMMA QueueFacts ==
  ASSUME Typed, NEW k \in Conns
  PROVE  /\ conn[k] \in Slots /\ conn[k].down \in Seq(Lines) /\ conn[k].out \in Seq(Lines)
         /\ conn[k].up \in Seq(Requests)
         /\ Stream(k) \in Seq(Lines) /\ Sent(k) \in SUBSET Requests
<1>1. conn[k] \in Slots
  BY DEF Typed
<1>2. conn[k].down \in Seq(Lines) /\ conn[k].out \in Seq(Lines) /\ conn[k].up \in Seq(Requests)
  BY <1>1 DEF Slots
<1>3. Stream(k) \in Seq(Lines)
  BY <1>2, ConcatProperties DEF Stream
<1>4. Items(conn[k].up) \subseteq Requests /\ Items(calls) \subseteq Calls
  BY <1>2, ItemsIn DEF Typed
<1>5. \A x \in Calls : Request(x.id, x.op) \in Requests
  BY DEF Request, Requests, Calls
<1>6. Sent(k) \in SUBSET Requests
  BY <1>4, <1>5 DEF Sent
<1> QED
  BY <1>1, <1>2, <1>3, <1>6

\* The slot of a connected client.
LEMMA ClientSlot ==
  ASSUME Base, NEW g \in Clients, NEW k \in Conns, gui[g].conn = k
  PROVE  /\ k # NoConn /\ conn[k].owner = g /\ conn[k].owner \in Clients /\ conn[k].client = TRUE
         /\ conn[k].writer => conn[k].hub /\ conn[k].reader /\ conn[k].accepted
         /\ ~conn[k].accepted => conn[k].down = <<>> /\ conn[k].out = <<>> /\ gui[g].state = "connecting"
         /\ \A i \in 1 .. Len(conn[k].up) : conn[k].up[i].op \in Ops
BY ConnFacts DEF Base, WiredAs, Owned, Typed, Slots

LEMMA SentLess ==
  ASSUME NEW k \in Conns, Items(conn'[k].up) \subseteq Items(conn[k].up),
         \A x \in Items(calls') : x.conn = k => x \in Items(calls)
  PROVE  Sent(k)' \subseteq Sent(k)
BY DEF Sent

\* Nothing new is said or asked.
LEMMA FollowsStill ==
  ASSUME Base, NEW g \in Clients, Follows(g), Typed', gui'[g] = gui[g], host.ver <= host'.ver,
         gui[g].conn # NoConn =>
           /\ Stream(gui[g].conn)' = Stream(gui[g].conn)
           /\ Sent(gui[g].conn)' \subseteq Sent(gui[g].conn)
           /\ \/ ~conn'[gui[g].conn].writer
              \/ host'.untold
              \/ host'.ver = host.ver /\ host'.untold = host.untold
                 /\ conn'[gui[g].conn].writer = conn[gui[g].conn].writer
  PROVE  Follows(g)'
<1>1. host.ver \in Nat /\ host'.ver \in Nat /\ gui[g] \in Views /\ gui[g].ver \in Nat /\ Typed
  BY DEF Base, Typed, Hosts, Views
<1>2. gui'[g].ver <= host'.ver
  BY <1>1 DEF Follows
<1>3. ASSUME NEW k \in Conns, gui[g].conn = k
      PROVE  Follows(g)'
  <2>1. k # NoConn
    BY <1>3, ConnFacts
  <2>2. /\ Stream(k)' = Stream(k) /\ Sent(k)' \subseteq Sent(k)
        /\ \/ ~conn'[k].writer \/ host'.untold
           \/ host'.ver = host.ver /\ host'.untold = host.untold /\ conn'[k].writer = conn[k].writer
    BY <1>3, <2>1
  <2>3. Sound(gui[g], Sent(k), Stream(k), host.ver) /\ Stream(k) \in Seq(Lines)
    BY <1>1, <1>3, <2>1, QueueFacts DEF Follows
  <2>4. Sound(gui[g], Sent(k)', Stream(k)', host'.ver)
    BY <1>1, <2>2, <2>3, SoundLess
  <2>5. conn'[k].writer /\ ~host'.untold => Fresh(gui[g], Stream(k)', host'.ver)
    BY <1>3, <2>1, <2>2 DEF Follows
  <2> QED
    BY <1>2, <1>3, <2>4, <2>5 DEF Follows
<1> QED
  BY <1>1, <1>2, <1>3 DEF Follows, Views

\* A step on another connection.
LEMMA FollowsElsewhere ==
  ASSUME Base, NEW g \in Clients, Follows(g), Typed', gui'[g] = gui[g], UNCHANGED host,
         \A j \in Conns : gui[g].conn = j =>
           conn'[j] = conn[j] /\ \A x \in Items(calls') : x.conn = j => x \in Items(calls)
  PROVE  Follows(g)'
<1>1. host.ver <= host'.ver
  BY DEF Base, Typed, Hosts
<1>2. ASSUME NEW k \in Conns, gui[g].conn = k
      PROVE  Stream(k)' = Stream(k) /\ Sent(k)' \subseteq Sent(k) /\ conn'[k].writer = conn[k].writer
  BY <1>2, SentLess DEF Stream
<1>3. gui[g].conn # NoConn => gui[g].conn \in Conns
  BY DEF Base, Typed, Views
<1>4. CASE gui[g].conn = NoConn
  BY <1>1, <1>4, FollowsStill
<1>5. CASE gui[g].conn # NoConn
  <2>1. PICK k \in Conns : k = gui[g].conn
    BY <1>3, <1>5
  <2>2. Stream(k)' = Stream(k) /\ Sent(k)' \subseteq Sent(k) /\ conn'[k].writer = conn[k].writer
    BY <1>2, <2>1
  <2> QED
    BY <1>1, <2>1, <2>2, FollowsStill
<1> QED
  BY <1>4, <1>5

\* A thread's step on another slot touches no one else's queues.
LEMMA SlotElsewhere ==
  ASSUME Base, NEW j \in Conns, NEW c, Slot(j, c)
  PROVE  \A k \in Conns : k # j => conn'[k] = conn[k]
BY DEF Slot, Base, Typed

LEMMA AcceptFollows ==
  ASSUME Base, Base', NEW j \in Conns, Accept(j), NEW g \in Clients, Follows(g)
  PROVE  Follows(g)'
<1> DEFINE c == [conn[j] EXCEPT !.accepted = TRUE, !.reader = TRUE, !.writer = TRUE, !.hub = TRUE]
<1>1. UNCHANGED <<host, calls, gui>> /\ Slot(j, c) /\ ~conn[j].accepted /\ Typed'
  BY DEF Accept, Base
<1>2. c.up = conn[j].up /\ c.out = conn[j].out /\ c.down = conn[j].down
  BY DEF Base, Typed, Slots
<1> HIDE DEF c
<1>3. CASE gui[g].conn # j
  BY <1>1, <1>3, SlotElsewhere, FollowsElsewhere
<1>4. CASE gui[g].conn = j
  <2>1. conn'[j].up = conn[j].up /\ conn'[j].out = conn[j].out /\ conn'[j].down = conn[j].down
    BY <1>1, <1>2 DEF Slot, Base, Typed
  <2>2. Stream(j)' = Stream(j) /\ Sent(j)' = Sent(j)
    BY <1>1, <2>1 DEF Stream, Sent
  <2>3. j # NoConn /\ conn[j].down = <<>> /\ conn[j].out = <<>> /\ gui[g].state = "connecting"
    BY <1>1, <1>4, ClientSlot
  <2>4. Stream(j) = <<>>
    BY <2>3, ConcatEmptySeq, EmptySeq DEF Stream
  <2>5. Fresh(gui[g], Stream(j), host.ver)
    BY <2>3, <2>4, EmptySeq DEF Fresh, LastWord, Shown
  <2> QED
    BY <1>1, <1>4, <2>2, <2>3, <2>5 DEF Follows
<1> QED
  BY <1>3, <1>4

LEMMA ReadLineFollows ==
  ASSUME Base, Base', NEW j \in Conns, ReadLine(j), NEW g \in Clients, Follows(g)
  PROVE  Follows(g)'
<1> DEFINE line == Head(conn[j].up)
           call == [conn |-> j, id |-> line.id, op |-> line.op]
           rest == [conn[j] EXCEPT !.up = Tail(@)]
<1>1. /\ UNCHANGED <<host, gui>> /\ conn[j].up # <<>> /\ Typed /\ Typed'
      /\ conn[j] \in Slots /\ conn[j].up \in Seq(Requests)
  BY QueueFacts DEF ReadLine, Base
<1>2. /\ line \in Requests /\ Tail(conn[j].up) \in Seq(Requests) /\ line = conn[j].up[1]
      /\ Items(conn[j].up) = {line} \cup Items(Tail(conn[j].up)) /\ 1 \in 1 .. Len(conn[j].up)
  BY <1>1, TailFacts, TailItems
<1>3. call \in Calls /\ call.conn = j /\ Request(call.id, call.op) = line
  BY <1>2 DEF Calls, Requests, Request
<1>4. /\ rest.up = Tail(conn[j].up) /\ rest.out = conn[j].out /\ rest.down = conn[j].down
      /\ rest.writer = conn[j].writer
  BY <1>1, <1>2 DEF Slots
<1>5. \/ calls' = Append(calls, call) /\ Slot(j, rest)
      \/ UNCHANGED calls /\ line.op \in {"bad", "blank", "long"}
  BY DEF ReadLine
<1>6. \E c : Slot(j, c)
  BY DEF ReadLine
<1>7. Items(calls') \subseteq Items(calls) \cup {call}
  <2>1. CASE calls' = Append(calls, call)
    BY <1>1, <1>3, <2>1, AppendItems DEF Typed
  <2>2. CASE UNCHANGED calls
    BY <2>2
  <2> QED
    BY <1>5, <2>1, <2>2
<1> HIDE DEF rest, line, call
<1>8. CASE gui[g].conn # j
  <2>1. \A k \in Conns : gui[g].conn = k => conn'[k] = conn[k]
    BY <1>6, <1>8, SlotElsewhere
  <2>2. \A k \in Conns : gui[g].conn = k => \A x \in Items(calls') : x.conn = k => x \in Items(calls)
    BY <1>3, <1>7, <1>8
  <2> QED
    BY <1>1, <2>1, <2>2, FollowsElsewhere
<1>9. CASE gui[g].conn = j
  <2>1. line.op \in Ops
    BY <1>2, <1>9, ClientSlot
  <2>2. Slot(j, rest)
    BY <1>5, <2>1 DEF Ops
  <2>3. conn'[j] = rest
    BY <1>1, <2>2 DEF Slot, Typed
  <2>4. Stream(j)' = Stream(j)
    BY <1>4, <2>3 DEF Stream
  <2>5. Sent(j)' \subseteq Sent(j)
    <3>1. Items(conn'[j].up) \subseteq Items(conn[j].up) /\ line \in Items(conn[j].up)
      BY <1>2, <1>4, <2>3
    <3>2. \A x \in Items(calls') : Request(x.id, x.op) = line \/ x \in Items(calls)
      BY <1>3, <1>7
    <3> QED
      BY <3>1, <3>2 DEF Sent
  <2>6. host.ver <= host'.ver /\ conn'[j].writer = conn[j].writer
    BY <1>1, <1>4, <2>3 DEF Typed, Hosts
  <2> QED
    BY <1>1, <1>9, <2>4, <2>5, <2>6, FollowsStill
<1> QED
  BY <1>8, <1>9

\* The reader ends, the writer writes a line, or ends.
LEMMA ThreadFollows ==
  ASSUME Base, Base', NEW j \in Conns, ReadEnd(j) \/ Write(j) \/ WriteEnd(j),
         NEW g \in Clients, Follows(g)
  PROVE  Follows(g)'
<1>1. UNCHANGED <<host, calls, gui>> /\ Typed /\ Typed' /\ host.ver <= host'.ver
  BY DEF ReadEnd, Write, WriteEnd, Base, Typed, Hosts
<1>2. PICK c : Slot(j, c)
  BY DEF ReadEnd, Write, WriteEnd
<1>3. CASE gui[g].conn # j
  BY <1>1, <1>2, <1>3, SlotElsewhere, FollowsElsewhere
<1>4. CASE gui[g].conn = j
  <2>1. /\ conn[j] \in Slots /\ conn[j].client = TRUE /\ conn[j].down \in Seq(Lines) /\ conn[j].out \in Seq(Lines)
        /\ conn[j].writer => conn[j].hub /\ conn[j].reader
    BY <1>1, <1>4, ClientSlot, QueueFacts
  <2>2. ASSUME NEW d \in Slots, d.client, Slot(j, Swept(j, d, calls)), d.up = conn[j].up,
               d.down \o d.out = Stream(j), ~d.writer \/ d.writer = conn[j].writer
        PROVE  Follows(g)'
    <3>1. Swept(j, d, calls) = d
      BY <2>2 DEF Swept
    <3>2. conn'[j] = d
      BY <1>1, <2>2, <3>1 DEF Slot, Typed
    <3>3. Stream(j)' = Stream(j) /\ Sent(j)' = Sent(j)
      BY <1>1, <2>2, <3>2 DEF Stream, Sent
    <3> QED
      BY <1>1, <1>4, <2>2, <3>2, <3>3, FollowsStill
  <2>3. CASE ReadEnd(j)
    <3> DEFINE d == Hangup(conn[j])
    <3>1. /\ d \in Slots /\ d.client /\ d.up = conn[j].up /\ d.down = conn[j].down /\ d.out = conn[j].out
          /\ d.writer = conn[j].writer
      BY <2>1 DEF Hangup, Slots
    <3>2. Slot(j, Swept(j, d, calls))
      BY <2>3 DEF ReadEnd
    <3> HIDE DEF d
    <3> QED
      BY <2>2, <3>1, <3>2 DEF Stream
  <2>4. CASE Write(j)
    <3> DEFINE d == [conn[j] EXCEPT !.out = Tail(@), !.down = Append(@, Head(conn[j].out))]
    <3>1. conn[j].out # <<>> /\ Slot(j, d)
      BY <2>1, <2>4 DEF Write
    <3>2. Tail(conn[j].out) \in Seq(Lines) /\ Append(conn[j].down, Head(conn[j].out)) \in Seq(Lines)
      BY <2>1, <3>1, TailFacts, AppendFacts
    <3>3. /\ d \in Slots /\ d.client /\ d.up = conn[j].up /\ d.writer = conn[j].writer
          /\ d.down = Append(conn[j].down, Head(conn[j].out)) /\ d.out = Tail(conn[j].out)
      BY <2>1, <3>2 DEF Slots
    <3> HIDE DEF d
    <3>4. d.down \o d.out = Stream(j)
      <4>1. conn[j].down \in Seq(Lines) /\ conn[j].out \in Seq(Lines)
        BY <2>1
      <4>2. Append(conn[j].down, Head(conn[j].out)) \o Tail(conn[j].out) = conn[j].down \o conn[j].out
        BY <3>1, <4>1, WriteKeepsStream
      <4> QED
        BY <3>3, <4>2 DEF Stream
    <3>5. Swept(j, d, calls) = d
      BY <3>3 DEF Swept
    <3> QED
      BY <2>2, <3>1, <3>3, <3>4, <3>5
  <2>5. CASE WriteEnd(j)
    <3> DEFINE d == [conn[j] EXCEPT !.writer = FALSE]
    <3>1. /\ d \in Slots /\ d.client /\ d.up = conn[j].up /\ d.down = conn[j].down /\ d.out = conn[j].out
          /\ ~d.writer
      BY <2>1 DEF Slots
    <3>2. Slot(j, Swept(j, d, calls))
      BY <2>5 DEF WriteEnd
    <3> HIDE DEF d
    <3> QED
      BY <2>2, <3>1, <3>2 DEF Stream
  <2> QED
    BY <2>3, <2>4, <2>5
<1> QED
  BY <1>3, <1>4

\* Other programs come, read and go.
LEMMA ScriptFollows ==
  ASSUME Base, Base', (\E j \in Conns : ScriptReads(j)) \/ (\E x \in Scripts : ScriptRuns(x)),
         NEW g \in Clients, Follows(g)
  PROVE  Follows(g)'
<1>1. UNCHANGED <<host, calls, gui>> /\ Typed'
  BY DEF ScriptReads, ScriptRuns, Base
<1>2. PICK j \in Conns : /\ \E c : Slot(j, c)
                         /\ conn[j].owner \in Scripts \/ Free(j)
  BY SlotIsFree DEF ScriptReads, ScriptRuns
<1>3. gui[g].conn # j
  <2>1. gui[g].conn = j => conn[j].owner = g /\ j # NoConn
    BY ClientSlot
  <2> QED
    BY <1>2, <2>1, ControlAssumption DEF Free
<1> QED
  BY <1>1, <1>2, <1>3, SlotElsewhere, FollowsElsewhere

\* A change of the pets puts an event at the end of every client's stream,
\* unless the client can be told nothing more.
LEMMA ChangeSound ==
  ASSUME Base, NEW g \in Clients, NEW k \in Conns, gui[g].conn = k, Follows(g),
         NEW cs \in [Conns -> Slots], ChangedFacts(cs), HostChanged
  PROVE  /\ Sound(gui[g], Sent(k), cs[k].down \o cs[k].out, host'.ver)
         /\ cs[k].writer => Fresh(gui[g], cs[k].down \o cs[k].out, host'.ver)
<1>1. /\ gui[g] \in Views /\ host.ver \in Nat /\ host'.ver = host.ver + 1 /\ host.ver <= host'.ver
      /\ host'.ver \in Nat
  BY DEF HostChanged, Base, Typed, Views, Hosts
<1>2. /\ conn[k].down \in Seq(Lines) /\ conn[k].out \in Seq(Lines) /\ Stream(k) \in Seq(Lines)
  BY QueueFacts DEF Base
<1>3. PICK event \in Lines : event = PetsChanged(host.ver + 1)
  BY ChangeFacts
<1>4. event.tag = "pets" /\ event.pets = host'.ver
  BY <1>1, <1>3 DEF PetsChanged
<1>5. Heard(conn[k], cs[k], event)
  BY <1>3 DEF ChangedFacts
<1>6. Sound(gui[g], Sent(k), Stream(k), host.ver)
  BY ClientSlot DEF Follows
<1>7. CASE conn[k].writer
  <2>1. conn[k].hub
    BY <1>7, ClientSlot
  <2>2. cs[k].down = conn[k].down /\ cs[k].out = Append(conn[k].out, event)
    BY <1>5, <1>7, <2>1 DEF Heard, Talks
  <2>3. cs[k].down \o cs[k].out = Append(Stream(k), event)
    <3>1. conn[k].down \o Append(conn[k].out, event) = Append(conn[k].down \o conn[k].out, event)
      BY <1>2, LineExtendsStream
    <3> QED
      BY <2>2, <3>1 DEF Stream
  <2> QED
    BY <1>1, <1>2, <1>4, <1>6, <2>3, SoundEvent
<1>8. CASE ~conn[k].writer
  <2>1. cs[k].down = conn[k].down /\ cs[k].out = conn[k].out /\ ~cs[k].writer
    BY <1>5, <1>8 DEF Heard, Talks
  <2>2. Sound(gui[g], Sent(k), Stream(k), host'.ver)
    BY <1>1, <1>2, <1>6, SoundLess
  <2> QED
    BY <2>1, <2>2 DEF Stream
<1> QED
  BY <1>7, <1>8

LEMMA HostChangeFollows ==
  ASSUME Base, Base', HostChange, NEW g \in Clients, Follows(g)
  PROVE  Follows(g)'
<1>1. /\ UNCHANGED <<calls, gui>> /\ conn' = Changed(conn) /\ HostChanged
      /\ Changed(conn) \in [Conns -> Slots] /\ ChangedFacts(Changed(conn))
      /\ gui'[g].ver <= host'.ver
  <2>1. /\ UNCHANGED <<calls, gui>> /\ conn' = Changed(conn) /\ HostChanged
        /\ Changed(conn) \in [Conns -> Slots] /\ ChangedFacts(Changed(conn))
    BY ChangeFacts DEF HostChange
  <2>2. host.ver \in Nat /\ gui[g].ver \in Nat /\ gui[g].ver <= host.ver
    BY DEF Follows, Base, Typed, Hosts, Views
  <2> QED
    BY <2>1, <2>2 DEF HostChanged
<1>2. PICK cs \in [Conns -> Slots] : cs = conn' /\ ChangedFacts(cs)
  BY <1>1
<1>3. ASSUME NEW k \in Conns, gui[g].conn = k
      PROVE  Follows(g)'
  <2>1. /\ Sound(gui[g], Sent(k), cs[k].down \o cs[k].out, host'.ver)
        /\ cs[k].writer => Fresh(gui[g], cs[k].down \o cs[k].out, host'.ver)
    BY <1>1, <1>2, <1>3, ChangeSound
  <2>2. Stream(k)' = cs[k].down \o cs[k].out /\ conn'[k].writer = cs[k].writer
    BY <1>2 DEF Stream
  <2>3. conn'[k].up = conn[k].up
    BY <1>2 DEF ChangedFacts, Heard, Talks
  <2>4. Sent(k)' = Sent(k)
    BY <1>1, <2>3 DEF Sent
  <2> QED
    BY <1>1, <1>3, <2>1, <2>2, <2>4 DEF Follows
<1>4. gui[g].conn \in Conns \cup {NoConn}
  BY DEF Base, Typed, Views
<1> QED
  BY <1>1, <1>3, <1>4 DEF Follows

LEMMA HandleFollows ==
  ASSUME Base, Base', HandleControl, NEW g \in Clients, Follows(g)
  PROVE  Follows(g)'
<1>1. PICK call \in Calls : call = Head(calls)
  BY HandleFacts
<1>2. calls # <<>> /\ calls' = Tail(calls) /\ UNCHANGED gui /\ host' \in Hosts
  BY <1>1, HandleFacts
<1>3. PICK cs \in [Conns -> Slots], answer \in Lines :
        /\ answer.tag = "answer" /\ answer.id = call.id /\ answer.pets = host'.ver
        /\ call.op = "ListPets" => answer.ok
        /\ Replies(cs, call, answer)
        /\ \/ cs = conn /\ host'.ver = host.ver /\ host'.untold = host.untold
           \/ ChangedFacts(cs) /\ HostChanged
  BY <1>1, HandleFacts
<1>4. Items(calls') \subseteq Items(calls) /\ call \in Items(calls)
  BY <1>1, <1>2, TailItems DEF Base, Typed
<1>5. host.ver \in Nat /\ host'.ver \in Nat /\ gui[g] \in Views /\ gui[g].ver <= host'.ver
  BY <1>2, <1>3 DEF HostChanged, Follows, Base, Typed, Hosts, Views
<1>6. ASSUME NEW k \in Conns, gui[g].conn = k
      PROVE  Follows(g)'
  <2> DEFINE s == cs[k].down \o cs[k].out
  <2>1. /\ Sound(gui[g], Sent(k), s, host'.ver)
        /\ cs[k].writer /\ ~host'.untold => Fresh(gui[g], s, host'.ver)
    <3>1. CASE cs = conn /\ host'.ver = host.ver /\ host'.untold = host.untold
      BY <1>6, <3>1, ClientSlot DEF Follows, Stream
    <3>2. CASE ChangedFacts(cs) /\ HostChanged
      BY <1>6, <3>2, ChangeSound
    <3> QED
      BY <1>3, <3>1, <3>2
  <2>2. cs[k].client /\ cs[k].up = conn[k].up
    <3>1. conn[k].client
      BY <1>6, ClientSlot
    <3> QED
      BY <1>3, <3>1 DEF ChangedFacts, Heard, Talks
  <2>3. cs[k].down \in Seq(Lines) /\ cs[k].out \in Seq(Lines) /\ s \in Seq(Lines)
    <3>1. cs[k].down \in Seq(Lines) /\ cs[k].out \in Seq(Lines)
      BY DEF Slots
    <3> QED
      BY <3>1, ConcatProperties
  <2>4. conn'[k] = cs[k] \/ (call.conn = k /\ Told(cs[k], conn'[k], answer))
    BY <1>3, <2>2 DEF Replies
  <2>5. Request(call.id, call.op).id = answer.id /\ Request(call.id, call.op).op = call.op
    BY <1>3 DEF Request
  <2>6. conn'[k].up = conn[k].up /\ conn'[k].writer = cs[k].writer
    BY <2>2, <2>4 DEF Told, Talks
  <2>7. Sent(k)' \subseteq Sent(k)
    BY <1>4, <2>6, SentLess
  <2>8. /\ Sound(gui[g], Sent(k), Stream(k)', host'.ver)
        /\ cs[k].writer /\ ~host'.untold => Fresh(gui[g], Stream(k)', host'.ver)
    <3>1. CASE conn'[k].down = cs[k].down /\ conn'[k].out = cs[k].out
      BY <2>1, <3>1 DEF Stream
    <3>2. CASE call.conn = k /\ conn'[k].down = cs[k].down /\ conn'[k].out = Append(cs[k].out, answer)
      <4>1. Stream(k)' = Append(s, answer)
        <5>1. cs[k].down \o Append(cs[k].out, answer) = Append(cs[k].down \o cs[k].out, answer)
          BY <2>3, LineExtendsStream
        <5> QED
          BY <3>2, <5>1 DEF Stream
      <4>2. Request(call.id, call.op) \in Sent(k)
        BY <1>4, <3>2 DEF Sent
      <4> HIDE DEF s
      <4>3. /\ Sound(gui[g], Sent(k), Append(s, answer), host'.ver)
            /\ Fresh(gui[g], s, host'.ver) => Fresh(gui[g], Append(s, answer), host'.ver)
        BY <1>3, <1>5, <2>1, <2>3, <2>5, <4>2, SoundAnswer
      <4> QED
        BY <2>1, <4>1, <4>3
    <3>3. CASE conn'[k] = cs[k]
      BY <3>1, <3>3
    <3>4. CASE call.conn = k /\ Told(cs[k], conn'[k], answer)
      <4>1. conn'[k].down = cs[k].down /\ conn'[k].out \in {cs[k].out, Append(cs[k].out, answer)}
        BY <3>4 DEF Told, Talks
      <4> QED
        BY <3>1, <3>2, <3>4, <4>1
    <3> QED
      BY <2>4, <3>3, <3>4
  <2>9. Stream(k)' \in Seq(Lines)
    <3>1. conn'[k] \in Slots
      BY DEF Base, Typed
    <3>2. conn'[k].down \in Seq(Lines) /\ conn'[k].out \in Seq(Lines)
      BY <3>1 DEF Slots
    <3> QED
      BY <3>2, ConcatProperties DEF Stream
  <2>10. Sound(gui[g], Sent(k)', Stream(k)', host'.ver)
    BY <1>5, <2>7, <2>8, <2>9, SoundLess
  <2> QED
    BY <1>2, <1>5, <1>6, <2>6, <2>8, <2>10 DEF Follows
<1>7. gui[g].conn \in Conns \cup {NoConn}
  BY DEF Base, Typed, Views
<1> QED
  BY <1>2, <1>5, <1>6, <1>7 DEF Follows

\* The host goes, and with it every end that could be told something; a new
\* one, or a surface that closes, changes the pets and tells nobody.
LEMMA HostFollows ==
  ASSUME Base, Base', SurfaceClosed \/ HostStart \/ HostDown, NEW g \in Clients, Follows(g)
  PROVE  Follows(g)'
<1>1. host \in Hosts /\ Typed' /\ gui' = gui
  BY DEF SurfaceClosed, HostStart, HostDown, Base, Typed
<1>2. CASE SurfaceClosed
  <2>1. UNCHANGED <<calls, conn, gui>> /\ host'.untold /\ host.ver <= host'.ver
    BY <1>1, <1>2 DEF SurfaceClosed, Hosts
  <2>2. Stream(gui[g].conn)' = Stream(gui[g].conn) /\ Sent(gui[g].conn)' = Sent(gui[g].conn)
    BY <2>1 DEF Stream, Sent
  <2> QED
    BY <1>1, <2>1, <2>2, FollowsStill
<1>3. CASE HostStart
  <2>0. host.ver <= host'.ver
    <3> DEFINE next == host.ver + 1
    <3>1. PICK speaks : host' = [host EXCEPT !.up = TRUE, !.ver = next, !.speaks = speaks]
      BY <1>3 DEF HostStart
    <3>2. host.ver <= next
      BY <1>1 DEF Hosts
    <3> HIDE DEF next
    <3> QED
      BY <1>1, <3>1, <3>2 DEF Hosts
  <2>1. UNCHANGED <<calls, conn, gui>> /\ ~host.up /\ host.ver <= host'.ver
    BY <1>3, <2>0 DEF HostStart
  <2>2. Stream(gui[g].conn)' = Stream(gui[g].conn) /\ Sent(gui[g].conn)' = Sent(gui[g].conn)
    BY <2>1 DEF Stream, Sent
  <2>3. gui[g].conn \in Conns => ~conn'[gui[g].conn].writer
    BY <2>1 DEF Base, WiredAs
  <2>4. gui[g].conn \in Conns \cup {NoConn}
    BY DEF Base, Typed, Views
  <2> QED
    BY <1>1, <2>1, <2>2, <2>3, <2>4, FollowsStill
<1>4. CASE HostDown
  <2>1. /\ UNCHANGED gui /\ host.ver <= host'.ver /\ host'.ver = host.ver /\ calls' = <<>>
        /\ conn' = [k \in Conns |->
             IF conn[k].client
             THEN [conn[k] EXCEPT !.reader = FALSE, !.writer = FALSE, !.hub = FALSE,
                                  !.accepted = TRUE, !.up = <<>>, !.out = <<>>]
             ELSE Idle]
    <3>1. host' = [host EXCEPT !.up = FALSE, !.exiting = FALSE, !.untold = FALSE]
      BY <1>4 DEF HostDown
    <3>2. host'.ver = host.ver /\ host.ver <= host'.ver
      BY <1>1, <3>1 DEF Hosts
    <3> QED
      BY <1>4, <3>2 DEF HostDown
  <2>2. ASSUME NEW k \in Conns, gui[g].conn = k
        PROVE  Follows(g)'
    <3>1. conn[k] \in Slots /\ conn[k].client
      BY <2>2, ClientSlot DEF Base, Typed
    <3>2. conn'[k].down = conn[k].down /\ conn'[k].out = <<>> /\ conn'[k].up = <<>> /\ ~conn'[k].writer
      BY <2>1, <3>1 DEF Slots
    <3>3. /\ conn[k].down \in Seq(Lines) /\ conn[k].out \in Seq(Lines) /\ Stream(k) \in Seq(Lines)
          /\ Sound(gui[g], Sent(k), Stream(k), host.ver)
      BY <2>2, QueueFacts, ClientSlot DEF Follows, Base
    <3>4. Sound(gui[g], {}, conn[k].down, host.ver) /\ conn[k].down \o <<>> = conn[k].down
      <4>1. host.ver \in Nat /\ gui[g] \in Views
        BY <1>1 DEF Hosts, Base, Typed
      <4> QED
        BY <3>3, <4>1, SoundCut DEF Stream
    <3>5. Stream(k)' = conn[k].down
      BY <3>2, <3>4 DEF Stream
    <3>6. Sent(k)' = {}
      <4>1. calls' = <<>> /\ conn'[k].up = <<>>
        BY <2>1, <3>2
      <4>2. Items(<<>>) = {}
        BY EmptySeq DEF Items
      <4>3. Items(calls') = {} /\ Items(conn'[k].up) = {}
        BY <4>1, <4>2
      <4> QED
        BY <4>3 DEF Sent
    <3> QED
      BY <2>1, <2>2, <3>2, <3>4, <3>5, <3>6 DEF Follows
  <2>3. gui[g].conn \in Conns \cup {NoConn}
    BY DEF Base, Typed, Views
  <2> QED
    BY <2>1, <2>2, <2>3 DEF Follows
<1> QED
  BY <1>2, <1>3, <1>4

\* A client asks: its request joins those on their way.
LEMMA SentAsk ==
  ASSUME Typed, NEW k \in Conns, NEW q \in Requests, UNCHANGED calls,
         conn'[k].up = Append(conn[k].up, q)
  PROVE  Sent(k)' = Sent(k) \cup {q}
<1>1. conn[k].up \in Seq(Requests)
  BY QueueFacts
<1>2. Items(conn'[k].up) = Items(conn[k].up) \cup {q}
  BY <1>1, AppendItems
<1> QED
  BY <1>2 DEF Sent

\* What another client does.
LEMMA OtherFollows ==
  ASSUME Base, Base', NEW h \in Clients,
         Connect(h) \/ ClientRequest(h) \/ Tick(h) \/ CloseWindow(h),
         NEW g \in Clients, g # h, Follows(g)
  PROVE  Follows(g)'
<1>1. UNCHANGED <<host, calls>> /\ Typed'
  BY DEF Connect, ClientRequest, Tick, Receive, EndOfStream, CloseWindow, Base
<1>2. PICK j : (\A k \in Conns \ {j} : conn'[k] = conn[k]) /\ (j = gui[h].conn \/ Free(j))
  <2>1. CASE Connect(h)
    BY <2>1, SlotIsFree DEF Connect, Send, Slot, Base, Typed
  <2>2. CASE ClientRequest(h)
    BY <2>2 DEF ClientRequest, Send, Slot, Base, Typed
  <2>3. CASE Receive(h)
    BY <2>3, ReceiveFacts, ZenonT(30)
  <2>4. CASE EndOfStream(h) \/ CloseWindow(h)
    BY <2>4 DEF EndOfStream, CloseWindow, Slot, Base, Typed
  <2> QED
    BY <2>1, <2>2, <2>3, <2>4 DEF Tick
<1>3. PICK v : gui' = [gui EXCEPT ![h] = v]
  BY DEF Connect, ClientRequest, Tick, Receive, EndOfStream, CloseWindow, Send
<1>4. gui'[g] = gui[g]
  BY <1>3 DEF Base, Typed
<1>5. \A k \in Conns : gui[g].conn = k => k # j
  BY <1>2, SlotIsOwn, ConnFacts
<1>6. \A k \in Conns : gui[g].conn = k => conn'[k] = conn[k]
  BY <1>2, <1>5
<1> QED
  BY <1>1, <1>4, <1>6, FollowsElsewhere

LEMMA ConnectFollows ==
  ASSUME Base, Base', NEW g \in Clients, Connect(g), Follows(g)
  PROVE  Follows(g)'
<1> DEFINE v == [gui[g] EXCEPT !.conn = FreeSlot, !.state = "connecting", !.pending = {}]
           s == [Idle EXCEPT !.owner = g, !.client = TRUE]
<1>1. PICK k \in Conns : k = FreeSlot /\ Free(k)
  BY SlotIsFree DEF Connect
<1>2. UNCHANGED <<host, calls>> /\ Send(g, v, s, "Hello")
  BY DEF Connect
<1>3. gui[g] \in Views /\ Typed /\ host.ver \in Nat
  BY DEF Base, Typed, Hosts
<1>4. v \in Views /\ v.conn = k /\ v.pending = {} /\ v.ver = gui[g].ver
  BY <1>1, <1>3 DEF Views
<1>5. s \in Slots /\ s.up = <<>> /\ s.out = <<>> /\ s.down = <<>> /\ ~s.writer
  BY EmptySeq DEF Idle, Slots
<1>6. conn[k] = Idle /\ Uncalled(k)
  BY <1>1 DEF Base, WiredAs, Free
<1>7. Sent(k) = {} /\ conn[k].up = <<>>
  <2>1. conn[k].up = <<>> /\ Items(<<>>) = {}
    BY <1>6, IdleFacts, EmptySeq DEF Items
  <2>2. \A x \in Items(calls) : x.conn # k
    BY <1>6 DEF Uncalled, Items
  <2> QED
    BY <2>1, <2>2 DEF Sent
<1> HIDE DEF v, s
<1> DEFINE q == Request(v.next, "Hello")
<1>8. "Hello" \in Ops /\ q \in Requests
  BY <1>4, AskFacts DEF Ops
<1>9. /\ gui'[g] = Ask(v, "Hello") /\ conn'[k].up = Append(s.up, q)
      /\ conn'[k].writer = s.writer /\ conn'[k].out = s.out /\ conn'[k].down = s.down
  BY <1>2, <1>3, <1>4, <1>5, <1>8, SendFacts
<1>10. /\ gui'[g] \in Views /\ gui'[g].next = v.next + 1 /\ gui'[g].pending = v.pending \cup {q}
       /\ gui'[g].conn = k /\ gui'[g].ver = v.ver
  BY <1>4, <1>8, <1>9, AskFacts
<1>11. Sent(k)' = {} \cup {q}
  BY <1>2, <1>3, <1>5, <1>7, <1>8, <1>9, SentAsk
<1>12. Stream(k)' = <<>>
  BY <1>5, <1>9, EmptySeq, ConcatEmptySeq DEF Stream
<1>13. Rises(v, <<>>, host.ver) /\ Matches(v, {}, <<>>) /\ v.ver <= host.ver
  BY <1>3, <1>4, SoundNew DEF Follows
<1>14. Sound(gui'[g], {} \cup {q}, <<>>, host.ver)
  BY <1>3, <1>4, <1>8, <1>10, <1>13, EmptySeq, SoundAsk
<1> QED
  BY <1>2, <1>4, <1>5, <1>9, <1>10, <1>11, <1>12, <1>13, <1>14 DEF Follows

LEMMA ClientRequestFollows ==
  ASSUME Base, Base', NEW g \in Clients, ClientRequest(g), Follows(g)
  PROVE  Follows(g)'
<1>1. PICK op \in Ops : Send(g, gui[g], conn[gui[g].conn], op)
  BY DEF ClientRequest, Ops
<1>2. gui[g].state = "connected" /\ gui[g] \in Views /\ UNCHANGED <<host, calls>> /\ Typed /\ host.ver \in Nat
  BY DEF ClientRequest, Base, Typed, Hosts
<1>3. PICK k \in Conns : k = gui[g].conn
  BY <1>2 DEF Base, Owned, Views
<1> DEFINE v == gui[g]
           q == Request(v.next, op)
<1>4. /\ conn[k] \in Slots /\ conn[k].down \in Seq(Lines) /\ conn[k].out \in Seq(Lines)
      /\ Stream(k) \in Seq(Lines) /\ Sent(k) \in SUBSET Requests
  BY <1>2, QueueFacts
<1>5. /\ gui'[g] = Ask(v, op) /\ conn'[k].up = Append(conn[k].up, q)
      /\ conn'[k].writer = conn[k].writer /\ conn'[k].out = conn[k].out /\ conn'[k].down = conn[k].down
  BY <1>1, <1>2, <1>3, <1>4, SendFacts, ZenonT(30)
<1>6. /\ gui'[g] \in Views /\ gui'[g].next = v.next + 1 /\ gui'[g].pending = v.pending \cup {q}
      /\ gui'[g].conn = k /\ gui'[g].ver = v.ver /\ gui'[g].state = v.state /\ q \in Requests
  BY <1>2, <1>3, <1>5, AskFacts, SMTT(30)
<1>7. Sent(k)' = Sent(k) \cup {q} /\ Stream(k)' = Stream(k)
  BY <1>2, <1>5, <1>6, SentAsk DEF Stream
<1>8. /\ Sound(v, Sent(k), Stream(k), host.ver) /\ v.ver <= host.ver
      /\ conn[k].writer /\ ~host.untold => Fresh(v, Stream(k), host.ver)
  BY <1>3, ConnFacts DEF Follows
<1>9. /\ Sound(gui'[g], Sent(k) \cup {q}, Stream(k), host.ver)
      /\ Fresh(v, Stream(k), host.ver) => Fresh(gui'[g], Stream(k), host.ver)
  <2> HIDE DEF v
  <2>1. v \in Views
    BY <1>2 DEF v
  <2> QED
    BY <1>2, <1>4, <1>6, <1>8, <2>1, SoundAsk DEF Sound
<1> QED
  BY <1>2, <1>5, <1>6, <1>7, <1>8, <1>9 DEF Follows

LEMMA ReceiveFollows ==
  ASSUME Base, Base', NEW g \in Clients, Receive(g), Follows(g)
  PROVE  Follows(g)'
<1>1. PICK k \in Conns, line \in Lines : k = gui[g].conn /\ line = Head(conn[k].down)
  BY ReceiveFacts
<1>2. PICK v \in Views : v = gui[g]
  BY DEF Base, Typed
<1>3. PICK w \in Views : w = gui'[g]
  BY DEF Base, Typed
<1>4. /\ conn[k].down # <<>> /\ UNCHANGED <<host, calls>> /\ w.conn = k
      /\ conn'[k].down = Tail(conn[k].down) /\ conn'[k].out = conn[k].out
      /\ conn'[k].writer = conn[k].writer
  BY <1>1, <1>3, ReceiveFacts
<1>5. \/ /\ w.ver = line.pets
         /\ conn'[k].up = conn[k].up /\ w.next = v.next /\ w.pending = Awaits(v, line)
      \/ /\ w.ver = v.ver /\ w.state \in {v.state, "mismatch"}
         /\ conn'[k].up = conn[k].up /\ w.next = v.next /\ w.pending = Awaits(v, line)
         /\ line.tag = "answer"
         /\ \/ line.ok = FALSE
            \/ \A r \in v.pending : r.id # line.id
            \/ \E r \in v.pending : r.id = line.id /\ r.op # "ListPets"
      \/ /\ w.ver = v.ver
         /\ conn'[k].up = Append(conn[k].up, Request(v.next, "ListPets"))
         /\ w.next = v.next + 1
         /\ w.pending = Awaits(v, line) \cup {Request(v.next, "ListPets")}
  <2>1. line.ok \in BOOLEAN
    BY DEF Lines
  <2>2. \/ /\ gui'[g].ver = line.pets
           /\ conn'[k].up = conn[k].up /\ gui'[g].next = gui[g].next
           /\ gui'[g].pending = Awaits(gui[g], line)
        \/ /\ gui'[g].ver = gui[g].ver /\ gui'[g].state \in {gui[g].state, "mismatch"}
           /\ conn'[k].up = conn[k].up /\ gui'[g].next = gui[g].next
           /\ gui'[g].pending = Awaits(gui[g], line)
           /\ line.tag = "answer"
           /\ \/ ~line.ok
              \/ \A r \in gui[g].pending : r.id # line.id
              \/ \E r \in gui[g].pending : r.id = line.id /\ r.op # "ListPets"
        \/ /\ gui'[g].ver = gui[g].ver
           /\ conn'[k].up = Append(conn[k].up, Request(gui[g].next, "ListPets"))
           /\ gui'[g].next = gui[g].next + 1
           /\ gui'[g].pending = Awaits(gui[g], line) \cup {Request(gui[g].next, "ListPets")}
    BY <1>1, ReceiveFacts, SMTT(60)
  <2> QED
    BY <1>2, <1>3, <2>1, <2>2
<1>6. host.ver \in Nat /\ Typed
  BY DEF Base, Typed, Hosts
<1>7. /\ conn[k].down \in Seq(Lines) /\ conn[k].out \in Seq(Lines)
      /\ Stream(k) \in Seq(Lines) /\ Sent(k) \in SUBSET Requests
  BY <1>6, QueueFacts
<1>8. Stream(k) # <<>> /\ Head(Stream(k)) = line /\ Stream(k)' = Tail(Stream(k))
  <2>1. /\ conn[k].down \o conn[k].out # <<>> /\ Head(conn[k].down \o conn[k].out) = Head(conn[k].down)
        /\ Tail(conn[k].down) \o conn[k].out = Tail(conn[k].down \o conn[k].out)
    BY <1>4, <1>7, LinesTail
  <2> QED
    BY <1>1, <1>4, <2>1 DEF Stream
<1>9. /\ Sound(v, Sent(k), Stream(k), host.ver)
      /\ conn[k].writer /\ ~host.untold => Fresh(v, Stream(k), host.ver)
  BY <1>1, <1>2, ConnFacts DEF Follows
<1>10. /\ Sound(w, Sent(k)', Tail(Stream(k)), host.ver)
       /\ Fresh(v, Stream(k), host.ver) => Fresh(w, Tail(Stream(k)), host.ver)
  <2> DEFINE s == Stream(k)
  <2>1. s \in Seq(Lines) /\ s # <<>> /\ line = Head(s) /\ Sound(v, Sent(k), s, host.ver)
    BY <1>7, <1>8, <1>9
  <2> HIDE DEF s
  <2>2. CASE conn'[k].up = conn[k].up /\ w.next = v.next /\ w.pending = Awaits(v, line)
    <3>1. Sent(k)' = Sent(k)
      BY <1>4, <2>2 DEF Sent
    <3>2. \/ w.ver = line.pets
          \/ /\ w.ver = v.ver /\ w.state \in {v.state, "mismatch"} /\ line.tag = "answer"
             /\ \/ line.ok = FALSE
                \/ \A r \in v.pending : r.id # line.id
                \/ \E r \in v.pending : r.id = line.id /\ r.op # "ListPets"
      BY <1>5, <2>2
    <3>3. /\ Sound(w, Sent(k), Tail(s), host.ver)
          /\ Fresh(v, s, host.ver) => Fresh(w, Tail(s), host.ver)
      BY <1>6, <2>1, <2>2, <3>2, SoundTake
    <3> QED
      BY <3>1, <3>3 DEF s
  <2>3. CASE /\ w.ver = v.ver
             /\ conn'[k].up = Append(conn[k].up, Request(v.next, "ListPets"))
             /\ w.next = v.next + 1
             /\ w.pending = Awaits(v, line) \cup {Request(v.next, "ListPets")}
    <3>1. Request(v.next, "ListPets") \in Requests
      BY AskFacts DEF Ops
    <3>2. Sent(k)' = Sent(k) \cup {Request(v.next, "ListPets")}
      BY <1>4, <1>6, <2>3, <3>1, SentAsk
    <3>3. /\ Sound(w, Sent(k) \cup {Request(v.next, "ListPets")}, Tail(s), host.ver)
          /\ Fresh(v, s, host.ver) => Fresh(w, Tail(s), host.ver)
      BY <1>6, <1>7, <2>1, <2>3, SoundTakeAndAsk
    <3> QED
      BY <3>2, <3>3 DEF s
  <2> QED
    BY <1>5, <2>2, <2>3
<1>11. w.ver <= host.ver
  BY <1>10 DEF Sound, Rises
<1> QED
  BY <1>3, <1>4, <1>8, <1>9, <1>10, <1>11 DEF Follows

LEMMA EndFollows ==
  ASSUME Base, NEW g \in Clients, EndOfStream(g) \/ CloseWindow(g), Follows(g)
  PROVE  Follows(g)'
<1>1. Typed /\ UNCHANGED host
  BY DEF Base, EndOfStream, CloseWindow
<1>2. gui'[g].conn = NoConn /\ gui'[g].ver = gui[g].ver
  <2>1. CASE EndOfStream(g)
    BY <1>1, <2>1, DroppedFacts DEF EndOfStream, Typed
  <2>2. CASE CloseWindow(g)
    BY <1>1, <2>2, DroppedFacts DEF CloseWindow, Typed
  <2> QED
    BY <2>1, <2>2
<1> QED
  BY <1>1, <1>2 DEF Follows

LEMMA InitIInv ==
  ASSUME Init
  PROVE  IInv
<1>1. Base
  BY InitBase
<1>2. \A g \in Clients : Follows(g)
  BY DEF Init, Follows
<1> QED
  BY <1>1, <1>2 DEF IInv

LEMMA NextIInv ==
  ASSUME IInv, [Next]_vars
  PROVE  IInv'
<1>1. Base /\ Base'
  BY NextBase DEF IInv
<1>2. ASSUME NEW g \in Clients
      PROVE  Follows(g)'
  <2>1. Follows(g)
    BY DEF IInv
  <2>2. CASE \E k \in Conns : Accept(k) \/ Reader(k) \/ Writer(k) \/ ScriptReads(k)
    BY <1>1, <2>1, <2>2, AcceptFollows, ReadLineFollows, ThreadFollows, ScriptFollows DEF Reader, Writer
  <2>3. CASE HandleControl \/ HostChange \/ SurfaceClosed \/ HostDown \/ HostStart
    BY <1>1, <2>1, <2>3, HandleFollows, HostChangeFollows, HostFollows
  <2>4. CASE \E h \in Clients : Connect(h) \/ ClientRequest(h) \/ Tick(h) \/ CloseWindow(h)
    <3>1. PICK h \in Clients : Connect(h) \/ ClientRequest(h) \/ Tick(h) \/ CloseWindow(h)
      BY <2>4
    <3>2. CASE g # h
      BY <1>1, <2>1, <3>1, <3>2, OtherFollows
    <3>3. CASE g = h
      BY <1>1, <2>1, <3>1, <3>3, ConnectFollows, ClientRequestFollows, ReceiveFollows, EndFollows DEF Tick
    <3> QED
      BY <3>2, <3>3
  <2>5. CASE \E x \in Scripts : ScriptRuns(x)
    BY <1>1, <2>1, <2>5, ScriptFollows
  <2>6. CASE UNCHANGED vars
    BY <2>1, <2>6 DEF vars, Follows, Sent, Stream
  <2> QED
    BY <2>2, <2>3, <2>4, <2>5, <2>6 DEF Next
<1> QED
  BY <1>1, <1>2 DEF IInv

LEMMA IInvHolds == Spec => []IInv
<1>1. Init => IInv
  BY InitIInv
<1>2. IInv /\ [Next]_vars => IInv'
  BY NextIInv
<1> QED
  BY <1>1, <1>2, PTL DEF Spec

\* A connected client for which nothing is under way shows the pets as they
\* are, unless a surface closed since the last event: of the host's broadcasts
\* (app.rs broadcast_pets_changed), answers and writer threads none loses or
\* overtakes the last word about the pets, and client.rs asks again for what
\* an answer does not bring.
THEOREM QuietViewIsCurrentHolds == Spec => []QuietViewIsCurrent
<1>1. ASSUME IInv
      PROVE  QuietViewIsCurrent
  <2> SUFFICES ASSUME NEW g \in Clients, Quiet(g), ~host.untold
               PROVE  gui[g].ver = host.ver
    BY DEF QuietViewIsCurrent
  <2>1. PICK k : k = gui[g].conn
    OBVIOUS
  <2>2. /\ k # NoConn /\ conn[k].writer /\ gui[g].state = "connected" /\ gui[g].pending = {}
        /\ conn[k].out = <<>> /\ conn[k].down = <<>>
    BY <2>1 DEF Quiet
  <2>3. Fresh(gui[g], Stream(k), host.ver)
    BY <1>1, <2>1, <2>2 DEF IInv, Follows
  <2>4. Stream(k) = <<>> /\ Items(<<>>) = {}
    BY <2>2, EmptySeq, ConcatEmptySeq DEF Stream, Items
  <2> QED
    BY <2>2, <2>3, <2>4 DEF Fresh, Shown, AllAnswers
<1> QED
  BY <1>1, IInvHolds, PTL

\* What a step does to the versions: the pets change, or one client learns.
LEMMA StepVersions ==
  ASSUME IInv, [Next]_vars
  PROVE  \/ host'.ver \in {host.ver, host.ver + 1} /\ \A g \in Clients : gui'[g].ver = gui[g].ver
         \/ /\ host'.ver = host.ver
            /\ \E g \in Clients : /\ gui[g].ver <= gui'[g].ver /\ gui'[g].ver <= host.ver
                                  /\ \A h \in Clients \ {g} : gui'[h].ver = gui[h].ver
<1> DEFINE Still == host'.ver \in {host.ver, host.ver + 1} /\ \A g \in Clients : gui'[g].ver = gui[g].ver
<1>1. Base /\ Base' /\ Typed /\ host \in Hosts /\ gui \in [Clients -> Views]
  BY NextBase DEF IInv, Base, Typed
<1>2. CASE \E k \in Conns : Accept(k) \/ Reader(k) \/ Writer(k) \/ ScriptReads(k)
  <2>1. UNCHANGED <<host, gui>>
    BY <1>2 DEF Accept, Reader, Writer, ReadLine, ReadEnd, Write, WriteEnd, ScriptReads
  <2> QED
    BY <2>1
<1>3. CASE HandleControl
  <2>1. UNCHANGED gui /\ (host'.ver = host.ver \/ HostChanged)
    BY <1>1, <1>3, HandleFacts
  <2> QED
    BY <2>1 DEF HostChanged
<1>4. CASE HostChange
  BY <1>1, <1>4, ChangeFacts DEF HostChange, HostChanged
<1>5. CASE SurfaceClosed \/ HostStart
  <2> DEFINE next == host.ver + 1
  <2>1. CASE SurfaceClosed
    <3>1. host' = [host EXCEPT !.ver = next, !.untold = TRUE] /\ UNCHANGED gui
      BY <2>1 DEF SurfaceClosed
    <3> HIDE DEF next
    <3>2. host'.ver = next
      BY <1>1, <3>1 DEF Hosts
    <3> QED
      BY <3>1, <3>2 DEF next
  <2>2. CASE HostStart
    <3>1. PICK speaks : host' = [host EXCEPT !.up = TRUE, !.ver = next, !.speaks = speaks]
      BY <2>2 DEF HostStart
    <3> HIDE DEF next
    <3>2. host'.ver = next /\ UNCHANGED gui
      BY <1>1, <2>2, <3>1 DEF Hosts, HostStart
    <3> QED
      BY <3>2 DEF next
  <2> QED
    BY <1>5, <2>1, <2>2
<1>6. CASE HostDown
  BY <1>1, <1>6 DEF HostDown, Hosts
<1>7. ASSUME NEW g \in Clients, Connect(g) \/ ClientRequest(g) \/ Receive(g) \/ EndOfStream(g) \/ CloseWindow(g)
      PROVE  /\ host'.ver = host.ver
             /\ gui[g].ver <= gui'[g].ver /\ gui'[g].ver <= host.ver
             /\ \A h \in Clients \ {g} : gui'[h].ver = gui[h].ver
  <2>1. UNCHANGED host
    BY <1>7 DEF Connect, ClientRequest, Receive, EndOfStream, CloseWindow
  <2>2. \A h \in Clients \ {g} : gui'[h].ver = gui[h].ver
    <3>1. PICK v : gui' = [gui EXCEPT ![g] = v]
      BY <1>7 DEF Connect, ClientRequest, Receive, EndOfStream, CloseWindow, Send
    <3> QED
      BY <1>1, <3>1
  <2>3. gui[g].ver \in Nat /\ host.ver \in Nat
    BY <1>1 DEF Views, Hosts
  <2>4. gui'[g].ver <= host.ver
    BY <2>1, NextIInv DEF IInv, Follows
  <2>5. CASE Connect(g) \/ ClientRequest(g) \/ EndOfStream(g) \/ CloseWindow(g)
    <3>1. gui'[g].ver = gui[g].ver
      <4>1. CASE Connect(g)
        <5> DEFINE v == [gui[g] EXCEPT !.conn = FreeSlot, !.state = "connecting", !.pending = {}]
        <5>1. v \in Views /\ v.ver = gui[g].ver /\ "Hello" \in Ops
          BY <1>1, <4>1, SlotIsFree DEF Connect, Views, Ops
        <5>2. gui' = [gui EXCEPT ![g] = Ask(v, "Hello")]
          BY <4>1 DEF Connect, Send
        <5> HIDE DEF v
        <5>3. gui'[g] = Ask(v, "Hello")
          BY <1>1, <5>2
        <5> QED
          BY <5>1, <5>3, AskFacts
      <4>2. CASE ClientRequest(g)
        <5>1. PICK op \in Ops : gui' = [gui EXCEPT ![g] = Ask(gui[g], op)]
          BY <4>2 DEF ClientRequest, Send, Ops
        <5>2. gui'[g] = Ask(gui[g], op) /\ gui[g] \in Views
          BY <1>1, <5>1
        <5> QED
          BY <5>2, AskFacts
      <4>3. CASE EndOfStream(g)
        BY <1>1, <4>3, DroppedFacts DEF EndOfStream
      <4>4. CASE CloseWindow(g)
        BY <1>1, <4>4, DroppedFacts DEF CloseWindow
      <4> QED
        BY <2>5, <4>1, <4>2, <4>3, <4>4
    <3> QED
      BY <2>1, <2>2, <2>3, <2>4, <3>1
  <2>6. CASE Receive(g)
    <3>1. PICK k \in Conns, line \in Lines : k = gui[g].conn /\ line = Head(conn[k].down)
      BY <1>1, <2>6, ReceiveFacts
    <3>2. conn[k].down # <<>> /\ gui'[g].ver \in {gui[g].ver, line.pets}
      BY <1>1, <2>6, <3>1, ReceiveFacts
    <3>3. /\ conn[k].down \in Seq(Lines) /\ conn[k].out \in Seq(Lines) /\ Stream(k) \in Seq(Lines)
      BY <1>1, QueueFacts
    <3>4. Stream(k) # <<>> /\ Head(Stream(k)) = line
      BY <3>1, <3>2, <3>3, LinesTail DEF Stream
    <3>5. line \in Items(Stream(k))
      BY <3>3, <3>4, TailItems
    <3>6. Sound(gui[g], Sent(k), Stream(k), host.ver)
      BY <3>1, ConnFacts DEF IInv, Follows
    <3>7. gui[g].ver <= line.pets
      BY <3>5, <3>6 DEF Sound, Rises
    <3> QED
      BY <2>1, <2>2, <2>3, <2>4, <3>2, <3>7
  <2> QED
    BY <1>7, <2>5, <2>6
<1>8. CASE \E x \in Scripts : ScriptRuns(x)
  BY <1>8 DEF ScriptRuns
<1>9. CASE UNCHANGED vars
  BY <1>9 DEF vars
<1> QED
  BY <1>2, <1>3, <1>4, <1>5, <1>6, <1>7, <1>8, <1>9 DEF Next, Tick

LEMMA StepLearns ==
  ASSUME IInv, [Next]_vars
  PROVE  [M!Next]_<<host.ver, [g \in Clients |-> gui[g].ver]>>
<1> DEFINE seen == [g \in Clients |-> gui[g].ver]
           now == [g \in Clients |-> gui'[g].ver]
<1>1. host.ver \in Nat /\ seen \in [Clients -> Nat]
  BY DEF IInv, Base, Typed, Hosts, Views
<1>2. CASE host'.ver \in {host.ver, host.ver + 1} /\ \A g \in Clients : gui'[g].ver = gui[g].ver
  <2>1. now = seen
    BY <1>2
  <2> QED
    BY <1>2, <2>1 DEF M!Next, M!Publish
<1>3. CASE /\ host'.ver = host.ver
           /\ \E g \in Clients : /\ gui[g].ver <= gui'[g].ver /\ gui'[g].ver <= host.ver
                                 /\ \A h \in Clients \ {g} : gui'[h].ver = gui[h].ver
  <2>1. PICK g \in Clients : /\ gui[g].ver <= gui'[g].ver /\ gui'[g].ver <= host.ver
                             /\ \A h \in Clients \ {g} : gui'[h].ver = gui[h].ver
    BY <1>3
  <2>2. gui'[g].ver \in Nat /\ gui[g].ver \in Nat
    BY NextIInv DEF IInv, Base, Typed, Views
  <2>3. now = [seen EXCEPT ![g] = gui'[g].ver]
    BY <2>1
  <2>4. CASE gui'[g].ver = gui[g].ver
    <3>1. now = seen
      BY <2>1, <2>4
    <3> QED
      BY <1>3, <3>1
  <2>5. CASE gui'[g].ver # gui[g].ver
    <3>1. gui'[g].ver \in seen[g] + 1 .. host.ver
      BY <1>1, <2>1, <2>2, <2>5
    <3> QED
      BY <1>3, <2>3, <3>1 DEF M!Next, M!Learn
  <2> QED
    BY <2>4, <2>5
<1> QED
  BY <1>2, <1>3, StepVersions

\* The view of each client goes only forward through the states the host
\* really went through, across answers, events, reconnects and host restarts
\* (client.rs applies what arrives in the order it arrives).
THEOREM MirrorImplemented == Spec => ImplementsMirror
<1>1. Init => M!Init
  BY DEF Init, M!Init
<1>2. IInv /\ [Next]_vars => [M!Next]_<<host.ver, [g \in Clients |-> gui[g].ver]>>
  BY StepLearns
<1> QED
  BY <1>1, <1>2, IInvHolds, PTL DEF Spec, ImplementsMirror, M!Spec

-----------------------------------------------------------------------------
\* Counting.

\* How many of the elements of s are in X.
Hits(s, X) == {i \in 1 .. Len(s) : s[i] \in X}
Count(s, X) == Cardinality(Hits(s, X))

LEMMA CountFacts ==
  ASSUME NEW S, NEW s \in Seq(S), NEW X
  PROVE  IsFiniteSet(Hits(s, X)) /\ Count(s, X) \in Nat
<1>1. Len(s) \in Nat /\ Len(s) \in Int /\ 1 \in Int
  BY LenProperties
<1>2. IsFiniteSet(1 .. Len(s))
  BY <1>1, FS_Interval
<1>3. Hits(s, X) \in SUBSET (1 .. Len(s))
  BY DEF Hits
<1>4. IsFiniteSet(Hits(s, X))
  BY <1>2, <1>3, FS_Subset
<1> QED
  BY <1>4, FS_CardinalityType DEF Count

LEMMA CountEmpty ==
  ASSUME NEW X
  PROVE  Count(<<>>, X) = 0
<1>1. Hits(<<>>, X) = {}
  BY EmptySeq DEF Hits
<1> QED
  BY <1>1, FS_EmptySet DEF Count

LEMMA CountAppend ==
  ASSUME NEW S, NEW s \in Seq(S), NEW x \in S, NEW X
  PROVE  Count(Append(s, x), X) = IF x \in X THEN Count(s, X) + 1 ELSE Count(s, X)
<1> DEFINE n == Len(s) + 1
<1>1. /\ Len(s) \in Nat /\ Len(Append(s, x)) = n /\ Append(s, x)[n] = x
      /\ \A i \in 1 .. Len(s) : Append(s, x)[i] = s[i]
  BY AppendFacts
<1>2. 1 .. n = (1 .. Len(s)) \cup {n} /\ n \notin 1 .. Len(s)
  BY <1>1
<1> HIDE DEF n
<1>3. Hits(Append(s, x), X) = IF x \in X THEN Hits(s, X) \cup {n} ELSE Hits(s, X)
  BY <1>1, <1>2 DEF Hits
<1>4. n \notin Hits(s, X)
  BY <1>2 DEF Hits
<1> QED
  BY <1>3, <1>4, CountFacts, FS_AddElement DEF Count

LEMMA CountTail ==
  ASSUME NEW S, NEW s \in Seq(S), s # <<>>, NEW X
  PROVE  Count(s, X) = IF Head(s) \in X THEN Count(Tail(s), X) + 1 ELSE Count(Tail(s), X)
<1> DEFINE t == Tail(s)
           A == Hits(t, X)
           B == Hits(s, X) \ {1}
           f == [i \in A |-> i + 1]
<1>1. /\ t \in Seq(S) /\ Len(s) \in Nat /\ Len(s) >= 1 /\ Head(s) = s[1] /\ Len(t) = Len(s) - 1
      /\ \A i \in 1 .. Len(s) - 1 : t[i] = s[i + 1]
  BY TailFacts
<1>2. IsFiniteSet(A) /\ IsFiniteSet(Hits(s, X)) /\ Count(t, X) \in Nat
  BY <1>1, CountFacts
<1>3. \A i \in A : i \in Nat /\ i + 1 \in B
  BY <1>1 DEF Hits
<1>4. \A j \in B : j - 1 \in A /\ j \in Nat /\ (j - 1) + 1 = j
  BY <1>1 DEF Hits
<1>5. ExistsBijection(A, B)
  <2> HIDE DEF A, B
  <2>1. f \in [A -> B]
    BY <1>3
  <2>2. \A i, j \in A : f[i] = f[j] => i = j
    BY <1>3
  <2>3. \A j \in B : f[j - 1] = j /\ j - 1 \in A
    BY <1>4
  <2>4. \A j \in B : \E i \in A : f[i] = j
    BY <2>3
  <2> HIDE DEF f
  <2>5. f \in Bijection(A, B)
    BY <2>1, <2>2, <2>4 DEF Bijection, Injection, Surjection, IsInjective
  <2> QED
    BY <2>5 DEF ExistsBijection
<1>6. Cardinality(B) = Count(t, X)
  BY <1>2, <1>5, FS_Bijection DEF Count
<1>7. 1 \in Hits(s, X) <=> Head(s) \in X
  BY <1>1 DEF Hits
<1>8. Cardinality(B) = IF 1 \in Hits(s, X) THEN Count(s, X) - 1 ELSE Count(s, X)
  BY <1>2, FS_RemoveElement DEF Count
<1>9. Count(s, X) \in Nat
  BY CountFacts
<1> HIDE DEF t, A, B, f
<1> QED
  BY <1>2, <1>6, <1>7, <1>8, <1>9 DEF t

\* Where a request is: written, handed over, answered, sent back.
Asked(id) == {x \in Requests : x.id = id}
Called(k, id) == {x \in Calls : x.conn = k /\ x.id = id}
Said(id) == {x \in Lines : x.id = id}

Ways(c, cs, k, id) ==
  Count(c.up, Asked(id)) + Count(cs, Called(k, id)) + Count(c.out, Said(id)) + Count(c.down, Said(id))

Ids == Nat \ {0}

Awaited(v, id) == IF \E r \in v.pending : r.id = id THEN 1 ELSE 0

\* Events answer no request.
Nameless(s) == \A x \in Items(s) : x.tag = "pets" => x.id = 0

\* While the host has not let go of its slot c, each request that client v
\* waits for is in one place and no other one is anywhere.
Traces(v, k, c, cs) ==
  /\ Nameless(c.out) /\ Nameless(c.down)
  /\ c.writer \/ ~c.accepted => \A id \in Ids : Ways(c, cs, k, id) = Awaited(v, id)

LEMMA QueueCounts ==
  ASSUME NEW c \in Slots, NEW cs \in Seq(Calls), NEW k \in Conns, NEW id \in Ids
  PROVE  /\ Count(c.up, Asked(id)) \in Nat /\ Count(cs, Called(k, id)) \in Nat
         /\ Count(c.out, Said(id)) \in Nat /\ Count(c.down, Said(id)) \in Nat
BY CountFacts DEF Slots

LEMMA TracesStill ==
  ASSUME NEW v \in Views, NEW k \in Conns, NEW c \in Slots, NEW d \in Slots,
         NEW cs \in Seq(Calls), NEW ds \in Seq(Calls), Traces(v, k, c, cs),
         d.up = c.up, d.out = c.out, d.down = c.down,
         d.writer \/ ~d.accepted => c.writer \/ ~c.accepted,
         \A id \in Ids : Count(ds, Called(k, id)) = Count(cs, Called(k, id))
  PROVE  Traces(v, k, d, ds)
BY DEF Traces, Ways

\* Calls of other connections come and go.
LEMMA CallsElsewhere ==
  ASSUME NEW k \in Conns, NEW cs \in Seq(Calls), NEW id \in Ids
  PROVE  /\ \A x \in Calls : x.conn # k => Count(Append(cs, x), Called(k, id)) = Count(cs, Called(k, id))
         /\ cs # <<>> /\ Head(cs).conn # k => Count(Tail(cs), Called(k, id)) = Count(cs, Called(k, id))
<1>1. ASSUME NEW x \in Calls, x.conn # k
      PROVE  Count(Append(cs, x), Called(k, id)) = Count(cs, Called(k, id))
  <2>1. x \notin Called(k, id)
    BY <1>1 DEF Called
  <2> QED
    BY <2>1, CountAppend
<1>2. CASE cs # <<>> /\ Head(cs).conn # k
  <2>1. Head(cs) \notin Called(k, id)
    BY <1>2 DEF Called
  <2> QED
    BY <1>1, <1>2, <2>1, CountTail
<1> QED
  BY <1>1, <1>2

\* The reader hands a request to the loop.
LEMMA TracesHand ==
  ASSUME NEW v \in Views, NEW k \in Conns, NEW c \in Slots, NEW d \in Slots,
         NEW cs \in Seq(Calls), Traces(v, k, c, cs),
         c.up # <<>>, d.up = Tail(c.up), d.out = c.out, d.down = c.down,
         d.writer \/ ~d.accepted => c.writer \/ ~c.accepted,
         NEW x \in Calls, x.conn = k, x.id = Head(c.up).id
  PROVE  Traces(v, k, d, Append(cs, x))
<1> DEFINE ds == Append(cs, x)
<1>1. c.up \in Seq(Requests) /\ Head(c.up) \in Requests /\ ds \in Seq(Calls)
  BY TailFacts, AppendFacts DEF Slots
<1>2. ASSUME NEW id \in Ids
      PROVE  Ways(d, ds, k, id) = Ways(c, cs, k, id)
  <2>1. Head(c.up) \in Asked(id) <=> x \in Called(k, id)
    BY <1>1 DEF Asked, Called
  <2>2. Count(c.up, Asked(id)) = IF Head(c.up) \in Asked(id) THEN Count(d.up, Asked(id)) + 1
                                 ELSE Count(d.up, Asked(id))
    BY <1>1, CountTail
  <2>3. Count(ds, Called(k, id)) = IF x \in Called(k, id) THEN Count(cs, Called(k, id)) + 1
                                   ELSE Count(cs, Called(k, id))
    BY CountAppend
  <2> HIDE DEF ds
  <2>4. /\ Count(d.up, Asked(id)) \in Nat /\ Count(cs, Called(k, id)) \in Nat
        /\ Count(c.out, Said(id)) \in Nat /\ Count(c.down, Said(id)) \in Nat
    BY QueueCounts
  <2> QED
    BY <2>1, <2>2, <2>3, <2>4 DEF Ways
<1> HIDE DEF ds
<1>3. Traces(v, k, d, ds)
  BY <1>2 DEF Traces
<1> QED
  BY <1>3 DEF ds

\* The writer sends a line.
LEMMA TracesSend ==
  ASSUME NEW v \in Views, NEW k \in Conns, NEW c \in Slots, NEW d \in Slots,
         NEW cs \in Seq(Calls), Traces(v, k, c, cs),
         c.out # <<>>, d.up = c.up, d.out = Tail(c.out), d.down = Append(c.down, Head(c.out)),
         d.writer \/ ~d.accepted => c.writer \/ ~c.accepted
  PROVE  Traces(v, k, d, cs)
<1> DEFINE x == Head(c.out)
<1>1. c.out \in Seq(Lines) /\ c.down \in Seq(Lines) /\ x \in Lines
  BY TailFacts DEF Slots
<1>2. Items(c.out) = {x} \cup Items(d.out) /\ Items(d.down) = Items(c.down) \cup {x}
  BY <1>1, TailItems, AppendItems
<1>3. ASSUME NEW id \in Ids
      PROVE  Ways(d, cs, k, id) = Ways(c, cs, k, id)
  <2>1. Count(c.out, Said(id)) = IF x \in Said(id) THEN Count(d.out, Said(id)) + 1 ELSE Count(d.out, Said(id))
    BY <1>1, CountTail
  <2>2. Count(d.down, Said(id)) = IF x \in Said(id) THEN Count(c.down, Said(id)) + 1 ELSE Count(c.down, Said(id))
    BY <1>1, CountAppend
  <2>3. /\ Count(c.up, Asked(id)) \in Nat /\ Count(cs, Called(k, id)) \in Nat
        /\ Count(d.out, Said(id)) \in Nat /\ Count(c.down, Said(id)) \in Nat
    BY QueueCounts
  <2> QED
    BY <2>1, <2>2, <2>3 DEF Ways
<1>4. Nameless(d.out) /\ Nameless(d.down)
  BY <1>2 DEF Traces, Nameless
<1> QED
  BY <1>3, <1>4 DEF Traces

\* The loop answers a request.
LEMMA TracesAnswer ==
  ASSUME NEW v \in Views, NEW k \in Conns, NEW c \in Slots, NEW d \in Slots,
         NEW cs \in Seq(Calls), Traces(v, k, c, cs),
         cs # <<>>, Head(cs).conn = k,
         NEW x \in Lines, x.id = Head(cs).id, x.tag = "answer",
         d.up = c.up, d.out = Append(c.out, x), d.down = c.down,
         d.writer \/ ~d.accepted => c.writer \/ ~c.accepted
  PROVE  Traces(v, k, d, Tail(cs))
<1> DEFINE ds == Tail(cs)
<1>1. c.out \in Seq(Lines) /\ Head(cs) \in Calls /\ ds \in Seq(Calls)
  BY TailFacts DEF Slots
<1>2. Items(d.out) = Items(c.out) \cup {x}
  BY <1>1, AppendItems
<1>3. ASSUME NEW id \in Ids
      PROVE  Ways(d, ds, k, id) = Ways(c, cs, k, id)
  <2>1. Head(cs) \in Called(k, id) <=> x \in Said(id)
    BY <1>1 DEF Called, Said
  <2>2. Count(cs, Called(k, id)) = IF Head(cs) \in Called(k, id) THEN Count(ds, Called(k, id)) + 1
                                   ELSE Count(ds, Called(k, id))
    BY CountTail
  <2>3. Count(d.out, Said(id)) = IF x \in Said(id) THEN Count(c.out, Said(id)) + 1 ELSE Count(c.out, Said(id))
    BY <1>1, CountAppend
  <2> HIDE DEF ds
  <2>4. /\ Count(c.up, Asked(id)) \in Nat /\ Count(ds, Called(k, id)) \in Nat
        /\ Count(c.out, Said(id)) \in Nat /\ Count(c.down, Said(id)) \in Nat
    BY <1>1, QueueCounts
  <2> QED
    BY <2>1, <2>2, <2>3, <2>4 DEF Ways
<1> HIDE DEF ds
<1>4. Nameless(d.out) /\ Nameless(d.down)
  BY <1>2 DEF Traces, Nameless
<1>5. Traces(v, k, d, ds)
  BY <1>3, <1>4 DEF Traces
<1> QED
  BY <1>5 DEF ds

\* An event joins the outbox.
LEMMA TracesEvent ==
  ASSUME NEW v \in Views, NEW k \in Conns, NEW c \in Slots, NEW d \in Slots,
         NEW cs \in Seq(Calls), Traces(v, k, c, cs),
         NEW x \in Lines, x.id = 0,
         d.up = c.up, d.out = Append(c.out, x), d.down = c.down,
         d.writer \/ ~d.accepted => c.writer \/ ~c.accepted
  PROVE  Traces(v, k, d, cs)
<1>1. c.out \in Seq(Lines)
  BY DEF Slots
<1>2. Items(d.out) = Items(c.out) \cup {x}
  BY <1>1, AppendItems
<1>3. ASSUME NEW id \in Ids
      PROVE  Count(d.out, Said(id)) = Count(c.out, Said(id))
  <2>1. x \notin Said(id)
    BY DEF Said, Ids
  <2> QED
    BY <1>1, <2>1, CountAppend
<1>4. Nameless(d.out) /\ Nameless(d.down)
  BY <1>2 DEF Traces, Nameless
<1> QED
  BY <1>3, <1>4 DEF Traces, Ways

\* The client asks, under an id it never used.
LEMMA TracesAsk ==
  ASSUME NEW v \in Views, NEW w \in Views, NEW k \in Conns, NEW c \in Slots, NEW d \in Slots,
         NEW cs \in Seq(Calls), Traces(v, k, c, cs),
         \A r \in v.pending : r.id < v.next,
         NEW op \in Ops, w.pending = v.pending \cup {Request(v.next, op)},
         d.up = Append(c.up, Request(v.next, op)), d.out = c.out, d.down = c.down,
         d.writer \/ ~d.accepted => c.writer \/ ~c.accepted
  PROVE  Traces(w, k, d, cs)
<1> DEFINE q == Request(v.next, op)
<1>1. c.up \in Seq(Requests) /\ q \in Requests /\ q.id = v.next /\ v.next \in Nat
  BY AskFacts DEF Slots, Request, Views
<1>2. ASSUME NEW id \in Ids, Ways(c, cs, k, id) = Awaited(v, id)
      PROVE  Ways(d, cs, k, id) = Awaited(w, id)
  <2>1. /\ Count(c.up, Asked(id)) \in Nat /\ Count(cs, Called(k, id)) \in Nat
        /\ Count(c.out, Said(id)) \in Nat /\ Count(c.down, Said(id)) \in Nat
    BY QueueCounts
  <2>2. Count(d.up, Asked(id)) = IF q \in Asked(id) THEN Count(c.up, Asked(id)) + 1 ELSE Count(c.up, Asked(id))
    BY <1>1, CountAppend
  <2>3. CASE id = v.next
    <3>1. Awaited(v, id) = 0
      <4>1. \A r \in v.pending : r.id # id
        BY <1>1, <2>3 DEF Views
      <4> QED
        BY <4>1 DEF Awaited
    <3>2. Awaited(w, id) = 1 /\ q \in Asked(id)
      BY <1>1, <2>3 DEF Awaited, Asked
    <3> QED
      BY <1>2, <2>1, <2>2, <3>1, <3>2 DEF Ways
  <2>4. CASE id # v.next
    <3>1. Awaited(w, id) = Awaited(v, id) /\ q \notin Asked(id)
      BY <1>1, <2>4 DEF Awaited, Asked
    <3> QED
      BY <1>2, <2>2, <3>1 DEF Ways
  <2> QED
    BY <2>3, <2>4
<1> QED
  BY <1>2 DEF Traces

\* The client handles a line.
LEMMA TracesTake ==
  ASSUME NEW v \in Views, NEW w \in Views, NEW k \in Conns, NEW c \in Slots, NEW d \in Slots,
         NEW cs \in Seq(Calls), Traces(v, k, c, cs),
         c.down # <<>>, w.pending = Awaits(v, Head(c.down)),
         d.up = c.up, d.out = c.out, d.down = Tail(c.down),
         d.writer \/ ~d.accepted => c.writer \/ ~c.accepted
  PROVE  Traces(w, k, d, cs)
<1> DEFINE x == Head(c.down)
<1>1. c.down \in Seq(Lines) /\ x \in Lines
  BY TailFacts DEF Slots
<1>2. Items(c.down) = {x} \cup Items(d.down)
  BY <1>1, TailItems
<1>3. x.tag = "answer" \/ x.id = 0
  BY <1>1, <1>2 DEF Traces, Nameless, Lines
<1>4. ASSUME NEW id \in Ids, Ways(c, cs, k, id) = Awaited(v, id)
      PROVE  Ways(d, cs, k, id) = Awaited(w, id)
  <2>1. /\ Count(c.up, Asked(id)) \in Nat /\ Count(cs, Called(k, id)) \in Nat
        /\ Count(c.out, Said(id)) \in Nat /\ Count(d.down, Said(id)) \in Nat
    BY QueueCounts
  <2>2. Count(c.down, Said(id)) = IF x \in Said(id) THEN Count(d.down, Said(id)) + 1 ELSE Count(d.down, Said(id))
    BY <1>1, CountTail
  <2>3. CASE x.id = id
    <3>1. x.tag = "answer" /\ x \in Said(id)
      BY <1>1, <1>3, <2>3 DEF Ids, Said
    <3>2. Awaited(w, id) = 0
      BY <2>3, <3>1 DEF Awaited, Awaits
    <3>3. Awaited(v, id) \in {0, 1}
      BY DEF Awaited
    <3> QED
      BY <1>4, <2>1, <2>2, <3>1, <3>2, <3>3 DEF Ways
  <2>4. CASE x.id # id
    <3>1. x \notin Said(id)
      BY <2>4 DEF Said
    <3>2. Awaited(w, id) = Awaited(v, id)
      BY <2>4 DEF Awaited, Awaits
    <3> QED
      BY <1>4, <2>2, <3>1, <3>2 DEF Ways
  <2> QED
    BY <2>3, <2>4
<1>5. Nameless(d.down)
  BY <1>2 DEF Traces, Nameless
<1> QED
  BY <1>4, <1>5 DEF Traces

Traced(g) ==
  LET k == gui[g].conn IN k # NoConn => Traces(gui[g], k, conn[k], calls)

LEMMA TracedFacts ==
  ASSUME Base, NEW g \in Clients, NEW k \in Conns, gui[g].conn = k, Traced(g)
  PROVE  /\ Traces(gui[g], k, conn[k], calls) /\ calls \in Seq(Calls) /\ conn[k] \in Slots
         /\ gui[g] \in Views /\ conn[k].client = TRUE
         /\ conn[k].up \in Seq(Requests) /\ conn[k].out \in Seq(Lines) /\ conn[k].down \in Seq(Lines)
BY ClientSlot DEF Traced, Base, Typed, Slots

LEMMA TracedElsewhere ==
  ASSUME Base, Typed', NEW g \in Clients, Traced(g), gui'[g] = gui[g],
         \A j \in Conns : gui[g].conn = j =>
           /\ conn'[j] = conn[j]
           /\ \A id \in Ids : Count(calls', Called(j, id)) = Count(calls, Called(j, id))
  PROVE  Traced(g)'
<1>1. ASSUME NEW k \in Conns, gui[g].conn = k
      PROVE  Traced(g)'
  <2>1. /\ Traces(gui[g], k, conn[k], calls) /\ calls \in Seq(Calls) /\ conn[k] \in Slots /\ gui[g] \in Views
        /\ calls' \in Seq(Calls)
    BY <1>1, TracedFacts DEF Typed
  <2>2. Traces(gui[g], k, conn[k], calls')
    BY <1>1, <2>1, TracesStill
  <2> QED
    BY <1>1, <2>2 DEF Traced
<1>2. gui[g].conn \in Conns \cup {NoConn}
  BY DEF Base, Typed, Views
<1> QED
  BY <1>1, <1>2 DEF Traced

LEMMA AcceptTraced ==
  ASSUME Base, Base', NEW j \in Conns, Accept(j), NEW g \in Clients, Traced(g)
  PROVE  Traced(g)'
<1> DEFINE c == [conn[j] EXCEPT !.accepted = TRUE, !.reader = TRUE, !.writer = TRUE, !.hub = TRUE]
<1>1. UNCHANGED <<host, calls, gui>> /\ Slot(j, c) /\ ~conn[j].accepted /\ Typed'
  BY DEF Accept, Base
<1>2. c \in Slots /\ c.up = conn[j].up /\ c.out = conn[j].out /\ c.down = conn[j].down
  BY DEF Base, Typed, Slots
<1> HIDE DEF c
<1>3. CASE gui[g].conn # j
  BY <1>1, <1>3, SlotElsewhere, TracedElsewhere
<1>4. CASE gui[g].conn = j
  <2>1. conn'[j] = c
    BY <1>1 DEF Slot, Base, Typed
  <2>2. Traces(gui[g], j, c, calls)
    BY <1>1, <1>2, <1>4, TracedFacts, TracesStill
  <2> QED
    BY <1>1, <1>4, <2>1, <2>2 DEF Traced
<1> QED
  BY <1>3, <1>4

LEMMA ReadLineTraced ==
  ASSUME Base, Base', NEW j \in Conns, ReadLine(j), NEW g \in Clients, Traced(g)
  PROVE  Traced(g)'
<1> DEFINE line == Head(conn[j].up)
           call == [conn |-> j, id |-> line.id, op |-> line.op]
           rest == [conn[j] EXCEPT !.up = Tail(@)]
<1>1. /\ UNCHANGED <<host, gui>> /\ conn[j].up # <<>> /\ Typed /\ Typed'
      /\ conn[j] \in Slots /\ conn[j].up \in Seq(Requests)
  BY QueueFacts DEF ReadLine, Base
<1>2. /\ line \in Requests /\ Tail(conn[j].up) \in Seq(Requests) /\ line = conn[j].up[1]
      /\ 1 \in 1 .. Len(conn[j].up)
  BY <1>1, TailFacts
<1>3. call \in Calls /\ call.conn = j /\ call.id = line.id
  BY <1>2 DEF Calls, Requests
<1>4. /\ rest \in Slots
      /\ rest.up = Tail(conn[j].up) /\ rest.out = conn[j].out /\ rest.down = conn[j].down
      /\ rest.writer = conn[j].writer /\ rest.accepted = conn[j].accepted
  BY <1>1, <1>2 DEF Slots
<1>5. \/ calls' = Append(calls, call) /\ Slot(j, rest)
      \/ UNCHANGED calls /\ line.op \in {"bad", "blank", "long"}
  BY DEF ReadLine
<1>6. \E c : Slot(j, c)
  BY DEF ReadLine
<1> HIDE DEF rest, line, call
<1>7. CASE gui[g].conn # j
  <2>1. \A k \in Conns : gui[g].conn = k => conn'[k] = conn[k]
    BY <1>6, <1>7, SlotElsewhere
  <2>2. ASSUME NEW k \in Conns, gui[g].conn = k, NEW id \in Ids
        PROVE  Count(calls', Called(k, id)) = Count(calls, Called(k, id))
    <3>1. calls \in Seq(Calls)
      BY <1>1 DEF Typed
    <3>2. Count(Append(calls, call), Called(k, id)) = Count(calls, Called(k, id))
      BY <1>3, <1>7, <2>2, <3>1, CallsElsewhere
    <3> QED
      BY <1>5, <3>2
  <2> QED
    BY <1>1, <2>1, <2>2, TracedElsewhere
<1>8. CASE gui[g].conn = j
  <2>1. line.op \in Ops
    BY <1>2, <1>8, ClientSlot
  <2>2. Slot(j, rest) /\ calls' = Append(calls, call)
    BY <1>5, <2>1 DEF Ops
  <2>3. conn'[j] = rest
    BY <1>1, <2>2 DEF Slot, Typed
  <2>4. Traces(gui[g], j, rest, Append(calls, call))
    BY <1>1, <1>3, <1>4, <1>8, TracedFacts, TracesHand DEF line
  <2> QED
    BY <1>1, <1>8, <2>2, <2>3, <2>4 DEF Traced
<1> QED
  BY <1>7, <1>8

\* The reader ends, the writer writes a line, or ends.
LEMMA ThreadTraced ==
  ASSUME Base, Base', NEW j \in Conns, ReadEnd(j) \/ Write(j) \/ WriteEnd(j),
         NEW g \in Clients, Traced(g)
  PROVE  Traced(g)'
<1>1. UNCHANGED <<host, calls, gui>> /\ Typed /\ Typed'
  BY DEF ReadEnd, Write, WriteEnd, Base
<1>2. PICK c : Slot(j, c)
  BY DEF ReadEnd, Write, WriteEnd
<1>3. CASE gui[g].conn # j
  BY <1>1, <1>2, <1>3, SlotElsewhere, TracedElsewhere
<1>4. CASE gui[g].conn = j
  <2>1. /\ conn[j] \in Slots /\ conn[j].client = TRUE /\ conn[j].down \in Seq(Lines) /\ conn[j].out \in Seq(Lines)
        /\ conn[j].writer => conn[j].hub /\ conn[j].reader
        /\ Traces(gui[g], j, conn[j], calls) /\ gui[g] \in Views /\ calls \in Seq(Calls)
        /\ conn[j].writer => conn[j].accepted
    BY <1>1, <1>4, ClientSlot, TracedFacts
  <2>2. ASSUME NEW d \in Slots, d.client, Slot(j, Swept(j, d, calls)), Traces(gui[g], j, d, calls)
        PROVE  Traced(g)'
    <3>1. Swept(j, d, calls) = d
      BY <2>2 DEF Swept
    <3>2. conn'[j] = d
      BY <1>1, <2>2, <3>1 DEF Slot, Typed
    <3> QED
      BY <1>1, <1>4, <2>2, <3>2 DEF Traced
  <2>3. CASE ReadEnd(j)
    <3> DEFINE d == Hangup(conn[j])
    <3>1. /\ d \in Slots /\ d.client /\ d.up = conn[j].up /\ d.down = conn[j].down /\ d.out = conn[j].out
          /\ d.writer = conn[j].writer /\ d.accepted = conn[j].accepted
      BY <2>1 DEF Hangup, Slots
    <3>2. Slot(j, Swept(j, d, calls))
      BY <2>3 DEF ReadEnd
    <3> HIDE DEF d
    <3> QED
      BY <2>1, <2>2, <3>1, <3>2, TracesStill
  <2>4. CASE Write(j)
    <3> DEFINE d == [conn[j] EXCEPT !.out = Tail(@), !.down = Append(@, Head(conn[j].out))]
    <3>1. conn[j].out # <<>> /\ Slot(j, d)
      BY <2>1, <2>4 DEF Write
    <3>2. Tail(conn[j].out) \in Seq(Lines) /\ Append(conn[j].down, Head(conn[j].out)) \in Seq(Lines)
      BY <2>1, <3>1, TailFacts, AppendFacts
    <3>3. /\ d \in Slots /\ d.client /\ d.up = conn[j].up
          /\ d.writer = conn[j].writer /\ d.accepted = conn[j].accepted
          /\ d.down = Append(conn[j].down, Head(conn[j].out)) /\ d.out = Tail(conn[j].out)
      BY <2>1, <3>2 DEF Slots
    <3> HIDE DEF d
    <3>4. Traces(gui[g], j, d, calls)
      BY <2>1, <3>1, <3>3, TracesSend
    <3>5. Swept(j, d, calls) = d
      BY <3>3 DEF Swept
    <3> QED
      BY <2>2, <3>1, <3>3, <3>4, <3>5
  <2>5. CASE WriteEnd(j)
    BY <2>1, <2>5 DEF WriteEnd
  <2> QED
    BY <2>3, <2>4, <2>5
<1> QED
  BY <1>3, <1>4

\* Other programs come, read and go.
LEMMA ScriptTraced ==
  ASSUME Base, Base', (\E j \in Conns : ScriptReads(j)) \/ (\E x \in Scripts : ScriptRuns(x)),
         NEW g \in Clients, Traced(g)
  PROVE  Traced(g)'
<1>1. UNCHANGED <<host, calls, gui>> /\ Typed'
  BY DEF ScriptReads, ScriptRuns, Base
<1>2. PICK j \in Conns : /\ \E c : Slot(j, c)
                         /\ conn[j].owner \in Scripts \/ Free(j)
  BY SlotIsFree DEF ScriptReads, ScriptRuns
<1>3. gui[g].conn # j
  <2>1. gui[g].conn = j => conn[j].owner = g /\ j # NoConn
    BY ClientSlot
  <2> QED
    BY <1>2, <2>1, ControlAssumption DEF Free
<1> QED
  BY <1>1, <1>2, <1>3, SlotElsewhere, TracedElsewhere

\* Slot c hears of a change.
LEMMA TracesHeard ==
  ASSUME NEW v \in Views, NEW k \in Conns, NEW c \in Slots, NEW d \in Slots,
         NEW cs \in Seq(Calls), Traces(v, k, c, cs), NEW x \in Lines, x.id = 0, Heard(c, d, x)
  PROVE  Traces(v, k, d, cs)
<1>1. /\ d.up = c.up /\ d.down = c.down /\ d.writer = c.writer /\ d.accepted = c.accepted
      /\ d.out \in {c.out, Append(c.out, x)}
  BY DEF Heard, Talks
<1>2. CASE d.out = c.out
  BY <1>1, <1>2, TracesStill
<1>3. CASE d.out = Append(c.out, x)
  BY <1>1, <1>3, TracesEvent
<1> QED
  BY <1>1, <1>2, <1>3

LEMMA ChangeTraced ==
  ASSUME Base, NEW g \in Clients, NEW k \in Conns, gui[g].conn = k, Traced(g),
         NEW cs \in [Conns -> Slots], ChangedFacts(cs)
  PROVE  Traces(gui[g], k, cs[k], calls)
<1>1. PICK event \in Lines : event = PetsChanged(host.ver + 1)
  BY ChangeFacts
<1>2. event.id = 0
  BY <1>1 DEF PetsChanged
<1>3. Heard(conn[k], cs[k], event)
  BY <1>1 DEF ChangedFacts
<1>4. cs[k] \in Slots
  OBVIOUS
<1> QED
  BY <1>2, <1>3, <1>4, TracedFacts, TracesHeard

LEMMA HostChangeTraced ==
  ASSUME Base, Base', HostChange, NEW g \in Clients, Traced(g)
  PROVE  Traced(g)'
<1>1. /\ UNCHANGED <<calls, gui>> /\ conn' = Changed(conn)
      /\ Changed(conn) \in [Conns -> Slots] /\ ChangedFacts(Changed(conn))
  BY ChangeFacts DEF HostChange
<1>2. PICK cs \in [Conns -> Slots] : cs = conn' /\ ChangedFacts(cs)
  BY <1>1
<1>3. ASSUME NEW k \in Conns, gui[g].conn = k
      PROVE  Traced(g)'
  BY <1>1, <1>2, <1>3, ChangeTraced DEF Traced
<1>4. gui[g].conn \in Conns \cup {NoConn}
  BY DEF Base, Typed, Views
<1> QED
  BY <1>1, <1>3, <1>4 DEF Traced

LEMMA HandleTraced ==
  ASSUME Base, Base', HandleControl, NEW g \in Clients, Traced(g)
  PROVE  Traced(g)'
<1>1. PICK call \in Calls : call = Head(calls)
  BY HandleFacts
<1>2. calls # <<>> /\ calls' = Tail(calls) /\ UNCHANGED gui
  BY <1>1, HandleFacts
<1>3. PICK cs \in [Conns -> Slots], answer \in Lines :
        /\ answer.tag = "answer" /\ answer.id = call.id
        /\ Replies(cs, call, answer)
        /\ cs = conn \/ ChangedFacts(cs)
  BY <1>1, HandleFacts
<1>4. ASSUME NEW k \in Conns, gui[g].conn = k
      PROVE  Traced(g)'
  <2>1. calls \in Seq(Calls) /\ gui[g] \in Views /\ cs[k] \in Slots /\ conn'[k] \in Slots /\ calls' \in Seq(Calls)
    BY DEF Base, Typed
  <2>2. Traces(gui[g], k, cs[k], calls)
    BY <1>3, <1>4, TracedFacts, ChangeTraced
  <2>3. cs[k].client
    <3>1. conn[k].client
      BY <1>4, ClientSlot
    <3> QED
      BY <1>3, <3>1 DEF ChangedFacts, Heard, Talks
  <2>4. CASE call.conn # k
    <3>1. conn'[k] = cs[k]
      BY <1>3, <2>4 DEF Replies
    <3>2. \A id \in Ids : Count(calls', Called(k, id)) = Count(calls, Called(k, id))
      BY <1>1, <1>2, <2>1, <2>4, CallsElsewhere
    <3>3. Traces(gui[g], k, cs[k], calls')
      BY <2>1, <2>2, <3>2, TracesStill
    <3> QED
      BY <1>2, <1>4, <3>1, <3>3 DEF Traced
  <2>5. CASE call.conn = k
    <3>1. Told(cs[k], conn'[k], answer)
      BY <1>3, <2>3, <2>5 DEF Replies
    <3>2. /\ conn'[k].up = cs[k].up /\ conn'[k].down = cs[k].down
          /\ conn'[k].writer = cs[k].writer /\ conn'[k].accepted = cs[k].accepted
          /\ conn'[k].out = IF cs[k].writer THEN Append(cs[k].out, answer) ELSE cs[k].out
      BY <3>1 DEF Told, Talks
    <3>3. CASE cs[k].writer
      <4>1. Traces(gui[g], k, conn'[k], Tail(calls))
        BY <1>1, <1>2, <1>3, <2>1, <2>2, <2>5, <3>2, <3>3, TracesAnswer
      <4> QED
        BY <1>2, <1>4, <4>1 DEF Traced
    <3>4. CASE ~cs[k].writer
      <4>1. cs[k].accepted
        <5>1. ~Uncalled(k)
          BY <1>1, <1>2, <2>1, <2>5, TailFacts DEF Uncalled
        <5>2. conn[k].accepted
          BY <5>1 DEF Base, WiredAs
        <5> QED
          BY <1>3, <5>2 DEF ChangedFacts, Heard, Talks
      <4>2. Nameless(conn'[k].out) /\ Nameless(conn'[k].down)
        BY <2>2, <3>2, <3>4 DEF Traces
      <4>3. Traces(gui[g], k, conn'[k], calls')
        BY <3>2, <3>4, <4>1, <4>2 DEF Traces
      <4> QED
        BY <1>2, <1>4, <4>3 DEF Traced
    <3> QED
      BY <3>3, <3>4
  <2> QED
    BY <2>4, <2>5
<1>5. gui[g].conn \in Conns \cup {NoConn}
  BY DEF Base, Typed, Views
<1> QED
  BY <1>2, <1>4, <1>5 DEF Traced

\* A surface closes, a host starts, or it goes, and lets go of every slot.
LEMMA HostTraced ==
  ASSUME Base, Base', SurfaceClosed \/ HostStart \/ HostDown, NEW g \in Clients, Traced(g)
  PROVE  Traced(g)'
<1>1. Typed' /\ gui' = gui
  BY DEF SurfaceClosed, HostStart, HostDown, Base
<1>2. CASE SurfaceClosed \/ HostStart
  <2>1. UNCHANGED <<calls, conn, gui>>
    BY <1>2 DEF SurfaceClosed, HostStart
  <2> QED
    BY <1>1, <2>1, TracedElsewhere
<1>3. CASE HostDown
  <2>1. ASSUME NEW k \in Conns, gui[g].conn = k
        PROVE  Traced(g)'
    <3>1. Traces(gui[g], k, conn[k], calls) /\ conn[k] \in Slots /\ conn[k].client
      BY <2>1, TracedFacts
    <3>2. /\ conn'[k].down = conn[k].down /\ conn'[k].out = <<>>
          /\ ~conn'[k].writer /\ conn'[k].accepted
      BY <1>3, <3>1 DEF HostDown, Slots
    <3>3. Nameless(<<>>)
      BY EmptySeq DEF Nameless, Items
    <3>4. Traces(gui[g], k, conn'[k], calls')
      BY <3>1, <3>2, <3>3 DEF Traces
    <3> QED
      BY <1>1, <2>1, <3>4 DEF Traced
  <2>2. gui[g].conn \in Conns \cup {NoConn}
    BY DEF Base, Typed, Views
  <2> QED
    BY <1>1, <2>1, <2>2 DEF Traced
<1> QED
  BY <1>2, <1>3

\* What another client does.
LEMMA OtherTraced ==
  ASSUME Base, Base', NEW h \in Clients,
         Connect(h) \/ ClientRequest(h) \/ Tick(h) \/ CloseWindow(h),
         NEW g \in Clients, g # h, Traced(g)
  PROVE  Traced(g)'
<1>1. UNCHANGED <<host, calls>> /\ Typed'
  BY DEF Connect, ClientRequest, Tick, Receive, EndOfStream, CloseWindow, Base
<1>2. PICK j : (\A k \in Conns \ {j} : conn'[k] = conn[k]) /\ (j = gui[h].conn \/ Free(j))
  <2>1. CASE Connect(h)
    BY <2>1, SlotIsFree DEF Connect, Send, Slot, Base, Typed
  <2>2. CASE ClientRequest(h)
    BY <2>2 DEF ClientRequest, Send, Slot, Base, Typed
  <2>3. CASE Receive(h)
    BY <2>3, ReceiveFacts, ZenonT(30)
  <2>4. CASE EndOfStream(h) \/ CloseWindow(h)
    BY <2>4 DEF EndOfStream, CloseWindow, Slot, Base, Typed
  <2> QED
    BY <2>1, <2>2, <2>3, <2>4 DEF Tick
<1>3. PICK v : gui' = [gui EXCEPT ![h] = v]
  BY DEF Connect, ClientRequest, Tick, Receive, EndOfStream, CloseWindow, Send
<1>4. gui'[g] = gui[g]
  BY <1>3 DEF Base, Typed
<1>5. \A k \in Conns : gui[g].conn = k => k # j
  BY <1>2, SlotIsOwn, ConnFacts
<1>6. \A k \in Conns : gui[g].conn = k => conn'[k] = conn[k]
  BY <1>2, <1>5
<1> QED
  BY <1>1, <1>4, <1>6, TracedElsewhere

\* Nothing is on its way through a slot that was free.
LEMMA TracesNew ==
  ASSUME NEW v \in Views, v.pending = {}, NEW k \in Conns, NEW c \in Slots,
         c.up = <<>>, c.out = <<>>, c.down = <<>>,
         Uncalled(k), calls \in Seq(Calls)
  PROVE  Traces(v, k, c, calls)
<1>1. Nameless(<<>>)
  BY EmptySeq DEF Nameless, Items
<1>2. ASSUME NEW id \in Ids
      PROVE  Ways(c, calls, k, id) = Awaited(v, id)
  <2>1. Hits(calls, Called(k, id)) = {}
    BY DEF Hits, Called, Uncalled
  <2>2. Count(calls, Called(k, id)) = 0
    BY <2>1, FS_EmptySet DEF Count
  <2>3. Count(c.up, Asked(id)) = 0 /\ Count(c.out, Said(id)) = 0 /\ Count(c.down, Said(id)) = 0
    BY CountEmpty
  <2>4. Awaited(v, id) = 0
    BY DEF Awaited
  <2> QED
    BY <2>2, <2>3, <2>4 DEF Ways
<1> QED
  BY <1>1, <1>2 DEF Traces

LEMMA ConnectTraced ==
  ASSUME Base, Base', NEW g \in Clients, Connect(g)
  PROVE  Traced(g)'
<1> DEFINE v == [gui[g] EXCEPT !.conn = FreeSlot, !.state = "connecting", !.pending = {}]
           s == [Idle EXCEPT !.owner = g, !.client = TRUE]
<1>1. PICK k \in Conns : k = FreeSlot /\ Free(k)
  BY SlotIsFree DEF Connect
<1>2. UNCHANGED <<host, calls>> /\ Send(g, v, s, "Hello")
  BY DEF Connect
<1>3. gui[g] \in Views /\ Typed /\ Typed' /\ calls \in Seq(Calls)
  BY DEF Base, Typed
<1>4. v \in Views /\ v.conn = k /\ v.pending = {}
  BY <1>1, <1>3 DEF Views
<1>5. s \in Slots /\ s.up = <<>> /\ s.out = <<>> /\ s.down = <<>> /\ ~s.writer /\ ~s.accepted
  BY EmptySeq DEF Idle, Slots
<1>6. Uncalled(k)
  BY <1>1 DEF Base, WiredAs, Free
<1> HIDE DEF v, s
<1>7. Traces(v, k, s, calls)
  BY <1>3, <1>4, <1>5, <1>6, TracesNew
<1>8. "Hello" \in Ops
  BY DEF Ops
<1>9. /\ gui'[g] = Ask(v, "Hello") /\ conn'[k].up = Append(s.up, Request(v.next, "Hello"))
      /\ conn'[k].writer = s.writer /\ conn'[k].accepted = s.accepted
      /\ conn'[k].out = s.out /\ conn'[k].down = s.down
  BY <1>2, <1>3, <1>4, <1>5, <1>8, SendFacts
<1>10. /\ gui'[g].pending = v.pending \cup {Request(v.next, "Hello")} /\ gui'[g].conn = k
       /\ gui'[g] \in Views /\ conn'[k] \in Slots
  BY <1>3, <1>4, <1>8, <1>9, AskFacts, ZenonT(30) DEF Typed
<1>11. Traces(gui'[g], k, conn'[k], calls)
  BY <1>3, <1>4, <1>5, <1>7, <1>8, <1>9, <1>10, TracesAsk
<1> QED
  BY <1>2, <1>10, <1>11 DEF Traced

\* Ids are not used twice.
LEMMA IdsAreNew ==
  ASSUME Base, NEW g \in Clients, Follows(g), gui[g].conn \in Conns
  PROVE  \A r \in gui[g].pending : r.id < gui[g].next
BY ConnFacts DEF Follows, Sound, Matches

LEMMA ClientRequestTraced ==
  ASSUME Base, Base', NEW g \in Clients, ClientRequest(g), Follows(g), Traced(g)
  PROVE  Traced(g)'
<1>1. PICK op \in Ops : Send(g, gui[g], conn[gui[g].conn], op)
  BY DEF ClientRequest, Ops
<1>2. /\ gui[g].state = "connected" /\ gui[g] \in Views /\ UNCHANGED <<host, calls>> /\ Typed /\ Typed'
      /\ calls \in Seq(Calls)
  BY DEF ClientRequest, Base, Typed
<1>3. PICK k \in Conns : k = gui[g].conn
  BY <1>2 DEF Base, Owned, Views
<1> DEFINE v == gui[g]
           q == Request(v.next, op)
<1>4. conn[k] \in Slots /\ Traces(v, k, conn[k], calls)
  BY <1>3, TracedFacts
<1>5. /\ gui'[g] = Ask(v, op) /\ conn'[k].up = Append(conn[k].up, q)
      /\ conn'[k].writer = conn[k].writer /\ conn'[k].accepted = conn[k].accepted
      /\ conn'[k].out = conn[k].out /\ conn'[k].down = conn[k].down
  BY <1>1, <1>2, <1>3, <1>4, SendFacts, SMTT(20)
<1>6. /\ gui'[g] \in Views /\ gui'[g].pending = v.pending \cup {q} /\ gui'[g].conn = k /\ conn'[k] \in Slots
  BY <1>2, <1>3, <1>5, AskFacts, SMTT(30) DEF Typed
<1>7. \A r \in v.pending : r.id < v.next
  BY <1>3, IdsAreNew
<1>8. PICK w \in Views, d \in Slots : w = gui'[g] /\ d = conn'[k]
  BY <1>6
<1>9. v \in Views
  BY <1>2
<1> HIDE DEF v
<1>10. Traces(w, k, d, calls)
  <2> DEFINE c == conn[k]
  <2>1. /\ c \in Slots /\ Traces(v, k, c, calls) /\ d.up = Append(c.up, q) /\ d.out = c.out /\ d.down = c.down
        /\ d.writer = c.writer /\ d.accepted = c.accepted /\ w.pending = v.pending \cup {q}
    BY <1>4, <1>5, <1>6, <1>8
  <2> HIDE DEF c
  <2> QED
    BY <1>2, <1>7, <1>9, <2>1, TracesAsk
<1> QED
  BY <1>2, <1>6, <1>8, <1>10 DEF Traced

LEMMA ReceiveTraced ==
  ASSUME Base, Base', NEW g \in Clients, Receive(g), Follows(g), Traced(g)
  PROVE  Traced(g)'
<1>1. PICK k \in Conns, line \in Lines : k = gui[g].conn /\ line = Head(conn[k].down)
  BY ReceiveFacts
<1>2. PICK v \in Views : v = gui[g]
  BY DEF Base, Typed
<1>3. PICK w \in Views : w = gui'[g]
  BY DEF Base, Typed
<1>4. PICK c \in Slots : c = conn[k]
  BY DEF Base, Typed
<1>5. PICK d \in Slots : d = conn'[k]
  BY DEF Base, Typed
<1>6. /\ c.down # <<>> /\ UNCHANGED <<host, calls>> /\ w.conn = k
      /\ d.down = Tail(c.down) /\ d.out = c.out /\ d.writer = c.writer /\ d.accepted = c.accepted
  BY <1>1, <1>3, <1>4, <1>5, ReceiveFacts
<1>7. \/ d.up = c.up /\ w.pending = Awaits(v, line)
      \/ /\ d.up = Append(c.up, Request(v.next, "ListPets"))
         /\ w.pending = Awaits(v, line) \cup {Request(v.next, "ListPets")}
  BY <1>1, <1>2, <1>3, <1>4, <1>5, ReceiveFacts
<1>8. Traces(v, k, c, calls) /\ calls \in Seq(Calls) /\ \A r \in v.pending : r.id < v.next
  BY <1>1, <1>2, <1>4, TracedFacts, IdsAreNew
<1>9. CASE d.up = c.up /\ w.pending = Awaits(v, line)
  <2>1. Traces(w, k, d, calls)
    BY <1>1, <1>4, <1>6, <1>8, <1>9, TracesTake
  <2> QED
    BY <1>3, <1>5, <1>6, <2>1 DEF Traced
<1>10. CASE /\ d.up = Append(c.up, Request(v.next, "ListPets"))
            /\ w.pending = Awaits(v, line) \cup {Request(v.next, "ListPets")}
  <2> DEFINE e == [c EXCEPT !.down = Tail(c.down)]
             u == [v EXCEPT !.pending = Awaits(v, line)]
  <2>1. c.down \in Seq(Lines)
    BY DEF Slots
  <2>2. /\ e \in Slots /\ e.up = c.up /\ e.out = c.out /\ e.down = Tail(c.down)
        /\ e.writer = c.writer /\ e.accepted = c.accepted
    BY <1>6, <2>1, TailFacts DEF Slots
  <2>3. u \in Views /\ u.pending = Awaits(v, line) /\ u.next = v.next
    BY DEF Views, Awaits
  <2>4. \A r \in u.pending : r.id < u.next
    BY <1>8, <2>3 DEF Awaits
  <2> HIDE DEF e, u
  <2>5. Traces(u, k, e, calls)
    BY <1>1, <1>4, <1>6, <1>8, <2>2, <2>3, TracesTake, SMTT(20)
  <2>6. "ListPets" \in Ops
    BY DEF Ops
  <2>7. Traces(w, k, d, calls)
    BY <1>6, <1>8, <1>10, <2>2, <2>3, <2>4, <2>5, <2>6, TracesAsk
  <2> QED
    BY <1>3, <1>5, <1>6, <2>7 DEF Traced
<1> QED
  BY <1>7, <1>9, <1>10

LEMMA EndTraced ==
  ASSUME Base, NEW g \in Clients, EndOfStream(g) \/ CloseWindow(g)
  PROVE  Traced(g)'
<1>1. Typed
  BY DEF Base
<1>2. gui'[g].conn = NoConn
  <2>1. CASE EndOfStream(g)
    BY <1>1, <2>1, DroppedFacts DEF EndOfStream, Typed
  <2>2. CASE CloseWindow(g)
    BY <1>1, <2>2, DroppedFacts DEF CloseWindow, Typed
  <2> QED
    BY <2>1, <2>2
<1> QED
  BY <1>2 DEF Traced

LEMMA NextTraced ==
  ASSUME IInv, \A g \in Clients : Traced(g), [Next]_vars
  PROVE  \A g \in Clients : Traced(g)'
<1>1. Base /\ Base'
  BY NextIInv DEF IInv
<1> SUFFICES ASSUME NEW g \in Clients
             PROVE  Traced(g)'
  OBVIOUS
<1>2. Follows(g) /\ Traced(g)
  BY DEF IInv
<1>3. CASE \E k \in Conns : Accept(k) \/ Reader(k) \/ Writer(k) \/ ScriptReads(k)
  BY <1>1, <1>2, <1>3, AcceptTraced, ReadLineTraced, ThreadTraced, ScriptTraced DEF Reader, Writer
<1>4. CASE HandleControl \/ HostChange \/ SurfaceClosed \/ HostDown \/ HostStart
  BY <1>1, <1>2, <1>4, HandleTraced, HostChangeTraced, HostTraced
<1>5. CASE \E h \in Clients : Connect(h) \/ ClientRequest(h) \/ Tick(h) \/ CloseWindow(h)
  <2>1. PICK h \in Clients : Connect(h) \/ ClientRequest(h) \/ Tick(h) \/ CloseWindow(h)
    BY <1>5
  <2>2. CASE g # h
    BY <1>1, <1>2, <2>1, <2>2, OtherTraced
  <2>3. CASE g = h
    BY <1>1, <1>2, <2>1, <2>3, ConnectTraced, ClientRequestTraced, ReceiveTraced, EndTraced DEF Tick
  <2> QED
    BY <2>2, <2>3
<1>6. CASE \E x \in Scripts : ScriptRuns(x)
  BY <1>1, <1>2, <1>6, ScriptTraced
<1>7. CASE UNCHANGED vars
  BY <1>2, <1>7 DEF vars, Traced
<1> QED
  BY <1>3, <1>4, <1>5, <1>6, <1>7 DEF Next

\* The counts of the property are those of the invariant.
LEMMA UnderwayIsWays ==
  ASSUME Typed, NEW k \in Conns, NEW id \in Ids
  PROVE  Underway(k, id) = Ways(conn[k], calls, k, id)
<1>1. /\ conn[k].up \in Seq(Requests) /\ conn[k].out \in Seq(Lines) /\ conn[k].down \in Seq(Lines)
      /\ calls \in Seq(Calls)
  BY QueueFacts DEF Typed
<1>2. {i \in DOMAIN conn[k].up : conn[k].up[i].id = id} = Hits(conn[k].up, Asked(id))
  BY <1>1, ElementOfSeq, LenProperties DEF Hits, Asked
<1>3. {i \in DOMAIN calls : calls[i].conn = k /\ calls[i].id = id} = Hits(calls, Called(k, id))
  BY <1>1, ElementOfSeq, LenProperties DEF Hits, Called
<1>4. {i \in DOMAIN conn[k].out : conn[k].out[i].id = id} = Hits(conn[k].out, Said(id))
  BY <1>1, ElementOfSeq, LenProperties DEF Hits, Said
<1>5. {i \in DOMAIN conn[k].down : conn[k].down[i].id = id} = Hits(conn[k].down, Said(id))
  BY <1>1, ElementOfSeq, LenProperties DEF Hits, Said
<1> QED
  BY <1>2, <1>3, <1>4, <1>5 DEF Underway, Ways, Count

\* No request of a client is lost or answered twice while its connection
\* lasts: what client.rs waits for is in exactly one of socket, command
\* channel, outbox and socket back, whatever threads, events and other clients
\* do meanwhile, and what it does not wait for is nowhere.
THEOREM PendingUnderwayHolds == Spec => []PendingUnderway
<1>1. Init => IInv /\ \A g \in Clients : Traced(g)
  BY InitIInv DEF Init, Traced
<1>2. IInv /\ (\A g \in Clients : Traced(g)) /\ [Next]_vars => IInv' /\ (\A g \in Clients : Traced(g))'
  BY NextIInv, NextTraced
<1>3. ASSUME IInv, \A g \in Clients : Traced(g)
      PROVE  PendingUnderway
  <2> SUFFICES ASSUME NEW g \in Clients, gui[g].conn # NoConn,
                      conn[gui[g].conn].writer \/ ~conn[gui[g].conn].accepted, NEW id \in 1 .. MaxId
               PROVE  Underway(gui[g].conn, id) = IF \E r \in gui[g].pending : r.id = id THEN 1 ELSE 0
    BY DEF PendingUnderway
  <2>0. PICK k \in Conns : k = gui[g].conn
    BY <1>3 DEF IInv, Base, Typed, Views
  <2>1. Base /\ Typed /\ Traced(g)
    BY <1>3 DEF IInv, Base
  <2>2. id \in Ids
    BY ControlAssumption DEF Ids
  <2>3. Ways(conn[k], calls, k, id) = Awaited(gui[g], id)
    BY <2>0, <2>1, <2>2, TracedFacts DEF Traces
  <2> QED
    BY <2>0, <2>1, <2>2, <2>3, UnderwayIsWays DEF Awaited
<1> QED
  BY <1>1, <1>2, <1>3, PTL DEF Spec

=============================================================================

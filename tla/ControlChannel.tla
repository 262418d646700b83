--------------------------- MODULE ControlChannel ---------------------------
(***************************************************************************)
(* The control channel: crates/petweave/src/platform/control.rs with the   *)
(* handlers of app.rs it feeds, and the settings client                    *)
(* crates/petweave-settings/src/client.rs.                                 *)
(*                                                                         *)
(* A connection has a reader thread and a writer thread on the host.  The  *)
(* reader hands requests to the host loop through `calls`; the loop puts   *)
(* answers and events into the outbox, which the writer drains.  A client  *)
(* is single-threaded and non-blocking: one tick per frame.                *)
(*                                                                         *)
(* The pets are a version number, raised by whatever changes what          *)
(* pet_infos() says.  Sockets deliver in order; the client's outgoing      *)
(* buffer is part of the socket.  PetMoved and Status events, and the      *)
(* ListOutputs that client.rs sends behind a ListPets, are left out: they  *)
(* travel like the lines that are there and touch nothing else.            *)
(***************************************************************************)
EXTENDS Naturals, Sequences, FiniteSets

CONSTANTS
  Clients,   \* settings windows, which speak through client.rs
  Scripts,   \* other clients: `petweave control`, or one written by hand
  Conns,     \* connection slots, used again when both ends are gone
  Noise,     \* what they write: requests, "bad" (one parse_request rejects),
             \* "long" and "blank" lines
  Mishaps,   \* what may happen: "close" (a surface), "crash" (of the host),
             \* "mismatch" (of protocols), "quit" and "refresh" (of windows)
  MaxVer,    \* bound on the versions of the pets
  MaxId      \* bound on the request ids of a client

NoConn == "none"

ASSUME ControlAssumption ==
  /\ NoConn \notin Conns \cup Clients \cup Scripts /\ MaxVer \in Nat /\ MaxId \in Nat
  /\ Clients \cap Scripts = {}

\* host.untold: the last change of the pets was broadcast to nobody.
VARIABLES
  host,   \* the host process and its loop
  calls,  \* the host command channel: requests the readers handed over
  conn,   \* per slot: both ends, threads, queues and hub membership
  gui     \* per client: client.rs's Client

vars == <<host, calls, conn, gui>>

Idle == [owner |-> NoConn, client |-> FALSE, accepted |-> FALSE,
         reader |-> FALSE, writer |-> FALSE, hub |-> FALSE,
         up |-> <<>>, out |-> <<>>, down |-> <<>>]

Free(k) == conn[k].owner = NoConn

\* What pet_infos() reports.
Infos == host.ver

Request(id, op) == [id |-> id, op |-> op]
Answer(id, ok)  == [tag |-> "answer", id |-> id, ok |-> ok, pets |-> Infos]
PetsChanged(infos) == [tag |-> "pets", id |-> 0, ok |-> TRUE, pets |-> infos]

Init ==
  /\ host = [up |-> TRUE, ver |-> 1, untold |-> FALSE, exiting |-> FALSE, speaks |-> TRUE]
  /\ calls = <<>>
  /\ conn = [k \in Conns |-> Idle]
  /\ gui = [g \in Clients |->
              [state |-> "disconnected", conn |-> NoConn, next |-> 1,
               pending |-> {}, ver |-> 0]]

-----------------------------------------------------------------------------
\* Outboxes.  A send succeeds as long as the writer has not dropped its end.

\* Mutant: an outbox that drops a line while another is in it.
RespondOne(cs, k, line) ==
  IF cs[k].writer /\ cs[k].out = <<>> THEN [cs EXCEPT ![k].out = <<line>>] ELSE cs

Respond(cs, k, line) ==
  IF cs[k].writer THEN [cs EXCEPT ![k].out = Append(@, line)] ELSE cs

\* Mutant: events overtake the answers in the outbox.
BroadcastFirst(cs, line) ==
  [k \in Conns |->
     IF ~cs[k].hub THEN cs[k]
     ELSE IF cs[k].writer THEN [cs[k] EXCEPT !.out = <<line>> \o @]
     ELSE [cs[k] EXCEPT !.hub = FALSE]]

\* broadcast() prunes the clients whose writer is gone.
Broadcast(cs, line) ==
  [k \in Conns |->
     IF ~cs[k].hub THEN cs[k]
     ELSE IF cs[k].writer THEN [cs[k] EXCEPT !.out = Append(@, line)]
     ELSE [cs[k] EXCEPT !.hub = FALSE]]

Slot(k, fields) == conn' = [conn EXCEPT ![k] = fields]

\* A slot is free again when nothing of it is left on either side.
Swept(k, c, cs) ==
  IF \/ c.client \/ c.reader \/ c.writer \/ \E i \in DOMAIN cs : cs[i].conn = k
     \/ (host.up /\ ~c.accepted)
  THEN c ELSE Idle

-----------------------------------------------------------------------------
\* The host's threads.

\* accept_loop and serve_client.
Accept(k) ==
  /\ host.up /\ ~Free(k) /\ ~conn[k].accepted
  /\ Slot(k, [conn[k] EXCEPT !.accepted = TRUE, !.reader = TRUE, !.writer = TRUE, !.hub = TRUE])
  /\ UNCHANGED <<host, calls, gui>>

\* Mutant: the hub entry stays until a broadcast finds it dead.
HangupQuietly(c) == [c EXCEPT !.reader = FALSE]

\* The reader ends: the connection leaves the hub.
Hangup(c) == [c EXCEPT !.reader = FALSE, !.hub = FALSE]

\* client_read_loop, one line: a request goes to the host loop; a line that
\* parse_request rejects is answered here; an over-long line is answered and
\* ends the connection; an empty one ends it like the end of the stream.
ReadLine(k) ==
  LET c    == conn[k]
      line == Head(c.up)
      rest == [c EXCEPT !.up = Tail(@)]
      said == Respond([conn EXCEPT ![k] = rest], k, Answer(line.id, FALSE))[k]
  IN
  /\ c.reader /\ c.up # <<>>
  /\ \/ line.op \notin {"bad", "blank", "long"}
        /\ calls' = Append(calls, [conn |-> k, id |-> line.id, op |-> line.op])
        /\ Slot(k, rest)
     \/ line.op = "bad" /\ Slot(k, said) /\ UNCHANGED calls
     \/ line.op = "long" /\ Slot(k, Swept(k, Hangup(said), calls)) /\ UNCHANGED calls
     \/ line.op = "blank" /\ Slot(k, Swept(k, Hangup(rest), calls)) /\ UNCHANGED calls
  /\ UNCHANGED <<host, gui>>

\* The client, or the writer's shutdown, ended the stream.
ReadEnd(k) ==
  /\ conn[k].reader /\ conn[k].up = <<>>
  /\ ~conn[k].client \/ ~conn[k].writer
  /\ Slot(k, Swept(k, Hangup(conn[k]), calls))
  /\ UNCHANGED <<host, calls, gui>>

\* The writer thread: a line to the socket, or the end at a failed write.
Write(k) ==
  LET c == conn[k] IN
  /\ c.writer /\ c.out # <<>>
  /\ \/ c.client /\ Slot(k, [c EXCEPT !.out = Tail(@), !.down = Append(@, Head(c.out))])
     \/ ~c.client /\ Slot(k, Swept(k, [c EXCEPT !.writer = FALSE, !.out = <<>>], calls))
  /\ UNCHANGED <<host, calls, gui>>

\* Every sender is gone: hub entry, reader, and calls not yet answered.
WriteEnd(k) ==
  LET c == conn[k] IN
  /\ c.writer /\ c.out = <<>> /\ ~c.hub /\ ~c.reader
  /\ \A i \in DOMAIN calls : calls[i].conn # k
  /\ Slot(k, Swept(k, [c EXCEPT !.writer = FALSE], calls))
  /\ UNCHANGED <<host, calls, gui>>

-----------------------------------------------------------------------------
\* The host loop.

HostChanges == [host EXCEPT !.ver = @ + 1, !.untold = FALSE]

\* Mutant: the event goes out before the change.
ChangedEarly(cs) == Broadcast(cs, PetsChanged(Infos))

\* A change of the pets, then a broadcast; the caller's answer follows.
Changed(cs) == Broadcast(cs, PetsChanged(host.ver + 1))

\* handle_control: a request is applied, then answered.  Changing requests
\* may fail, without an effect; Hello fails on another protocol version.
HandleControl ==
  LET call == Head(calls)
      k    == call.conn
      rest == Tail(calls)
      done(cs) == conn' = [cs EXCEPT ![k] = Swept(k, @, rest)]
      answered(cs, ok) == done(Respond(cs, k, Answer(call.id, ok)))
  IN
  /\ host.up /\ calls # <<>> /\ calls' = rest
  /\ \/ call.op = "Hello" /\ answered(conn, host.speaks) /\ UNCHANGED host
     \/ call.op = "ListPets" /\ answered(conn, TRUE) /\ UNCHANGED host
     \/ call.op \in {"Reload", "SetPlacement"} /\ answered(conn, FALSE) /\ UNCHANGED host
     \/ call.op \in {"Reload", "SetPlacement"} /\ host.ver < MaxVer
        /\ host' = HostChanges
        /\ LET answer == [Answer(call.id, TRUE) EXCEPT !.pets = host.ver + 1]
           IN  done(Respond(Changed(conn), k, answer))
     \/ call.op = "Quit" /\ answered(conn, TRUE) /\ host' = [host EXCEPT !.exiting = TRUE]
  /\ UNCHANGED gui

\* Tray commands, the watcher's reload: every path that changes the pets ends
\* in broadcast_pets_changed.
HostChange ==
  /\ host.up /\ host.ver < MaxVer
  /\ host' = HostChanges
  /\ conn' = Changed(conn)
  /\ UNCHANGED <<calls, gui>>

\* The compositor closed a pet's surface: drop_pet tells no client.
SurfaceClosed ==
  /\ "close" \in Mishaps /\ host.up /\ host.ver < MaxVer
  /\ host' = [host EXCEPT !.ver = @ + 1, !.untold = TRUE]
  /\ UNCHANGED <<calls, conn, gui>>

\* The process ends, at exit_at or by a crash: its ends of the sockets close,
\* its queues are gone.
HostDown ==
  /\ host.up
  /\ host.exiting \/ "crash" \in Mishaps
  /\ host' = [host EXCEPT !.up = FALSE, !.exiting = FALSE, !.untold = FALSE]
  /\ calls' = <<>>
  /\ conn' = [k \in Conns |->
       IF conn[k].client
       THEN [conn[k] EXCEPT !.reader = FALSE, !.writer = FALSE, !.hub = FALSE,
                            !.accepted = TRUE, !.up = <<>>, !.out = <<>>]
       ELSE Idle]
  /\ UNCHANGED gui

\* A new host starts from its own configuration.
HostStart ==
  /\ ~host.up /\ host.ver < MaxVer
  /\ \E speaks \in (IF "mismatch" \in Mishaps THEN BOOLEAN ELSE {TRUE}) :
       host' = [host EXCEPT !.up = TRUE, !.ver = @ + 1, !.speaks = speaks]
  /\ UNCHANGED <<calls, conn, gui>>

-----------------------------------------------------------------------------
\* The client.

\* request_pending: the line goes out, the kind is remembered under its id.
Ask(c, op) == [c EXCEPT !.next = @ + 1, !.pending = @ \cup {Request(c.next, op)}]

\* Client g, having become c, sends op on the connection that is now k's.
Send(g, c, k, op) ==
  /\ gui' = [gui EXCEPT ![g] = Ask(c, op)]
  /\ Slot(c.conn, [k EXCEPT !.up = Append(@, Request(c.next, op))])

\* Ids are bounded: n are left beside those that pending answers will use.
Room(g, n) ==
  LET reloads == {r \in gui[g].pending : r.op = "Reload"}
      hellos  == {r \in gui[g].pending : r.op = "Hello"}
  IN  gui[g].next + n + Cardinality(reloads) + Cardinality(hellos) <= MaxId + 1

FreeSlot == CHOOSE k \in Conns : Free(k)

\* connect(), at startup and every RECONNECT_INTERVAL.  Without a host it
\* fails and leaves the client as it was.
Connect(g) ==
  /\ host.up /\ gui[g].state = "disconnected" /\ Room(g, 2) /\ \E k \in Conns : Free(k)
  /\ Send(g, [gui[g] EXCEPT !.conn = FreeSlot, !.state = "connecting", !.pending = {}],
             [Idle EXCEPT !.owner = g, !.client = TRUE], "Hello")
  /\ UNCHANGED <<host, calls>>

\* reload() after a save, set_placement() while a pet is dragged on the
\* canvas: both only once the handshake is done.
ClientRequest(g) ==
  /\ gui[g].state = "connected"
  /\ LET send(op) == Send(g, gui[g], conn[gui[g].conn], op) IN
     \/ Room(g, 2) /\ send("Reload")
     \/ Room(g, 1) /\ send("SetPlacement")
     \/ "refresh" \in Mishaps /\ Room(g, 2) /\ send("ListPets")
  /\ UNCHANGED <<host, calls>>

\* One line handled by a tick: apply_event, or apply_response with the
\* requests it causes.  An answer to no pending request changes nothing.
Receive(g) ==
  LET k    == gui[g].conn
      line == Head(conn[k].down)
      rest == [conn[k] EXCEPT !.down = Tail(@)]
      mine == {r \in gui[g].pending : line.tag = "answer" /\ r.id = line.id}
      op   == IF mine = {} THEN "none" ELSE (CHOOSE r \in mine : TRUE).op
      c    == [gui[g] EXCEPT !.pending = @ \ mine]
      shows == [c EXCEPT !.ver = line.pets]
      told(d) == gui' = [gui EXCEPT ![g] = d] /\ Slot(k, rest)
  IN
  /\ k # NoConn /\ conn[k].down # <<>>
  /\ \/ line.tag = "pets" /\ told(shows)
     \/ line.tag = "answer" /\ ~line.ok
        /\ told(IF op = "Hello" THEN [c EXCEPT !.state = "mismatch"] ELSE c)
     \/ line.tag = "answer" /\ line.ok
        /\ \/ op = "Hello" /\ Send(g, [c EXCEPT !.state = "connected"], rest, "ListPets")
           \/ op = "ListPets" /\ told(shows)
           \/ op = "Reload" /\ Send(g, c, rest, "ListPets")
           \/ op \in {"SetPlacement", "none"} /\ told(c)
  /\ UNCHANGED <<host, calls>>

\* Mutant: what was asked on the connection is still awaited.
DroppedWaiting(g) == [gui[g] EXCEPT !.conn = NoConn, !.state = "disconnected"]

Dropped(g) == [gui[g] EXCEPT !.conn = NoConn, !.state = "disconnected", !.pending = {}]

\* A tick that meets the end of the stream, reading or writing, drops the
\* connection and with it the lines it read in the same tick.
EndOfStream(g) ==
  LET k == gui[g].conn IN
  /\ k # NoConn /\ conn[k].accepted /\ ~conn[k].writer
  /\ gui' = [gui EXCEPT ![g] = Dropped(g)]
  /\ Slot(k, Swept(k, [conn[k] EXCEPT !.client = FALSE, !.down = <<>>], calls))
  /\ UNCHANGED <<host, calls>>

\* The window is closed for good: one opened later is another client.
CloseWindow(g) ==
  LET k == gui[g].conn IN
  /\ "quit" \in Mishaps /\ k # NoConn
  /\ gui' = [gui EXCEPT ![g] = [Dropped(g) EXCEPT !.state = "closed"]]
  /\ Slot(k, Swept(k, [conn[k] EXCEPT !.client = FALSE, !.down = <<>>], calls))
  /\ UNCHANGED <<host, calls>>

\* `petweave control` (which rejects "blank" itself, unlike a client written
\* by hand): one line, then events are skipped until an answer, whatever its
\* id, ends the program; so does the end of the stream.
ScriptRuns(x) ==
  /\ host.up /\ \E k \in Conns : Free(k)
  /\ \A k \in Conns : conn[k].owner # x
  /\ \E op \in Noise :
       Slot(FreeSlot, [Idle EXCEPT !.owner = x, !.client = TRUE, !.up = <<Request(0, op)>>])
  /\ UNCHANGED <<host, calls, gui>>

ScriptReads(k) ==
  LET c == conn[k] IN
  /\ c.owner \in Scripts /\ c.client
  /\ \/ c.down # <<>> /\ Head(c.down).tag # "answer" /\ Slot(k, [c EXCEPT !.down = Tail(@)])
     \/ /\ IF c.down = <<>> THEN c.accepted /\ ~c.writer ELSE Head(c.down).tag = "answer"
        /\ Slot(k, Swept(k, [c EXCEPT !.client = FALSE, !.down = <<>>], calls))
  /\ UNCHANGED <<host, calls, gui>>

Reader(k) == ReadLine(k) \/ ReadEnd(k)
Writer(k) == Write(k) \/ WriteEnd(k)
Tick(g)   == Receive(g) \/ EndOfStream(g)

Next ==
  \/ \E k \in Conns : Accept(k) \/ Reader(k) \/ Writer(k) \/ ScriptReads(k)
  \/ HandleControl \/ HostChange \/ SurfaceClosed
  \/ HostDown \/ HostStart
  \/ \E g \in Clients : Connect(g) \/ ClientRequest(g) \/ Tick(g) \/ CloseWindow(g)
  \/ \E x \in Scripts : ScriptRuns(x)

Spec == Init /\ [][Next]_vars

\* Every thread runs; the host loop dispatches its channel; a window ticks its
\* client each frame.  Nobody has to connect, to request or to change pets.
Fairness ==
  /\ \A k \in Conns : /\ WF_vars(Accept(k)) /\ WF_vars(Reader(k)) /\ WF_vars(Writer(k))
                      /\ WF_vars(ScriptReads(k))
  /\ WF_vars(HandleControl)
  /\ \A g \in Clients : WF_vars(Tick(g))

FairSpec == Spec /\ Fairness

-----------------------------------------------------------------------------
\* Where request id of connection k is: on its way to the loop or back.
Underway(k, id) ==
  Cardinality({i \in DOMAIN conn[k].up : conn[k].up[i].id = id})
  + Cardinality({i \in DOMAIN calls : calls[i].conn = k /\ calls[i].id = id})
  + Cardinality({i \in DOMAIN conn[k].out : conn[k].out[i].id = id})
  + Cardinality({i \in DOMAIN conn[k].down : conn[k].down[i].id = id})

\* No request is lost or answered twice while the connection lasts: what a
\* client waits for is in exactly one of the four queues between it and the
\* host loop and back (client.rs `pending`, control.rs reader, channel, outbox).
PendingUnderway ==
  \A g \in Clients :
    LET k == gui[g].conn IN
    k # NoConn /\ (conn[k].writer \/ ~conn[k].accepted) =>
      \A id \in 1 .. MaxId :
        Underway(k, id) = IF \E r \in gui[g].pending : r.id = id THEN 1 ELSE 0

\* Nothing on the way to or from client g.
Quiet(g) ==
  LET k == gui[g].conn IN
  /\ host.up /\ k # NoConn /\ conn[k].writer
  /\ gui[g].state = "connected" /\ gui[g].pending = {}
  /\ conn[k].out = <<>> /\ conn[k].down = <<>>

\* A connected client for which nothing is under way shows the pets as they
\* are: every change but a closed surface is followed by an event, behind
\* whatever was queued before it (app.rs broadcast_pets_changed).
QuietViewIsCurrent ==
  \A g \in Clients : Quiet(g) /\ ~host.untold => gui[g].ver = host.ver

\* The view of each client only moves forward through the host's states,
\* although answers, events and reconnects interleave.
M == INSTANCE Mirror WITH world <- host.ver, seen <- [g \in Clients |-> gui[g].ver]
ImplementsMirror == M!Spec

\* Every request of a client is answered, or given up with its connection.
RequestsAnswered ==
  \A g \in Clients : (gui[g].pending # {}) ~> (gui[g].pending = {})

\* Clients that went away are forgotten, threads and queues, whether or not
\* anything is broadcast again.
GoneClientsForgotten ==
  (\E k \in Conns : ~Free(k) /\ ~conn[k].client)
    ~> \A k \in Conns : Free(k) \/ conn[k].client
=============================================================================

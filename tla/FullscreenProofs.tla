-------------------------- MODULE FullscreenProofs --------------------------
(***************************************************************************)
(* Theorems about Fullscreen.                                              *)
(*                                                                         *)
(* What the tracker will know is what it makes of the events that are      *)
(* still queued, one after the other.  Instead of computing it, which      *)
(* would need induction over the queue, the invariant says that there is a *)
(* path: the entries the tracker has now, the ones after the first event,  *)
(* and so on, ending with entries that agree with the desktop.  A burst    *)
(* makes the path longer, a dispatch takes its first step.                 *)
(***************************************************************************)
EXTENDS Fullscreen, SequenceTheorems, TLAPS

Entries == [tracked : BOOLEAN, full : BOOLEAN, active : BOOLEAN, saw : BOOLEAN,
            output : Outputs \cup {NoOutput}]

AboutOutputs == [kind : {"enter", "leave"}, win : Windows, output : Outputs]

AboutWindows == [kind : {"toplevel", "closed"}, win : Windows]
                \cup [kind : {"state"}, win : Windows, full : BOOLEAN, active : BOOLEAN]

\* What this compositor sends of a window, and all it sends.
Messages == IF reports THEN AboutWindows \cup AboutOutputs ELSE AboutWindows
Sendable == Messages \cup [kind : {"finished"}]

Typed == TypeOK /\ events \in Seq(Sendable)

-----------------------------------------------------------------------------
\* Typing

LEMMA MessageFacts ==
  ASSUME NEW w \in Windows
  PROVE  /\ \A f, a \in BOOLEAN : State(w, f, a) \in Messages
         /\ [kind |-> "toplevel", win |-> w] \in Messages
         /\ [kind |-> "closed", win |-> w] \in Messages
         /\ \A o \in Outputs : reports => Enter(w, o) \in Messages /\ Leave(w, o) \in Messages
  BY DEF Messages, AboutWindows, AboutOutputs, State, Enter, Leave

LEMMA MessageKinds ==
  /\ \A e \in Sendable : e.kind \in EventKinds
  /\ \A e \in Sendable : e.kind # "finished" => e \in Messages
  /\ \A e \in Messages : e.win \in Windows /\ e.kind # "finished"
  /\ \A e \in Messages : e.kind = "state" => e.full \in BOOLEAN /\ e.active \in BOOLEAN
  /\ \A e \in Messages : e.kind \in {"enter", "leave"} => reports /\ e.output \in Outputs
  BY DEF Sendable, Messages, AboutWindows, AboutOutputs, EventKinds

\* An entry stays an entry, and only an output event makes it know an output.
LEMMA EntryFacts ==
  ASSUME NEW t \in Entries, NEW e \in Messages
  PROVE  /\ Entry(t, e) \in Entries
         /\ (t.output # NoOutput => t.saw) =>
              (Entry(t, e).output # NoOutput => Entry(t, e).saw)
         /\ Entry(t, e).saw => t.saw \/ e.kind = "enter"
<1>1. e.kind \in {"toplevel", "closed", "enter", "leave", "state"}
  BY DEF Messages, AboutWindows, AboutOutputs
<1>2. CASE e.kind = "toplevel" \/ e.kind = "closed" \/ ~t.tracked
  <2>1. Entry(t, e) \in {Unknown, Untracked}
    <3>1. CASE e.kind = "toplevel"
      BY <3>1, Zenon DEF Entry
    <3>2. CASE e.kind = "closed"
      BY <3>2, Zenon DEF Entry
    <3>3. CASE ~t.tracked /\ e.kind \in {"enter", "leave", "state"}
      BY <3>3, Zenon DEF Entry
    <3> QED
      BY <1>1, <1>2, <3>1, <3>2, <3>3
  <2>2. Unknown \in Entries /\ Unknown.saw = FALSE /\ Unknown.output = NoOutput
    BY DEF Unknown, Entries
  <2>3. Untracked \in Entries /\ Untracked.saw = FALSE /\ Untracked.output = NoOutput
    BY DEF Unknown, Untracked, Entries
  <2> QED
    BY <2>1, <2>2, <2>3
<1>3. CASE e.kind = "enter" /\ t.tracked
  <2>1. Entry(t, e) = [t EXCEPT !.output = e.output, !.saw = TRUE]
    BY <1>3 DEF Entry
  <2>2. e.output \in Outputs
    BY <1>3, MessageKinds
  <2> QED
    BY <2>1, <2>2, <1>3 DEF Entries
<1>4. CASE e.kind = "leave" /\ t.tracked
  <2>1. Entry(t, e) = [t EXCEPT !.output = IF @ = e.output THEN NoOutput ELSE @]
    BY <1>4 DEF Entry
  <2> QED
    BY <2>1, <1>4 DEF Entries
<1>5. CASE e.kind = "state" /\ t.tracked
  <2>1. Entry(t, e) = [t EXCEPT !.full = e.full, !.active = e.active]
    BY <1>5 DEF Entry
  <2>2. e.full \in BOOLEAN /\ e.active \in BOOLEAN
    BY <1>5, MessageKinds
  <2> QED
    BY <2>1, <2>2, <1>5 DEF Entries
<1> QED
  BY <1>1, <1>2, <1>3, <1>4, <1>5

LEMMA QueueFacts ==
  ASSUME NEW evs \in Seq(Sendable)
  PROVE  /\ \A e \in Sendable : Append(evs, e) \in Seq(Sendable)
         /\ evs # <<>> => Head(evs) \in Sendable /\ Tail(evs) \in Seq(Sendable)
         /\ evs \o <<>> = evs
         /\ \A a \in Sendable : evs \o <<a>> = Append(evs, a)
         /\ \A a, b \in Sendable : evs \o <<a, b>> = Append(Append(evs, a), b)
         /\ \A a, b, c \in Sendable :
              evs \o <<a, b, c>> = Append(Append(Append(evs, a), b), c)
  OBVIOUS

LEMMA InitTyped == Init => Typed
<1> SUFFICES ASSUME Init PROVE Typed
  OBVIOUS
<1>1. desk \in [Windows -> [open : BOOLEAN, on : SUBSET Outputs, full : BOOLEAN, active : BOOLEAN]]
  BY DEF Init, NoWindow
<1>2. /\ toplevels \in [Windows -> Entries]
      /\ \A w \in Windows : toplevels[w].output = NoOutput /\ toplevels[w].saw = FALSE
  BY DEF Init, Unknown, Untracked, Entries
<1>3. {serving, reports} \subseteq BOOLEAN /\ home \in Outputs /\ named \in BOOLEAN
  BY DEF Init
<1>4. events = <<>> /\ sends = FALSE /\ hidden = FALSE
  BY DEF Init
<1>5. \A i \in DOMAIN events : events[i].kind \in EventKinds
  BY <1>4
<1>6. events \in Seq(Sendable)
  BY <1>4
<1> QED
  BY <1>1, <1>2, <1>3, <1>4, <1>5, <1>6 DEF Typed, TypeOK, Entries

\* The desktop changes and a burst is sent: the tracker stays as it is.
LEMMA SendTyped ==
  ASSUME Typed, NEW burst \in Seq(Messages), Send(burst),
         desk' \in [Windows -> [open : BOOLEAN, on : SUBSET Outputs, full : BOOLEAN,
                                active : BOOLEAN]]
  PROVE  Typed'
<1>1. Messages' = Messages /\ Sendable' = Sendable /\ burst \in Seq(Sendable)
  BY DEF Send, Messages, Sendable
<1>2. events' \in Seq(Sendable) /\ events' = events \o burst
  BY <1>1 DEF Send, Typed
<1>3. \A i \in DOMAIN events' : events'[i].kind \in EventKinds
  <2> TAKE i \in DOMAIN events'
  <2>1. events'[i] \in Sendable
    BY <1>2
  <2> QED
    BY <2>1, MessageKinds
<1> QED
  BY <1>1, <1>2, <1>3 DEF Send, Typed, TypeOK, tracker

LEMMA WindowTyped ==
  ASSUME Typed, NEW w \in Windows, NEW o \in Outputs, NEW p \in Outputs,
         NEW f \in BOOLEAN, NEW a \in BOOLEAN,
         \/ OpenWindow(w, o) \/ CloseWindow(w) \/ ChangeState(w, f, a) \/ MoveWindow(w, o, p)
         \/ Minimise(w, o) \/ Restore(w, o) \/ Straddle(w, o) \/ Retreat(w, o)
  PROVE  Typed'
<1> DEFINE Desks == [open : BOOLEAN, on : SUBSET Outputs, full : BOOLEAN, active : BOOLEAN]
<1>1. desk \in [Windows -> Desks]
  BY DEF Typed, TypeOK
<1>2. desk[w] \in Desks /\ NoWindow \in Desks
  BY <1>1 DEF NoWindow
<1>3. /\ \A s \in Messages : <<s>> \in Seq(Messages)
      /\ \A s, t \in Messages : <<s, t>> \in Seq(Messages)
      /\ \A s, t, u \in Messages : <<s, t, u>> \in Seq(Messages)
      /\ <<>> \in Seq(Messages)
  OBVIOUS
<1>4. /\ IfReported(<<Enter(w, o)>>) \in Seq(Messages)
      /\ IfReported(<<Leave(w, o)>>) \in Seq(Messages)
      /\ IfReported(<<Leave(w, o), Enter(w, p)>>) \in Seq(Messages)
      /\ IfReported(<<Enter(w, p), Leave(w, o)>>) \in Seq(Messages)
  BY <1>3, MessageFacts DEF IfReported
<1>5. /\ \A s \in Messages : IfReported(<<Enter(w, o)>>) \o <<s>> \in Seq(Messages)
      /\ \A s \in Messages : IfReported(<<Leave(w, o)>>) \o <<s>> \in Seq(Messages)
      /\ \A s, t \in Messages : <<s>> \o IfReported(<<Enter(w, o)>>) \o <<t>> \in Seq(Messages)
  BY <1>4, <1>3
<1>6. /\ \A g, b \in BOOLEAN : State(w, g, b) \in Messages
      /\ [kind |-> "toplevel", win |-> w] \in Messages
      /\ [kind |-> "closed", win |-> w] \in Messages
  BY MessageFacts
<1>7. CASE OpenWindow(w, o)
  <2>1. desk' \in [Windows -> Desks]
    BY <1>1, <1>2, <1>7 DEF OpenWindow, NoWindow
  <2>2. PICK s \in Seq(Messages) : Send(s)
    BY <1>5, <1>6, <1>7 DEF OpenWindow
  <2> QED
    BY <2>1, <2>2, SendTyped
<1>8. CASE CloseWindow(w)
  <2>1. desk' \in [Windows -> Desks]
    BY <1>1, <1>2, <1>8 DEF CloseWindow
  <2>2. PICK s \in Seq(Messages) : Send(s)
    BY <1>3, <1>6, <1>8 DEF CloseWindow
  <2> QED
    BY <2>1, <2>2, SendTyped
<1>9. CASE ChangeState(w, f, a)
  <2>1. desk' \in [Windows -> Desks]
    BY <1>1, <1>2, <1>9 DEF ChangeState
  <2>2. PICK s \in Seq(Messages) : Send(s)
    BY <1>3, <1>6, <1>9 DEF ChangeState
  <2> QED
    BY <2>1, <2>2, SendTyped
<1>10. CASE MoveWindow(w, o, p)
  <2>1. desk' \in [Windows -> Desks]
    BY <1>1, <1>2, <1>10 DEF MoveWindow
  <2>2. PICK s \in Seq(Messages) : Send(s)
    BY <1>4, <1>10 DEF MoveWindow
  <2> QED
    BY <2>1, <2>2, SendTyped
<1>11. CASE Minimise(w, o)
  <2>1. desk' \in [Windows -> Desks]
    BY <1>1, <1>2, <1>11 DEF Minimise
  <2>2. PICK s \in Seq(Messages) : Send(s)
    BY <1>2, <1>5, <1>6, <1>11 DEF Minimise
  <2> QED
    BY <2>1, <2>2, SendTyped
<1>12. CASE Restore(w, o)
  <2>1. desk' \in [Windows -> Desks]
    BY <1>1, <1>2, <1>12 DEF Restore
  <2>2. PICK s \in Seq(Messages) : Send(s)
    BY <1>2, <1>5, <1>6, <1>12 DEF Restore
  <2> QED
    BY <2>1, <2>2, SendTyped
<1>13. CASE Straddle(w, o)
  <2>1. desk' \in [Windows -> Desks]
    BY <1>1, <1>2, <1>13 DEF Straddle
  <2>2. PICK s \in Seq(Messages) : Send(s)
    BY <1>4, <1>13 DEF Straddle
  <2> QED
    BY <2>1, <2>2, SendTyped
<1>14. CASE Retreat(w, o)
  <2>1. desk' \in [Windows -> Desks]
    BY <1>1, <1>2, <1>14 DEF Retreat
  <2>2. PICK s \in Seq(Messages) : Send(s)
    BY <1>4, <1>14 DEF Retreat
  <2> QED
    BY <2>1, <2>2, SendTyped
<1> QED
  BY <1>7, <1>8, <1>9, <1>10, <1>11, <1>12, <1>13, <1>14

\* The tracker's state after an event, from any entries.
Advance(ts, e) ==
  IF e.kind = "finished" THEN [w \in Windows |-> Untracked]
  ELSE [ts EXCEPT ![e.win] = Entry(@, e)]

LEMMA AdvanceFacts ==
  ASSUME NEW ts \in [Windows -> Entries], NEW e \in Sendable
  PROVE  /\ Advance(ts, e) \in [Windows -> Entries]
         /\ e.kind = "finished" => \A w \in Windows : Advance(ts, e)[w] = Untracked
         /\ e.kind # "finished" =>
              /\ e \in Messages /\ e.win \in Windows
              /\ Advance(ts, e)[e.win] = Entry(ts[e.win], e)
              /\ \A w \in Windows \ {e.win} : Advance(ts, e)[w] = ts[w]
<1>1. CASE e.kind = "finished"
  <2>1. Untracked \in Entries
    BY DEF Unknown, Untracked, Entries
  <2> QED
    BY <1>1, <2>1 DEF Advance
<1>2. CASE e.kind # "finished"
  <2>1. e \in Messages /\ e.win \in Windows
    BY <1>2, MessageKinds
  <2>2. Entry(ts[e.win], e) \in Entries
    BY <2>1, EntryFacts
  <2> QED
    BY <1>2, <2>1, <2>2 DEF Advance
<1> QED
  BY <1>1, <1>2

LEMMA DispatchTyped ==
  ASSUME Typed, Dispatch
  PROVE  Typed'
<1> DEFINE e == Head(events)
<1>1. e \in Sendable /\ Tail(events) \in Seq(Sendable)
  BY QueueFacts DEF Typed, Dispatch
<1>2. Messages' = Messages /\ Sendable' = Sendable
  BY DEF Dispatch, compositor, Messages, Sendable
<1>3. toplevels \in [Windows -> Entries]
  BY DEF Typed, TypeOK, Entries
<1>4. toplevels' = Advance(toplevels, e)
  BY DEF Dispatch, Updated, Advance
<1>5. toplevels' \in [Windows -> Entries]
  BY <1>1, <1>3, <1>4, AdvanceFacts
<1>6. events' \in Seq(Sendable)
  BY <1>1 DEF Dispatch
<1>7. \A i \in DOMAIN events' : events'[i].kind \in EventKinds
  <2> TAKE i \in DOMAIN events'
  <2>1. events'[i] \in Sendable
    BY <1>6
  <2> QED
    BY <2>1, MessageKinds
<1>8. sends' = (sends \/ e.kind = "enter")
  BY DEF Dispatch
<1>9. \A w \in Windows : (toplevels'[w].output # NoOutput => toplevels'[w].saw)
                         /\ (toplevels'[w].saw => sends')
  <2> TAKE w \in Windows
  <2>1. /\ toplevels[w] \in Entries
        /\ toplevels[w].output # NoOutput => toplevels[w].saw
        /\ toplevels[w].saw => sends
    BY <1>3 DEF Typed, TypeOK
  <2>2. CASE e.kind = "finished"
    <3>1. toplevels'[w] = Untracked
      BY <2>2, <1>1, <1>3, <1>4, AdvanceFacts
    <3> QED
      BY <3>1 DEF Unknown, Untracked
  <2>3. CASE e.kind # "finished" /\ w # e.win
    <3>1. toplevels'[w] = toplevels[w]
      BY <2>3, <1>1, <1>3, <1>4, AdvanceFacts
    <3>2. toplevels'[w].output # NoOutput => toplevels'[w].saw
      BY <3>1, <2>1
    <3>3. toplevels'[w].saw => sends'
      BY <3>1, <2>1, <1>8
    <3> QED
      BY <3>2, <3>3
  <2>4. CASE e.kind # "finished" /\ w = e.win
    <3>1. toplevels'[w] = Entry(toplevels[w], e) /\ e \in Messages
      BY <2>4, <1>1, <1>3, <1>4, AdvanceFacts
    <3>2. PICK t \in Entries : t = toplevels[w]
      BY <2>1
    <3>3. /\ toplevels'[w] = Entry(t, e)
          /\ t.output # NoOutput => t.saw
          /\ t.saw => sends
      BY <3>1, <3>2, <2>1
    <3>4. toplevels'[w].output # NoOutput => toplevels'[w].saw
      BY <3>1, <3>3, EntryFacts
    <3>5. toplevels'[w].saw => t.saw \/ e.kind = "enter"
      BY <3>1, <3>3, EntryFacts
    <3> QED
      BY <3>3, <3>4, <3>5, <1>8
  <2> QED
    BY <2>2, <2>3, <2>4
<1>10. sends' \in BOOLEAN /\ (sends' => reports)
  <2>1. e.kind = "enter" => reports
    BY <1>1, MessageKinds
  <2>2. sends \in BOOLEAN /\ (sends => reports)
    BY DEF Typed, TypeOK
  <2> QED
    BY <2>1, <2>2, <1>8
<1>11. hidden' \in BOOLEAN
  <2>1. hidden' = Hides(Updated(e), sends \/ e.kind = "enter")
    BY DEF Dispatch
  <2> QED
    BY <2>1, Zenon DEF Hides
<1>12. /\ desk' = desk /\ serving' = serving /\ reports' = reports /\ home' = home /\ named' = named
  BY DEF Dispatch, compositor
<1>13. /\ desk \in [Windows -> [open : BOOLEAN, on : SUBSET Outputs, full : BOOLEAN, active : BOOLEAN]]
       /\ {serving, reports} \subseteq BOOLEAN /\ home \in Outputs /\ named \in BOOLEAN
  BY DEF Typed, TypeOK
<1> HIDE DEF e
<1>14. (\A i \in DOMAIN events : events[i].kind \in EventKinds)'
  BY <1>7
<1> QED
  BY <1>2, <1>5, <1>6, <1>7, <1>9, <1>10, <1>11, <1>12, <1>13 DEF Typed, TypeOK, Entries

LEMMA NextTyped ==
  ASSUME Typed, [Next]_vars
  PROVE  Typed'
<1>1. CASE Desktop
  BY <1>1, WindowTyped, FullscreenAssumption DEF Desktop
<1>2. CASE Withdraw
  <2>1. events' = Append(events, [kind |-> "finished"])
    BY <1>2 DEF Withdraw
  <2>2. Messages' = Messages /\ Sendable' = Sendable /\ [kind |-> "finished"] \in Sendable
    BY <1>2 DEF Withdraw, Messages, Sendable
  <2>3. events' \in Seq(Sendable)
    BY <2>1, <2>2, QueueFacts DEF Typed
  <2>4. \A i \in DOMAIN events' : events'[i].kind \in EventKinds
    <3> TAKE i \in DOMAIN events'
    <3>1. events'[i] \in Sendable
      BY <2>3
    <3> QED
      BY <3>1, MessageKinds
  <2> QED
    BY <2>2, <2>3, <2>4, <1>2 DEF Withdraw, Typed, TypeOK, tracker
<1>3. CASE Dispatch
  BY <1>3, DispatchTyped
<1>4. ASSUME NEW o \in Outputs, Rebind(o) PROVE Typed'
  <2>1. Messages' = Messages /\ Sendable' = Sendable
    BY <1>4 DEF Rebind, compositor, Messages, Sendable
  <2> QED
    BY <2>1, <1>4 DEF Rebind, compositor, tracker, Typed, TypeOK
<1>5. CASE UNCHANGED vars
  <2>1. Messages' = Messages /\ Sendable' = Sendable
    BY <1>5 DEF vars, Messages, Sendable
  <2> QED
    BY <2>1, <1>5 DEF vars, Typed, TypeOK
<1> QED
  BY <1>1, <1>2, <1>3, <1>4, <1>5 DEF Next

LEMMA TypedHolds == Spec => []Typed
<1>1. Typed /\ [Next]_vars => Typed'
  BY NextTyped
<1> QED
  BY InitTyped, <1>1, PTL DEF Spec

\* Every reachable state of tracker and desktop is well typed: the tracker
\* knows an output only from an output event, which it remembers having seen,
\* and which only a compositor that reports outputs sends (fullscreen.rs
\* ToplevelState, compositor_sends_output_events).
THEOREM Typing == Spec => []TypeOK
<1>1. Typed => TypeOK
  BY DEF Typed
<1> QED
  BY TypedHolds, <1>1, PTL

-----------------------------------------------------------------------------
\* Paths

\* Handling evs one by one takes the tracker from the entries ts to end.
Leads(ts, evs, end) ==
  \E path \in [0 .. Len(evs) -> [Windows -> Entries]] :
    /\ path[0] = ts /\ path[Len(evs)] = end
    /\ \A i \in 1 .. Len(evs) : path[i] = Advance(path[i - 1], evs[i])

\* Nothing leads elsewhere only by nothing.
LEMMA LeadsNowhere ==
  ASSUME NEW ts \in [Windows -> Entries]
  PROVE  /\ Leads(ts, <<>>, ts)
         /\ \A end : Leads(ts, <<>>, end) => end = ts
<1>1. Leads(ts, <<>>, ts)
  <2> DEFINE path == [i \in 0 .. 0 |-> ts]
  <2>1. path \in [0 .. Len(<<>>) -> [Windows -> Entries]] /\ path[0] = ts /\ path[Len(<<>>)] = ts
    OBVIOUS
  <2>2. Len(<<>>) = 0 /\ \A i \in 1 .. Len(<<>>) : FALSE
    OBVIOUS
  <2> HIDE DEF path
  <2> QED
    BY <2>1, <2>2, Zenon DEF Leads
<1>2. ASSUME NEW end, Leads(ts, <<>>, end)
      PROVE  end = ts
  <2>1. Len(<<>>) = 0
    OBVIOUS
  <2>2. PICK path : path[0] = ts /\ path[Len(<<>>)] = end
    BY <1>2, Zenon DEF Leads
  <2> QED
    BY <2>1, <2>2
<1> QED
  BY <1>1, <1>2

LEMMA LeadsOn ==
  ASSUME NEW ts, NEW evs \in Seq(Sendable), NEW end, Leads(ts, evs, end), NEW e \in Sendable
  PROVE  Leads(ts, Append(evs, e), Advance(end, e))
<1> DEFINE n == Len(evs)
           more == Append(evs, e)
           last == Advance(end, e)
<1>1. PICK path \in [0 .. n -> [Windows -> Entries]] :
        /\ path[0] = ts /\ path[n] = end
        /\ \A i \in 1 .. n : path[i] = Advance(path[i - 1], evs[i])
  BY DEF Leads
<1>2. n \in Nat /\ Len(more) = n + 1 /\ more[n + 1] = e /\ \A i \in 1 .. n : more[i] = evs[i]
  OBVIOUS
<1>3. last \in [Windows -> Entries]
  BY <1>1, <1>2, AdvanceFacts
<1> DEFINE longer == [i \in 0 .. n + 1 |-> IF i = n + 1 THEN last ELSE path[i]]
<1> HIDE DEF n, more, last
<1>4. longer \in [0 .. n + 1 -> [Windows -> Entries]]
  BY <1>1, <1>2, <1>3
<1>5. longer[0] = ts /\ longer[n + 1] = last
  BY <1>1, <1>2
<1>6. \A i \in 1 .. n + 1 : longer[i] = Advance(longer[i - 1], more[i])
  <2> TAKE i \in 1 .. n + 1
  <2>1. CASE i = n + 1
    <3>1. longer[i] = last /\ longer[i - 1] = path[n] /\ more[i] = e
      BY <2>1, <1>2
    <3> QED
      BY <3>1, <1>1 DEF last
  <2>2. CASE i \in 1 .. n
    <3>1. longer[i] = path[i] /\ longer[i - 1] = path[i - 1] /\ more[i] = evs[i]
      BY <2>2, <1>2
    <3> QED
      BY <3>1, <2>2, <1>1
  <2> QED
    BY <2>1, <2>2, <1>2
<1> HIDE DEF longer
<1>7. \E p \in [0 .. Len(more) -> [Windows -> Entries]] :
        /\ p[0] = ts /\ p[Len(more)] = last
        /\ \A i \in 1 .. Len(more) : p[i] = Advance(p[i - 1], more[i])
  BY <1>2, <1>4, <1>5, <1>6
<1> QED
  BY <1>7 DEF Leads, more, last

LEMMA LeadsFromNext ==
  ASSUME NEW ts, NEW evs \in Seq(Sendable), evs # <<>>, NEW end, Leads(ts, evs, end)
  PROVE  Leads(Advance(ts, Head(evs)), Tail(evs), end)
<1> DEFINE n == Len(evs)
           fewer == Tail(evs)
<1>1. PICK path \in [0 .. n -> [Windows -> Entries]] :
        /\ path[0] = ts /\ path[n] = end
        /\ \A i \in 1 .. n : path[i] = Advance(path[i - 1], evs[i])
  BY DEF Leads
<1>2. /\ n \in Nat \ {0} /\ Len(fewer) = n - 1 /\ Head(evs) = evs[1]
      /\ \A i \in 1 .. n - 1 : fewer[i] = evs[i + 1]
  OBVIOUS
<1> HIDE DEF n, fewer
<1> DEFINE rest == [i \in 0 .. n - 1 |-> path[i + 1]]
<1>3. rest \in [0 .. n - 1 -> [Windows -> Entries]]
  BY <1>1, <1>2
<1>4. rest[0] = path[1] /\ rest[n - 1] = end
  BY <1>1, <1>2
<1>5. path[1] = Advance(ts, Head(evs))
  BY <1>1, <1>2
<1>6. \A i \in 1 .. n - 1 : rest[i] = Advance(rest[i - 1], fewer[i])
  <2> TAKE i \in 1 .. n - 1
  <2>1. rest[i] = path[i + 1] /\ rest[i - 1] = path[i] /\ fewer[i] = evs[i + 1] /\ i + 1 \in 1 .. n
    BY <1>2
  <2>2. path[i + 1] = Advance(path[(i + 1) - 1], evs[i + 1])
    BY <2>1, <1>1
  <2>3. (i + 1) - 1 = i
    OBVIOUS
  <2> QED
    BY <2>1, <2>2, <2>3
<1> HIDE DEF rest
<1> QED
  BY <1>2, <1>3, <1>4, <1>5, <1>6 DEF Leads, fewer

-----------------------------------------------------------------------------
\* What the tracker will know agrees with the desktop.

\* Once the list is withdrawn nothing is tracked any more.
Agrees(w, t) ==
  IF serving /\ desk[w].open
  THEN /\ t.tracked = TRUE /\ t.full = desk[w].full /\ t.active = desk[w].active
       /\ t.saw = reports
       /\ reports => desk[w].on = {t.output} \ {NoOutput}
  ELSE t = Untracked

Follows == \E end \in [Windows -> Entries] :
             Leads(toplevels, events, end) /\ \A w \in Windows : Agrees(w, end[w])

\* The verdict is about the entries there are.
IInv == /\ Typed /\ Follows
        /\ hidden = Hides(toplevels, sends)
        /\ reports => named

\* The queue evs makes of window w the entry t, and of the others what they are.
Makes(evs, w, t) ==
  \E end \in [Windows -> Entries] :
    /\ Leads(toplevels, evs, end) /\ end[w] = t
    /\ \A v \in Windows \ {w} : Agrees(v, end[v])

LEMMA MakesMore ==
  ASSUME NEW evs \in Seq(Sendable), NEW w \in Windows, NEW t \in Entries, Makes(evs, w, t),
         NEW e \in Messages, e.win = w
  PROVE  Makes(Append(evs, e), w, Entry(t, e)) /\ Entry(t, e) \in Entries
<1>1. PICK end \in [Windows -> Entries] :
        /\ Leads(toplevels, evs, end) /\ end[w] = t
        /\ \A v \in Windows \ {w} : Agrees(v, end[v])
  BY DEF Makes
<1>2. e \in Sendable /\ e.kind # "finished"
  BY MessageKinds DEF Sendable
<1> DEFINE next == Advance(end, e)
<1>3. /\ next \in [Windows -> Entries] /\ next[w] = Entry(t, e)
      /\ \A v \in Windows \ {w} : next[v] = end[v]
  BY <1>1, <1>2, AdvanceFacts
<1>4. Leads(toplevels, Append(evs, e), next)
  BY <1>1, <1>2, LeadsOn
<1>5. Entry(t, e) \in Entries
  BY EntryFacts
<1> HIDE DEF next
<1> QED
  BY <1>1, <1>3, <1>4, <1>5 DEF Makes

LEMMA MakesNow ==
  ASSUME Follows, NEW w \in Windows
  PROVE  \E t \in Entries : Agrees(w, t) /\ Makes(events, w, t)
<1>1. PICK end \in [Windows -> Entries] :
        Leads(toplevels, events, end) /\ \A v \in Windows : Agrees(v, end[v])
  BY DEF Follows
<1>2. end[w] \in Entries /\ Agrees(w, end[w]) /\ Makes(events, w, end[w])
  BY <1>1 DEF Makes
<1> QED
  BY <1>2

\* What the events in a burst do to a tracked entry.
LEMMA StateEntry ==
  ASSUME NEW t \in Entries, t.tracked = TRUE, NEW w \in Windows,
         NEW f \in BOOLEAN, NEW a \in BOOLEAN
  PROVE  LET x == Entry(t, State(w, f, a)) IN
         /\ x \in Entries /\ x.tracked = TRUE /\ x.full = f /\ x.active = a
         /\ x.saw = t.saw /\ x.output = t.output
<1>1. State(w, f, a).kind = "state" /\ State(w, f, a).full = f /\ State(w, f, a).active = a
  BY DEF State
<1> DEFINE x == [t EXCEPT !.full = f, !.active = a]
<1>2. Entry(t, State(w, f, a)) = x
  BY <1>1, Zenon DEF Entry
<1>3. /\ x \in Entries /\ x.tracked = TRUE /\ x.full = f /\ x.active = a
      /\ x.saw = t.saw /\ x.output = t.output
  BY DEF Entries
<1> HIDE DEF x
<1> QED
  BY <1>2, <1>3, Zenon

LEMMA EnterEntry ==
  ASSUME NEW t \in Entries, t.tracked = TRUE, NEW w \in Windows, NEW o \in Outputs
  PROVE  LET x == Entry(t, Enter(w, o)) IN
         /\ x \in Entries /\ x.tracked = TRUE /\ x.full = t.full /\ x.active = t.active
         /\ x.saw = TRUE /\ x.output = o
<1>1. Enter(w, o).kind = "enter" /\ Enter(w, o).output = o
  BY DEF Enter
<1> DEFINE x == [t EXCEPT !.output = o, !.saw = TRUE]
<1>2. Entry(t, Enter(w, o)) = x
  BY <1>1, Zenon DEF Entry
<1>3. /\ x \in Entries /\ x.tracked = TRUE /\ x.full = t.full /\ x.active = t.active
      /\ x.saw = TRUE /\ x.output = o
  BY DEF Entries
<1> HIDE DEF x
<1> QED
  BY <1>2, <1>3, Zenon

LEMMA LeaveEntry ==
  ASSUME NEW t \in Entries, t.tracked = TRUE, NEW w \in Windows, NEW o \in Outputs
  PROVE  LET x == Entry(t, Leave(w, o)) IN
         /\ x \in Entries /\ x.tracked = TRUE /\ x.full = t.full /\ x.active = t.active
         /\ x.saw = t.saw /\ x.output = IF t.output = o THEN NoOutput ELSE t.output
<1>1. Leave(w, o).kind = "leave" /\ Leave(w, o).output = o
  BY DEF Leave
<1> DEFINE x == [t EXCEPT !.output = IF @ = o THEN NoOutput ELSE @]
<1>2. Entry(t, Leave(w, o)) = x
  BY <1>1, Zenon DEF Entry
<1>3. /\ x \in Entries /\ x.tracked = TRUE /\ x.full = t.full /\ x.active = t.active
      /\ x.saw = t.saw /\ x.output = IF t.output = o THEN NoOutput ELSE t.output
  BY DEF Entries
<1> HIDE DEF x
<1> QED
  BY <1>2, <1>3, Zenon

\* A window that is not listed stays untracked.
LEMMA UntrackedStays ==
  ASSUME NEW w \in Windows, NEW e \in Messages, e.kind # "toplevel"
  PROVE  Entry(Untracked, e) = Untracked
<1>1. ~Untracked.tracked
  BY DEF Unknown, Untracked
<1> QED
  BY <1>1, Zenon DEF Entry

LEMMA MakesBurst ==
  ASSUME Typed, NEW w \in Windows, NEW t \in Entries, Makes(events, w, t),
         NEW a \in Messages, a.win = w, NEW b \in Messages, b.win = w,
         NEW c \in Messages, c.win = w
  PROVE  /\ Makes(events \o <<>>, w, t)
         /\ Makes(events \o <<a>>, w, Entry(t, a)) /\ Entry(t, a) \in Entries
         /\ Makes(events \o <<a, b>>, w, Entry(Entry(t, a), b))
         /\ Entry(Entry(t, a), b) \in Entries
         /\ Makes(events \o <<a, b, c>>, w, Entry(Entry(Entry(t, a), b), c))
         /\ Entry(Entry(Entry(t, a), b), c) \in Entries
<1>1. events \in Seq(Sendable) /\ a \in Sendable /\ b \in Sendable /\ c \in Sendable
  BY DEF Typed, Sendable
<1> DEFINE p == Append(events, a)
           q == Append(p, b)
           r == Append(q, c)
<1>2. p \in Seq(Sendable) /\ q \in Seq(Sendable)
  BY <1>1, QueueFacts
<1>3. /\ events \o <<>> = events /\ events \o <<a>> = p /\ events \o <<a, b>> = q
      /\ events \o <<a, b, c>> = r
  BY <1>1, QueueFacts
<1>4. Makes(p, w, Entry(t, a)) /\ Entry(t, a) \in Entries
  BY <1>1, MakesMore
<1>5. Makes(q, w, Entry(Entry(t, a), b)) /\ Entry(Entry(t, a), b) \in Entries
  BY <1>2, <1>4, MakesMore
<1>6. Makes(r, w, Entry(Entry(Entry(t, a), b), c)) /\ Entry(Entry(Entry(t, a), b), c) \in Entries
  BY <1>2, <1>5, MakesMore
<1> HIDE DEF p, q, r
<1> QED
  BY <1>3, <1>4, <1>5, <1>6

LEMMA BurstsConcat ==
  ASSUME NEW a \in Messages, NEW b \in Messages, NEW c \in Messages
  PROVE  /\ <<a>> \o <<b>> \o <<c>> = <<a, b, c>>
         /\ <<a>> \o <<>> \o <<c>> = <<a, c>>
         /\ <<a>> \o <<b>> = <<a, b>> /\ <<>> \o <<b>> = <<b>>
<1> DEFINE r == <<a>> \o <<b>> \o <<c>>
           s == <<a>> \o <<>> \o <<c>>
           t == <<a>> \o <<b>>
<1>1. r \in Seq(Messages) /\ Len(r) = 3 /\ r[1] = a /\ r[2] = b /\ r[3] = c
  OBVIOUS
<1>2. s \in Seq(Messages) /\ Len(s) = 2 /\ s[1] = a /\ s[2] = c
  OBVIOUS
<1>3. t \in Seq(Messages) /\ Len(t) = 2 /\ t[1] = a /\ t[2] = b
  OBVIOUS
<1>4. <<>> \o <<b>> = <<b>>
  OBVIOUS
<1> HIDE DEF r, s, t
<1>5. r = <<a, b, c>>
  <2> DEFINE u == <<a, b, c>>
  <2>1. u \in Seq(Messages) /\ Len(u) = 3 /\ u[1] = a /\ u[2] = b /\ u[3] = c
    OBVIOUS
  <2> HIDE DEF u
  <2>2. r = u
    BY <1>1, <2>1, SeqEqual
  <2> QED
    BY <2>2 DEF u
<1>6. s = <<a, c>>
  <2> DEFINE u == <<a, c>>
  <2>1. u \in Seq(Messages) /\ Len(u) = 2 /\ u[1] = a /\ u[2] = c
    OBVIOUS
  <2> HIDE DEF u
  <2>2. s = u
    BY <1>2, <2>1, SeqEqual
  <2> QED
    BY <2>2 DEF u
<1>7. t = <<a, b>>
  <2> DEFINE u == <<a, b>>
  <2>1. u \in Seq(Messages) /\ Len(u) = 2 /\ u[1] = a /\ u[2] = b
    OBVIOUS
  <2> HIDE DEF u
  <2>2. t = u
    BY <1>3, <2>1, SeqEqual
  <2> QED
    BY <2>2 DEF u
<1> QED
  BY <1>4, <1>5, <1>6, <1>7 DEF r, s, t

\* A window changed, and the queue makes of it what it is now.
LEMMA SentFollows ==
  ASSUME IInv, Typed', NEW burst, Send(burst), NEW w \in Windows,
         \A v \in Windows \ {w} : desk'[v] = desk[v],
         NEW t \in Entries, Makes(events \o burst, w, t), Agrees(w, t)'
  PROVE  IInv'
<1>1. /\ serving' = serving /\ reports' = reports /\ home' = home /\ named' = named
      /\ toplevels' = toplevels /\ sends' = sends /\ hidden' = hidden
      /\ events' = events \o burst
  BY DEF Send, tracker
<1>2. PICK end \in [Windows -> Entries] :
        /\ Leads(toplevels, events \o burst, end) /\ end[w] = t
        /\ \A v \in Windows \ {w} : Agrees(v, end[v])
  BY DEF Makes
<1>3. \A v \in Windows : Agrees(v, end[v])'
  <2> TAKE v \in Windows
  <2>1. CASE v = w
    BY <2>1, <1>2
  <2>2. CASE v # w
    <3>1. Agrees(v, end[v]) /\ desk'[v] = desk[v]
      BY <2>2, <1>2
    <3> QED
      BY <3>1, <1>1 DEF Agrees
  <2> QED
    BY <2>1, <2>2
<1>4. Follows'
  BY <1>1, <1>2, <1>3 DEF Follows
<1>5. (hidden = Hides(toplevels, sends))'
  BY <1>1 DEF IInv, Hides, Relevant, Ours
<1>6. (reports => named)'
  BY <1>1 DEF IInv
<1> QED
  BY <1>4, <1>5, <1>6 DEF IInv

LEMMA OpenFollows ==
  ASSUME IInv, Typed', NEW w \in Windows, NEW o \in Outputs, OpenWindow(w, o)
  PROVE  IInv'
<1> DEFINE a == [kind |-> "toplevel", win |-> w]
           b == Enter(w, o)
           c == State(w, FALSE, FALSE)
<1>1. PICK t \in Entries : Makes(events, w, t)
  BY MakesNow DEF IInv
<1>2. desk \in [Windows -> [open : BOOLEAN, on : SUBSET Outputs, full : BOOLEAN, active : BOOLEAN]]
  BY DEF IInv, Typed, TypeOK
<1>3. /\ desk'[w].open /\ desk'[w].on = {o} /\ desk'[w].full = FALSE /\ desk'[w].active = FALSE
      /\ \A v \in Windows \ {w} : desk'[v] = desk[v]
  BY <1>2 DEF OpenWindow, NoWindow
<1>4. a \in Messages /\ c \in Messages /\ a.win = w /\ c.win = w
  BY MessageFacts DEF State
<1>5. Entry(t, a) = Unknown /\ Unknown \in Entries
  BY DEF Entry, Unknown, Entries
<1>6. Unknown.tracked = TRUE /\ Unknown.saw = FALSE
  BY DEF Unknown
<1>7. serving' /\ reports' = reports
  BY DEF OpenWindow, Send
<1>8. Send(<<a>> \o IfReported(<<b>>) \o <<c>>)
  BY DEF OpenWindow
<1> DEFINE u == Entry(Unknown, b)
           y == Entry(u, c)
           z == Entry(Unknown, c)
<1>9. u \in Entries /\ u.tracked = TRUE /\ u.saw = TRUE /\ u.output = o
  BY <1>5, <1>6, EnterEntry
<1>10. /\ y \in Entries /\ y.tracked = TRUE /\ y.full = FALSE /\ y.active = FALSE
       /\ y.saw = TRUE /\ y.output = o
  BY <1>9, StateEntry
<1>11. /\ z \in Entries /\ z.tracked = TRUE /\ z.full = FALSE /\ z.active = FALSE
       /\ z.saw = FALSE
  BY <1>5, <1>6, StateEntry
<1>12. reports => b \in Messages /\ b.win = w
  BY MessageFacts DEF Enter
<1> HIDE DEF a, b, c
<1>13. CASE reports
  <2>1. IfReported(<<b>>) = <<b>>
    BY <1>13 DEF IfReported
  <2>2. <<a>> \o <<b>> \o <<c>> = <<a, b, c>>
    BY <1>4, <1>12, <1>13, BurstsConcat
  <2>3. Send(<<a, b, c>>)
    BY <1>8, <2>1, <2>2
  <2>4. Makes(events \o <<a, b, c>>, w, y)
    BY <1>1, <1>4, <1>5, <1>12, <1>13, MakesBurst DEF IInv
  <2> HIDE DEF u, y
  <2>5. Agrees(w, y)'
    BY <1>3, <1>7, <1>10, <1>13, FullscreenAssumption DEF Agrees
  <2> QED
    BY <1>3, <1>10, <2>3, <2>4, <2>5, SentFollows
<1>14. CASE ~reports
  <2>1. IfReported(<<b>>) = <<>>
    BY <1>14 DEF IfReported
  <2>2. <<a>> \o <<>> \o <<c>> = <<a, c>>
    BY <1>4, BurstsConcat
  <2>3. Send(<<a, c>>)
    BY <1>8, <2>1, <2>2
  <2>4. Makes(events \o <<a, c>>, w, z)
    BY <1>1, <1>4, <1>5, MakesBurst DEF IInv
  <2>5. reports' = FALSE
    BY <1>7, <1>14 DEF IInv, Typed, TypeOK
  <2> HIDE DEF z
  <2>6. Agrees(w, z)'
    BY <1>3, <1>7, <1>11, <2>5 DEF Agrees
  <2> QED
    BY <1>3, <1>11, <2>3, <2>4, <2>6, SentFollows
<1> QED
  BY <1>13, <1>14

LEMMA CloseFollows ==
  ASSUME IInv, Typed', NEW w \in Windows, CloseWindow(w)
  PROVE  IInv'
<1> DEFINE a == [kind |-> "closed", win |-> w]
<1>1. PICK t \in Entries : Makes(events, w, t)
  BY MakesNow DEF IInv
<1>2. desk \in [Windows -> [open : BOOLEAN, on : SUBSET Outputs, full : BOOLEAN, active : BOOLEAN]]
  BY DEF IInv, Typed, TypeOK
<1>3. ~desk'[w].open /\ \A v \in Windows \ {w} : desk'[v] = desk[v]
  BY <1>2 DEF CloseWindow, NoWindow
<1>4. a \in Messages /\ a.win = w
  BY MessageFacts
<1>5. Entry(t, a) = Untracked
  BY DEF Entry
<1>6. Untracked \in Entries /\ Makes(events \o <<a>>, w, Untracked)
  BY <1>1, <1>4, <1>5, MakesBurst DEF IInv
<1>7. Agrees(w, Untracked)'
  BY <1>3 DEF Agrees
<1>8. Send(<<a>>)
  BY DEF CloseWindow
<1> QED
  BY <1>3, <1>6, <1>7, <1>8, SentFollows

\* What is sent of a window that is not listed leaves it untracked.
LEMMA UnlistedFollows ==
  ASSUME IInv, Typed', NEW w \in Windows, ~(serving /\ desk[w].open),
         desk'[w].open = desk[w].open, \A v \in Windows \ {w} : desk'[v] = desk[v],
         NEW a \in Messages, a.win = w, a.kind # "toplevel",
         NEW b \in Messages, b.win = w, b.kind # "toplevel",
         NEW burst, Send(burst), burst \in {<<>>, <<a>>, <<a, b>>}
  PROVE  IInv'
<1>1. PICK t \in Entries : Makes(events, w, t) /\ t = Untracked
  <2>1. PICK t \in Entries : Agrees(w, t) /\ Makes(events, w, t)
    BY MakesNow DEF IInv
  <2> QED
    BY <2>1 DEF Agrees
<1>2. Entry(t, a) = t /\ Entry(t, b) = t
  BY <1>1, UntrackedStays
<1>3. Makes(events \o burst, w, t)
  <2>1. /\ Makes(events \o <<>>, w, t) /\ Makes(events \o <<a>>, w, Entry(t, a))
        /\ Makes(events \o <<a, b>>, w, Entry(Entry(t, a), b))
    BY <1>1, MakesBurst DEF IInv
  <2> QED
    BY <1>2, <2>1
<1>4. Agrees(w, t)'
  BY <1>1 DEF Agrees, Send
<1> QED
  BY <1>3, <1>4, SentFollows

\* What is known of a listed window, in its two cases.
LEMMA Listed ==
  ASSUME IInv, NEW w \in Windows, serving, desk[w].open
  PROVE  \E t \in Entries :
           /\ Makes(events, w, t) /\ t.tracked = TRUE
           /\ t.full = desk[w].full /\ t.active = desk[w].active /\ t.saw = reports
           /\ reports => desk[w].on = {t.output} \ {NoOutput}
  BY MakesNow DEF IInv, Agrees

LEMMA ChangeFollows ==
  ASSUME IInv, Typed', NEW w \in Windows, NEW f \in BOOLEAN, NEW a \in BOOLEAN,
         ChangeState(w, f, a)
  PROVE  IInv'
<1> DEFINE c == State(w, f, a)
<1>1. desk \in [Windows -> [open : BOOLEAN, on : SUBSET Outputs, full : BOOLEAN, active : BOOLEAN]]
  BY DEF IInv, Typed, TypeOK
<1>2. /\ desk'[w].open = desk[w].open /\ desk'[w].on = desk[w].on
      /\ desk'[w].full = f /\ desk'[w].active = a
      /\ \A v \in Windows \ {w} : desk'[v] = desk[v]
  BY <1>1 DEF ChangeState
<1>3. Send(<<c>>) /\ desk[w].open
  BY DEF ChangeState
<1>4. c \in Messages /\ c.win = w /\ c.kind = "state"
  BY MessageFacts DEF State
<1>5. serving' = serving /\ reports' = reports
  BY <1>3 DEF Send
<1> HIDE DEF c
<1>6. CASE serving
  <2>1. PICK t \in Entries :
           /\ Makes(events, w, t) /\ t.tracked = TRUE
           /\ t.full = desk[w].full /\ t.active = desk[w].active /\ t.saw = reports
           /\ reports => desk[w].on = {t.output} \ {NoOutput}
    BY <1>3, <1>6, Listed
  <2> DEFINE y == Entry(t, c)
  <2>2. /\ y \in Entries /\ y.tracked = TRUE /\ y.full = f /\ y.active = a
        /\ y.saw = t.saw /\ y.output = t.output
    <3>1. \A g, b \in BOOLEAN :
             LET x == Entry(t, State(w, g, b)) IN
             /\ x \in Entries /\ x.tracked = TRUE /\ x.full = g /\ x.active = b
             /\ x.saw = t.saw /\ x.output = t.output
      BY <2>1, StateEntry, Zenon
    <3> QED
      BY <3>1, Zenon DEF c
  <2>3. Makes(events \o <<c>>, w, y)
    BY <1>4, <2>1, MakesBurst DEF IInv
  <2> HIDE DEF y
  <2>4. Agrees(w, y)'
    BY <1>2, <1>3, <1>5, <1>6, <2>1, <2>2 DEF Agrees
  <2> QED
    BY <1>2, <1>3, <2>2, <2>3, <2>4, SentFollows
<1>7. CASE ~serving
  BY <1>2, <1>3, <1>4, <1>7, UnlistedFollows
<1> QED
  BY <1>6, <1>7

LEMMA MoveFollows ==
  ASSUME IInv, Typed', NEW w \in Windows, NEW o \in Outputs, NEW p \in Outputs,
         MoveWindow(w, o, p)
  PROVE  IInv'
<1> DEFINE a == Leave(w, o)
           b == Enter(w, p)
<1>1. desk \in [Windows -> [open : BOOLEAN, on : SUBSET Outputs, full : BOOLEAN, active : BOOLEAN]]
  BY DEF IInv, Typed, TypeOK
<1>2. /\ desk'[w].open = desk[w].open /\ desk'[w].on = {p}
      /\ desk'[w].full = desk[w].full /\ desk'[w].active = desk[w].active
      /\ \A v \in Windows \ {w} : desk'[v] = desk[v]
  BY <1>1 DEF MoveWindow
<1>3. /\ desk[w].open /\ desk[w].on = {o} /\ p # o
      /\ Send(IfReported(<<a, b>>)) \/ Send(IfReported(<<b, a>>))
  BY DEF MoveWindow
<1>4. reports => /\ a \in Messages /\ a.win = w /\ a.kind = "leave"
                 /\ b \in Messages /\ b.win = w /\ b.kind = "enter"
  BY MessageFacts DEF Enter, Leave
<1>5. serving' = serving /\ reports' = reports
  BY <1>3 DEF Send
<1>6. [kind |-> "closed", win |-> w] \in Messages
  BY MessageFacts
<1>7. PICK z \in Messages : z.win = w /\ z.kind # "toplevel"
  BY <1>6
<1>8. o # NoOutput /\ p # NoOutput
  BY FullscreenAssumption
<1>9. CASE serving /\ reports
  <2>1. PICK t \in Entries :
           /\ Makes(events, w, t) /\ t.tracked = TRUE
           /\ t.full = desk[w].full /\ t.active = desk[w].active /\ t.saw = reports
           /\ desk[w].on = {t.output} \ {NoOutput}
    BY <1>3, <1>9, Listed
  <2>2. t.output = o
    BY <1>3, <1>8, <2>1
  <2>3. CASE Send(IfReported(<<a, b>>))
    <3> DEFINE x == Entry(t, a)
               y == Entry(x, b)
    <3>1. /\ x \in Entries /\ x.tracked = TRUE /\ x.full = t.full /\ x.active = t.active
      BY <2>1, LeaveEntry
    <3>2. /\ y \in Entries /\ y.tracked = TRUE /\ y.full = t.full /\ y.active = t.active
          /\ y.saw = TRUE /\ y.output = p
      BY <3>1, EnterEntry
    <3> HIDE DEF a, b
    <3>3. Makes(events \o <<a, b>>, w, y)
      BY <1>4, <1>9, <2>1, MakesBurst DEF IInv
    <3>4. Send(<<a, b>>)
      BY <1>9, <2>3 DEF IfReported
    <3> HIDE DEF x, y
    <3>5. Agrees(w, y)'
      BY <1>2, <1>3, <1>5, <1>8, <1>9, <2>1, <3>2 DEF Agrees
    <3> QED
      BY <1>2, <3>2, <3>3, <3>4, <3>5, SentFollows
  <2>4. CASE Send(IfReported(<<b, a>>))
    <3> DEFINE x == Entry(t, b)
               y == Entry(x, a)
    <3>1. /\ x \in Entries /\ x.tracked = TRUE /\ x.full = t.full /\ x.active = t.active
          /\ x.saw = TRUE /\ x.output = p
      BY <2>1, EnterEntry
    <3>2. /\ y \in Entries /\ y.tracked = TRUE /\ y.full = t.full /\ y.active = t.active
          /\ y.saw = TRUE /\ y.output = IF x.output = o THEN NoOutput ELSE x.output
      BY <3>1, LeaveEntry, ZenonT(30)
    <3>3. y.output = p
      BY <1>3, <3>1, <3>2
    <3> HIDE DEF a, b
    <3>4. Makes(events \o <<b, a>>, w, y)
      BY <1>4, <1>9, <2>1, MakesBurst DEF IInv
    <3>5. Send(<<b, a>>)
      BY <1>9, <2>4 DEF IfReported
    <3> HIDE DEF x, y
    <3>6. Agrees(w, y)'
      BY <1>2, <1>3, <1>5, <1>8, <1>9, <2>1, <3>2, <3>3 DEF Agrees
    <3> QED
      BY <1>2, <3>2, <3>4, <3>5, <3>6, SentFollows
  <2> QED
    BY <1>3, <2>3, <2>4
<1>10. CASE serving /\ ~reports
  <2>1. PICK t \in Entries :
           /\ Makes(events, w, t) /\ t.tracked = TRUE
           /\ t.full = desk[w].full /\ t.active = desk[w].active /\ t.saw = reports
    BY <1>3, <1>10, Listed
  <2>2. Send(<<>>)
    BY <1>3, <1>10 DEF IfReported
  <2>3. Makes(events \o <<>>, w, t)
    BY <1>7, <2>1, MakesBurst DEF IInv
  <2>4. Agrees(w, t)'
    BY <1>2, <1>3, <1>5, <1>10, <2>1 DEF Agrees
  <2> QED
    BY <1>2, <2>1, <2>2, <2>3, <2>4, SentFollows
<1>11. CASE ~serving /\ reports
  <2> HIDE DEF a, b
  <2>1. Send(<<a, b>>) \/ Send(<<b, a>>)
    BY <1>3, <1>11 DEF IfReported
  <2> QED
    BY <1>2, <1>4, <1>11, <2>1, UnlistedFollows
<1>12. CASE ~serving /\ ~reports
  <2>1. Send(<<>>)
    BY <1>3, <1>12 DEF IfReported
  <2> QED
    BY <1>2, <1>7, <1>12, <2>1, UnlistedFollows
<1> QED
  BY <1>9, <1>10, <1>11, <1>12

LEMMA MinimiseFollows ==
  ASSUME IInv, Typed', NEW w \in Windows, NEW o \in Outputs, Minimise(w, o)
  PROVE  IInv'
<1>1. desk \in [Windows -> [open : BOOLEAN, on : SUBSET Outputs, full : BOOLEAN, active : BOOLEAN]]
  BY DEF IInv, Typed, TypeOK
<1>2. PICK f \in BOOLEAN : f = desk[w].full
  BY <1>1
<1> DEFINE a == Leave(w, o)
           c == State(w, f, FALSE)
<1>3. /\ desk'[w].open = desk[w].open /\ desk'[w].on = {} /\ desk'[w].full = f
      /\ desk'[w].active = FALSE /\ \A v \in Windows \ {w} : desk'[v] = desk[v]
  BY <1>1, <1>2 DEF Minimise
<1>4. desk[w].open /\ desk[w].on = {o} /\ Send(IfReported(<<a>>) \o <<c>>)
  BY <1>2 DEF Minimise
<1>5. /\ c \in Messages /\ c.win = w /\ c.kind = "state"
      /\ reports => a \in Messages /\ a.win = w /\ a.kind = "leave"
  BY MessageFacts DEF State, Leave
<1>6. serving' = serving /\ reports' = reports
  BY <1>4 DEF Send
<1>7. CASE reports
  <2> HIDE DEF a, c
  <2>1. IfReported(<<a>>) \o <<c>> = <<a, c>>
    BY <1>5, <1>7, BurstsConcat DEF IfReported
  <2>2. Send(<<a, c>>)
    BY <1>4, <2>1
  <2>3. CASE serving
    <3>1. PICK t \in Entries :
             /\ Makes(events, w, t) /\ t.tracked = TRUE
             /\ t.full = desk[w].full /\ t.active = desk[w].active /\ t.saw = reports
             /\ desk[w].on = {t.output} \ {NoOutput}
      BY <1>4, <1>7, <2>3, Listed
    <3>2. t.output = o
      BY <1>4, <3>1, FullscreenAssumption
    <3> DEFINE x == Entry(t, a)
               y == Entry(x, c)
    <3>3. /\ x \in Entries /\ x.tracked = TRUE /\ x.saw = t.saw /\ x.output = NoOutput
      BY <3>1, <3>2, LeaveEntry DEF a
    <3>4. /\ y \in Entries /\ y.tracked = TRUE /\ y.full = f /\ y.active = FALSE
          /\ y.saw = x.saw /\ y.output = x.output
      BY <3>3, StateEntry, Zenon DEF c
    <3>5. Makes(events \o <<a, c>>, w, y)
      BY <1>5, <1>7, <3>1, MakesBurst DEF IInv
    <3>6. y.saw = TRUE /\ y.output = NoOutput
      BY <1>7, <3>1, <3>3, <3>4
    <3> HIDE DEF x, y
    <3>7. Agrees(w, y)'
      BY <1>3, <1>4, <1>6, <1>7, <2>3, <3>4, <3>6 DEF Agrees
    <3> QED
      BY <1>3, <2>2, <3>4, <3>5, <3>7, SentFollows
  <2>4. CASE ~serving
    BY <1>3, <1>5, <1>7, <2>2, <2>4, UnlistedFollows
  <2> QED
    BY <2>3, <2>4
<1>8. CASE ~reports
  <2> HIDE DEF a, c
  <2>1. IfReported(<<a>>) \o <<c>> = <<c>>
    BY <1>5, <1>8, BurstsConcat DEF IfReported
  <2>2. Send(<<c>>)
    BY <1>4, <2>1
  <2>3. CASE serving
    <3>1. PICK t \in Entries :
             /\ Makes(events, w, t) /\ t.tracked = TRUE
             /\ t.full = desk[w].full /\ t.active = desk[w].active /\ t.saw = reports
      BY <1>4, <2>3, Listed
    <3> DEFINE y == Entry(t, c)
    <3>2. /\ y \in Entries /\ y.tracked = TRUE /\ y.full = f /\ y.active = FALSE
          /\ y.saw = t.saw
      BY <3>1, StateEntry, ZenonT(30) DEF c
    <3>3. Makes(events \o <<c>>, w, y)
      BY <1>5, <3>1, MakesBurst DEF IInv
    <3> HIDE DEF y
    <3>4. Agrees(w, y)'
      BY <1>3, <1>4, <1>6, <1>8, <2>3, <3>1, <3>2 DEF Agrees
    <3> QED
      BY <1>3, <2>2, <3>2, <3>3, <3>4, SentFollows
  <2>4. CASE ~serving
    BY <1>3, <1>5, <2>2, <2>4, UnlistedFollows
  <2> QED
    BY <2>3, <2>4
<1> QED
  BY <1>7, <1>8

LEMMA RestoreFollows ==
  ASSUME IInv, Typed', NEW w \in Windows, NEW o \in Outputs, Restore(w, o)
  PROVE  IInv'
<1>1. desk \in [Windows -> [open : BOOLEAN, on : SUBSET Outputs, full : BOOLEAN, active : BOOLEAN]]
  BY DEF IInv, Typed, TypeOK
<1>2. PICK f \in BOOLEAN : f = desk[w].full
  BY <1>1
<1> DEFINE a == Enter(w, o)
           c == State(w, f, TRUE)
<1>3. /\ desk'[w].open = desk[w].open /\ desk'[w].on = {o} /\ desk'[w].full = f
      /\ desk'[w].active = TRUE /\ \A v \in Windows \ {w} : desk'[v] = desk[v]
  BY <1>1, <1>2 DEF Restore
<1>4. desk[w].open /\ Send(IfReported(<<a>>) \o <<c>>)
  BY <1>2 DEF Restore
<1>5. /\ c \in Messages /\ c.win = w /\ c.kind = "state"
      /\ reports => a \in Messages /\ a.win = w /\ a.kind = "enter"
  BY MessageFacts DEF State, Enter
<1>6. serving' = serving /\ reports' = reports
  BY <1>4 DEF Send
<1>7. CASE reports
  <2> HIDE DEF a, c
  <2>1. IfReported(<<a>>) \o <<c>> = <<a, c>>
    BY <1>5, <1>7, BurstsConcat DEF IfReported
  <2>2. Send(<<a, c>>)
    BY <1>4, <2>1
  <2>3. CASE serving
    <3>1. PICK t \in Entries : Makes(events, w, t) /\ t.tracked = TRUE
      BY <1>4, <1>7, <2>3, Listed
    <3> DEFINE x == Entry(t, a)
               y == Entry(x, c)
    <3>2. /\ x \in Entries /\ x.tracked = TRUE /\ x.saw = TRUE /\ x.output = o
      BY <3>1, EnterEntry DEF a
    <3>3. /\ y \in Entries /\ y.tracked = TRUE /\ y.full = f /\ y.active = TRUE
          /\ y.saw = x.saw /\ y.output = x.output
      BY <3>2, StateEntry, Zenon DEF c
    <3>4. Makes(events \o <<a, c>>, w, y)
      BY <1>5, <1>7, <3>1, MakesBurst DEF IInv
    <3>5. y.saw = TRUE /\ y.output = o
      BY <3>2, <3>3
    <3> HIDE DEF x, y
    <3>6. Agrees(w, y)'
      BY <1>3, <1>4, <1>6, <1>7, <2>3, <3>3, <3>5, FullscreenAssumption DEF Agrees
    <3> QED
      BY <1>3, <2>2, <3>3, <3>4, <3>6, SentFollows
  <2>4. CASE ~serving
    BY <1>3, <1>5, <1>7, <2>2, <2>4, UnlistedFollows
  <2> QED
    BY <2>3, <2>4
<1>8. CASE ~reports
  <2> HIDE DEF a, c
  <2>1. IfReported(<<a>>) \o <<c>> = <<c>>
    BY <1>5, <1>8, BurstsConcat DEF IfReported
  <2>2. Send(<<c>>)
    BY <1>4, <2>1
  <2>3. CASE serving
    <3>1. PICK t \in Entries :
             /\ Makes(events, w, t) /\ t.tracked = TRUE
             /\ t.full = desk[w].full /\ t.active = desk[w].active /\ t.saw = reports
      BY <1>4, <2>3, Listed
    <3> DEFINE y == Entry(t, c)
    <3>2. /\ y \in Entries /\ y.tracked = TRUE /\ y.full = f /\ y.active = TRUE
          /\ y.saw = t.saw
      BY <3>1, StateEntry, ZenonT(30) DEF c
    <3>3. Makes(events \o <<c>>, w, y)
      BY <1>5, <3>1, MakesBurst DEF IInv
    <3> HIDE DEF y
    <3>4. Agrees(w, y)'
      BY <1>3, <1>4, <1>6, <1>8, <2>3, <3>1, <3>2 DEF Agrees
    <3> QED
      BY <1>3, <2>2, <3>2, <3>3, <3>4, SentFollows
  <2>4. CASE ~serving
    BY <1>3, <1>5, <2>2, <2>4, UnlistedFollows
  <2> QED
    BY <2>3, <2>4
<1> QED
  BY <1>7, <1>8

\* A window on two outputs: only where outputs are not reported.
LEMMA StraddleFollows ==
  ASSUME Hard = {}, IInv, Typed', NEW w \in Windows, NEW o \in Outputs, Straddle(w, o)
  PROVE  IInv'
<1>1. desk \in [Windows -> [open : BOOLEAN, on : SUBSET Outputs, full : BOOLEAN, active : BOOLEAN]]
  BY DEF IInv, Typed, TypeOK
<1>2. /\ desk'[w].open = desk[w].open /\ desk'[w].full = desk[w].full
      /\ desk'[w].active = desk[w].active /\ \A v \in Windows \ {w} : desk'[v] = desk[v]
  BY <1>1 DEF Straddle
<1>3. ~reports /\ Send(<<>>) /\ serving' = serving /\ reports' = reports
  BY DEF Straddle, May, IfReported, Send
<1>4. PICK t \in Entries : Agrees(w, t) /\ Makes(events, w, t)
  BY MakesNow DEF IInv
<1>5. [kind |-> "closed", win |-> w] \in Messages
  BY MessageFacts
<1>6. PICK z \in Messages : z.win = w /\ z.kind # "toplevel"
  BY <1>5
<1>7. Makes(events \o <<>>, w, t)
  BY <1>4, <1>6, MakesBurst DEF IInv
<1>8. Agrees(w, t)'
  BY <1>2, <1>3, <1>4 DEF Agrees
<1> QED
  BY <1>2, <1>3, <1>7, <1>8, SentFollows

LEMMA RetreatFollows ==
  ASSUME IInv, Typed', NEW w \in Windows, NEW o \in Outputs, Retreat(w, o)
  PROVE  IInv'
<1> DEFINE a == Leave(w, o)
<1>1. desk \in [Windows -> [open : BOOLEAN, on : SUBSET Outputs, full : BOOLEAN, active : BOOLEAN]]
  BY DEF IInv, Typed, TypeOK
<1>2. /\ desk'[w].open = desk[w].open /\ desk'[w].full = desk[w].full
      /\ desk'[w].active = desk[w].active /\ \A v \in Windows \ {w} : desk'[v] = desk[v]
  BY <1>1 DEF Retreat
<1>3. /\ o \in desk[w].on /\ desk[w].on # {o} /\ Send(IfReported(<<a>>))
      /\ serving' = serving /\ reports' = reports
  BY DEF Retreat, Send
<1>4. reports => a \in Messages /\ a.win = w /\ a.kind = "leave"
  BY MessageFacts DEF Leave
<1>5. [kind |-> "closed", win |-> w] \in Messages
  BY MessageFacts
<1>6. PICK z \in Messages : z.win = w /\ z.kind # "toplevel"
  BY <1>5
<1>7. CASE ~reports
  <2>1. Send(<<>>)
    BY <1>3, <1>7 DEF IfReported
  <2>2. PICK t \in Entries : Agrees(w, t) /\ Makes(events, w, t)
    BY MakesNow DEF IInv
  <2>3. Makes(events \o <<>>, w, t)
    BY <1>6, <2>2, MakesBurst DEF IInv
  <2>4. Agrees(w, t)'
    BY <1>2, <1>3, <1>7, <2>2 DEF Agrees
  <2> QED
    BY <1>2, <2>1, <2>3, <2>4, SentFollows
<1>8. CASE reports
  <2>1. ~(serving /\ desk[w].open)
    <3> SUFFICES ASSUME serving, desk[w].open PROVE FALSE
      OBVIOUS
    <3>1. PICK t \in Entries : desk[w].on = {t.output} \ {NoOutput}
      BY <1>8, Listed
    <3> QED
      BY <1>3, <3>1
  <2>2. Send(<<a>>)
    BY <1>3, <1>8 DEF IfReported
  <2> HIDE DEF a
  <2> QED
    BY <1>2, <1>4, <1>8, <2>1, <2>2, UnlistedFollows
<1> QED
  BY <1>7, <1>8

-----------------------------------------------------------------------------
\* The tracker's steps

LEMMA WithdrawFollows ==
  ASSUME IInv, Typed', Withdraw
  PROVE  IInv'
<1> DEFINE e == [kind |-> "finished"]
<1>1. PICK end \in [Windows -> Entries] : Leads(toplevels, events, end)
  BY DEF IInv, Follows
<1>2. e \in Sendable /\ e.kind = "finished" /\ events \in Seq(Sendable)
  BY DEF Sendable, IInv, Typed
<1>3. /\ events' = Append(events, e) /\ ~serving' /\ reports' = reports
      /\ toplevels' = toplevels /\ sends' = sends /\ hidden' = hidden
      /\ home' = home /\ named' = named
  BY DEF Withdraw, tracker
<1> HIDE DEF e
<1> DEFINE next == Advance(end, e)
<1>4. Leads(toplevels, Append(events, e), next)
  BY <1>1, <1>2, LeadsOn
<1>5. next \in [Windows -> Entries] /\ \A w \in Windows : next[w] = Untracked
  BY <1>2, AdvanceFacts
<1> HIDE DEF next
<1>6. \A w \in Windows : Agrees(w, next[w])'
  BY <1>3, <1>5 DEF Agrees
<1>7. Follows'
  BY <1>3, <1>4, <1>5, <1>6 DEF Follows
<1>8. (hidden = Hides(toplevels, sends))' /\ (reports => named)'
  BY <1>3 DEF IInv, Hides, Relevant, Ours
<1> QED
  BY <1>7, <1>8 DEF IInv

LEMMA DispatchFollows ==
  ASSUME IInv, Typed', Dispatch
  PROVE  IInv'
<1>1. PICK end \in [Windows -> Entries] :
        Leads(toplevels, events, end) /\ \A w \in Windows : Agrees(w, end[w])
  BY DEF IInv, Follows
<1>2. events \in Seq(Sendable) /\ events # <<>>
  BY DEF IInv, Typed, Dispatch
<1>3. Leads(Advance(toplevels, Head(events)), Tail(events), end)
  BY <1>1, <1>2, LeadsFromNext
<1>4. /\ events' = Tail(events) /\ toplevels' = Advance(toplevels, Head(events))
      /\ desk' = desk /\ serving' = serving /\ reports' = reports
      /\ home' = home /\ named' = named
  BY DEF Dispatch, compositor, Updated, Advance
<1>5. \A w \in Windows : Agrees(w, end[w])'
  BY <1>1, <1>4 DEF Agrees
<1>6. Follows'
  BY <1>3, <1>4, <1>5 DEF Follows
<1>7. hidden' = Hides(toplevels', sends')
  BY DEF Dispatch
<1>8. (hidden = Hides(toplevels, sends))'
  BY <1>4, <1>7 DEF Hides, Relevant, Ours
<1>9. (reports => named)'
  BY <1>4 DEF IInv
<1> QED
  BY <1>6, <1>8, <1>9 DEF IInv

\* The pets change output: only where outputs are not reported, so that no
\* entry has seen one.
LEMMA RebindFollows ==
  ASSUME Hard = {}, IInv, Typed', NEW o \in Outputs, Rebind(o)
  PROVE  IInv'
<1>1. /\ events' = events /\ toplevels' = toplevels /\ desk' = desk /\ serving' = serving
      /\ reports' = reports /\ named' = named /\ sends' = sends /\ hidden' = hidden
  BY DEF Rebind, compositor, tracker
<1>2. ~reports /\ ~sends
  BY DEF Rebind, May, IInv, Typed, TypeOK
<1>3. Follows'
  BY <1>1 DEF IInv, Follows, Agrees
<1>4. (hidden = Hides(toplevels, sends))'
  BY <1>1, <1>2 DEF IInv, Hides, Relevant
<1> QED
  BY <1>1, <1>2, <1>3, <1>4 DEF IInv

LEMMA InitIInv ==
  ASSUME Hard = {}, Init
  PROVE  IInv
<1>1. Typed
  BY InitTyped
<1>2. toplevels \in [Windows -> Entries] /\ \A w \in Windows : toplevels[w] = Untracked
  BY DEF Init, Entries, Unknown, Untracked
<1>3. Leads(toplevels, events, toplevels)
  BY <1>2, LeadsNowhere DEF Init
<1>4. \A w \in Windows : Agrees(w, toplevels[w])
  BY <1>2 DEF Init, Agrees, NoWindow
<1>5. Follows
  BY <1>2, <1>3, <1>4 DEF Follows
<1>6. hidden = Hides(toplevels, sends)
  <2>1. hidden = FALSE /\ \A w \in Windows : ~toplevels[w].tracked
    BY <1>2 DEF Init, Unknown, Untracked
  <2> QED
    BY <2>1 DEF Hides
<1>7. reports => named
  BY DEF Init, May
<1> QED
  BY <1>1, <1>5, <1>6, <1>7 DEF IInv

LEMMA NextIInv ==
  ASSUME Hard = {}, IInv, [Next]_vars
  PROVE  IInv'
<1>1. Typed'
  BY NextTyped DEF IInv
<1>2. CASE Desktop
  BY <1>1, <1>2, OpenFollows, CloseFollows, ChangeFollows, MoveFollows, MinimiseFollows,
     RestoreFollows, StraddleFollows, RetreatFollows DEF Desktop
<1>3. CASE Withdraw
  BY <1>1, <1>3, WithdrawFollows
<1>4. CASE Dispatch
  BY <1>1, <1>4, DispatchFollows
<1>5. ASSUME NEW o \in Outputs, Rebind(o) PROVE IInv'
  BY <1>1, <1>5, RebindFollows
<1>6. CASE UNCHANGED vars
  <2>1. Follows'
    BY <1>6 DEF IInv, Follows, Agrees, vars
  <2> QED
    BY <1>1, <1>6, <2>1 DEF IInv, Hides, Relevant, Ours, vars
<1> QED
  BY <1>2, <1>3, <1>4, <1>5, <1>6 DEF Next

\* "True while a fullscreen window covers our output" (fullscreen.rs:46), for
\* any windows and outputs and however far events lag: once every event was
\* dispatched the overlay hides exactly when it is covered.  Where outputs are
\* reported the pets must name theirs and keep it and windows be on one.
THEOREM HiddenWhileCoveredHolds ==
  ASSUME Hard = {}
  PROVE  Spec => []HiddenWhileCovered
<1>1. Init => IInv
  BY InitIInv
<1>2. IInv /\ [Next]_vars => IInv'
  BY NextIInv
<1>3. IInv => HiddenWhileCovered
  <2> SUFFICES ASSUME IInv, events = <<>>
               PROVE  hidden = Covered
    BY DEF HiddenWhileCovered
  <2>1. toplevels \in [Windows -> Entries] /\ \A w \in Windows : Agrees(w, toplevels[w])
    <3>1. PICK end \in [Windows -> Entries] :
            Leads(toplevels, events, end) /\ \A w \in Windows : Agrees(w, end[w])
      BY DEF IInv, Follows
    <3>2. toplevels \in [Windows -> Entries]
      BY DEF IInv, Typed, TypeOK, Entries
    <3>3. end = toplevels
      BY <3>1, <3>2, LeadsNowhere
    <3> QED
      BY <3>1, <3>2, <3>3
  <2>2. /\ \A w \in Windows : toplevels[w].saw => sends
        /\ sends => reports
        /\ home \in Outputs /\ home # NoOutput
        /\ serving \in BOOLEAN /\ hidden \in BOOLEAN
    BY FullscreenAssumption DEF IInv, Typed, TypeOK
  <2>3. reports => Ours = home
    BY DEF IInv, Ours
  <2>4. ASSUME NEW w \in Windows
        PROVE  (toplevels[w].tracked /\ toplevels[w].full /\ Relevant(toplevels[w], sends))
                 <=> /\ serving /\ desk[w].open /\ desk[w].full /\ desk[w].active
                     /\ reports => home \in desk[w].on
    <3>1. CASE serving /\ desk[w].open
      <4>1. /\ toplevels[w].tracked = TRUE /\ toplevels[w].full = desk[w].full
            /\ toplevels[w].active = desk[w].active /\ toplevels[w].saw = reports
            /\ reports => desk[w].on = {toplevels[w].output} \ {NoOutput}
        BY <2>1, <3>1 DEF Agrees
      <4>2. CASE reports
        <5>1. Relevant(toplevels[w], sends) <=>
                toplevels[w].active /\ toplevels[w].output = home
          BY <2>2, <2>3, <4>1, <4>2 DEF Relevant
        <5>2. home \in desk[w].on <=> toplevels[w].output = home
          BY <2>2, <4>1, <4>2
        <5> QED
          BY <3>1, <4>1, <4>2, <5>1, <5>2
      <4>3. CASE ~reports
        <5>1. Relevant(toplevels[w], sends) <=> toplevels[w].active
          BY <2>2, <4>3 DEF Relevant
        <5> QED
          BY <3>1, <4>1, <4>3, <5>1
      <4> QED
        BY <4>2, <4>3
    <3>2. CASE ~(serving /\ desk[w].open)
      <4>1. ~toplevels[w].tracked
        BY <2>1, <3>2 DEF Agrees, Unknown, Untracked
      <4> QED
        BY <3>2, <4>1
    <3> QED
      BY <3>1, <3>2
  <2>5. Hides(toplevels, sends) <=> Covered
    BY <2>4 DEF Hides, Covered
  <2>6. hidden = Hides(toplevels, sends)
    BY DEF IInv
  <2> QED
    BY <2>5, <2>6 DEF Hides, Covered
<1> QED
  BY <1>1, <1>2, <1>3, PTL DEF Spec

=============================================================================

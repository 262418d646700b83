----------------------------- MODULE Fullscreen -----------------------------
(***************************************************************************)
(* Fullscreen auto-hide: crates/petweave/src/platform/fullscreen.rs.  The  *)
(* host learns about windows from wlr-foreign-toplevel-management events,  *)
(* which reach it some time after the compositor acted, one by one and in  *)
(* order, and recomputes after each whether the overlay must hide.         *)
(*                                                                         *)
(* The desktop (which windows there are, where, in which state) is         *)
(* external: every window has events a wlroots compositor sends for it.    *)
(***************************************************************************)
EXTENDS Integers, Sequences

CONSTANTS
  Windows,
  Outputs,
  Hard,      \* what happens also on a compositor that reports outputs
  MaxLag     \* the compositor waits when the host is this many events behind

NoOutput == "none"

\* No pet names its output; a reload moves the pets to another output; a
\* window is on two outputs.  Without output reports all three may happen.
HardCases == {"unnamed", "moves", "spans"}

ASSUME FullscreenAssumption ==
  /\ NoOutput \notin Outputs /\ Outputs # {}
  /\ Hard \subseteq HardCases
  /\ MaxLag \in Nat \ {0}

VARIABLES
  desk,      \* the compositor's windows: open, outputs, fullscreen, activated
  serving,   \* the compositor still lists its windows (until it sends `finished`)
  events,    \* sent by the compositor, not yet dispatched
  reports,   \* whether this compositor sends output events at all
  home,      \* the output the pets are on
  named,     \* whether they are bound to it by name
  toplevels, \* FullscreenTracker.toplevels
  sends,     \* FullscreenTracker.compositor_sends_output_events
  hidden     \* FullscreenTracker.hidden

compositor == <<desk, serving, reports>>
tracker    == <<toplevels, sends, hidden>>
vars == <<desk, serving, events, reports, home, named, toplevels, sends, hidden>>

NoWindow == [open |-> FALSE, on |-> {}, full |-> FALSE, active |-> FALSE]

\* What the tracker knows of a toplevel (ToplevelState), and no entry.
Unknown   == [tracked |-> TRUE, full |-> FALSE, active |-> FALSE,
              output |-> NoOutput, saw |-> FALSE]
Untracked == [Unknown EXCEPT !.tracked = FALSE]

May(case) == ~reports \/ case \in Hard

EventKinds == {"toplevel", "enter", "leave", "state", "closed", "finished"}

-----------------------------------------------------------------------------
\* The compositor

State(w, f, a) == [kind |-> "state", win |-> w, full |-> f, active |-> a]
Enter(w, o)    == [kind |-> "enter", win |-> w, output |-> o]
Leave(w, o)    == [kind |-> "leave", win |-> w, output |-> o]

\* Not every compositor sends output events.
IfReported(burst) == IF reports THEN burst ELSE <<>>

Send(burst) ==
  /\ Len(events) < MaxLag
  /\ events' = events \o burst
  /\ UNCHANGED <<serving, reports, home, named>>
  /\ UNCHANGED tracker

\* Windows that open after `finished` get no handle, and are left out.
OpenWindow(w, o) ==
  /\ serving /\ ~desk[w].open
  /\ desk' = [desk EXCEPT ![w] = [NoWindow EXCEPT !.open = TRUE, !.on = {o}]]
  /\ Send(<<[kind |-> "toplevel", win |-> w]>> \o IfReported(<<Enter(w, o)>>)
            \o <<State(w, FALSE, FALSE)>>)

CloseWindow(w) ==
  /\ desk[w].open
  /\ desk' = [desk EXCEPT ![w] = NoWindow]
  /\ Send(<<[kind |-> "closed", win |-> w]>>)

\* A fullscreen window is on one output.
ChangeState(w, f, a) ==
  /\ desk[w].open /\ (f => \A o, p \in desk[w].on : o = p)
  /\ <<f, a>> # <<desk[w].full, desk[w].active>>
  /\ desk' = [desk EXCEPT ![w].full = f, ![w].active = a]
  /\ Send(<<State(w, f, a)>>)

\* A window that changes output may enter the new one first or last.
MoveWindow(w, o, p) ==
  /\ desk[w].open /\ desk[w].on = {o} /\ p # o
  /\ desk' = [desk EXCEPT ![w].on = {p}]
  /\ \/ Send(IfReported(<<Leave(w, o), Enter(w, p)>>))
     \/ Send(IfReported(<<Enter(w, p), Leave(w, o)>>))

\* A minimised window is on no output.
Minimise(w, o) ==
  /\ desk[w].open /\ desk[w].on = {o}
  /\ desk' = [desk EXCEPT ![w].on = {}, ![w].active = FALSE]
  /\ Send(IfReported(<<Leave(w, o)>>) \o <<State(w, desk[w].full, FALSE)>>)

Restore(w, o) ==
  /\ desk[w].open /\ desk[w].on = {}
  /\ desk' = [desk EXCEPT ![w].on = {o}, ![w].active = TRUE]
  /\ Send(IfReported(<<Enter(w, o)>>) \o <<State(w, desk[w].full, TRUE)>>)

\* A floating window dragged across the edge of two outputs, and back.
Straddle(w, o) ==
  /\ May("spans") /\ desk[w].open /\ ~desk[w].full /\ desk[w].on \notin {{}, {o}}
  /\ desk' = [desk EXCEPT ![w].on = @ \cup {o}]
  /\ Send(IfReported(<<Enter(w, o)>>))

Retreat(w, o) ==
  /\ o \in desk[w].on /\ desk[w].on # {o}
  /\ desk' = [desk EXCEPT ![w].on = @ \ {o}]
  /\ Send(IfReported(<<Leave(w, o)>>))

\* The compositor withdraws its list; the windows it had listed keep their
\* handles, whose events go on.
Withdraw ==
  /\ serving /\ Len(events) < MaxLag
  /\ serving' = FALSE
  /\ events' = Append(events, [kind |-> "finished"])
  /\ UNCHANGED <<desk, reports, home, named>> /\ UNCHANGED tracker

-----------------------------------------------------------------------------
\* The tracker

\* fullscreen_our_output: the output the first pet with a named one is bound to.
Ours == IF named THEN home ELSE NoOutput

\* fullscreen_relevant; a toplevel on no output, or pets on no named one, do
\* not match.
Relevant(t, s) ==
  t.active /\ (s /\ t.saw => t.output = Ours /\ Ours # NoOutput)

\* FullscreenTracker::recompute.
Hides(ts, s) ==
  \E w \in Windows : ts[w].tracked /\ ts[w].full /\ Relevant(ts[w], s)

\* Mutants: leaving any output forgets the output; an output event is not
\* recorded as seen.
EntryLosingOutput(t, e) ==
  CASE e.kind = "toplevel" -> Unknown
    [] e.kind = "closed" -> Untracked
    [] t.tracked /\ e.kind = "enter" -> [t EXCEPT !.output = e.output, !.saw = TRUE]
    [] t.tracked /\ e.kind = "leave" -> [t EXCEPT !.output = NoOutput]
    [] t.tracked /\ e.kind = "state" -> [t EXCEPT !.full = e.full, !.active = e.active]
    [] OTHER -> Untracked

EntryUnseen(t, e) ==
  CASE e.kind = "toplevel" -> Unknown
    [] e.kind = "closed" -> Untracked
    [] t.tracked /\ e.kind = "enter" -> [t EXCEPT !.output = e.output]
    [] t.tracked /\ e.kind = "leave" -> [t EXCEPT !.output = IF @ = e.output THEN NoOutput ELSE @]
    [] t.tracked /\ e.kind = "state" -> [t EXCEPT !.full = e.full, !.active = e.active]
    [] OTHER -> Untracked

\* What one event does to the entry of its toplevel.
Entry(t, e) ==
  CASE e.kind = "toplevel" -> Unknown
    [] e.kind = "closed" -> Untracked
    [] t.tracked /\ e.kind = "enter" -> [t EXCEPT !.output = e.output, !.saw = TRUE]
    [] t.tracked /\ e.kind = "leave" -> [t EXCEPT !.output = IF @ = e.output THEN NoOutput ELSE @]
    [] t.tracked /\ e.kind = "state" -> [t EXCEPT !.full = e.full, !.active = e.active]
    [] OTHER -> Untracked

\* What it does to all of them; `finished` clears them.
Updated(e) ==
  IF e.kind = "finished" THEN [w \in Windows |-> Untracked]
  ELSE [toplevels EXCEPT ![e.win] = Entry(@, e)]

\* Mutant: an event that changes an entry is recomputed from the old entries.
DispatchStale ==
  LET e  == Head(events)
      ts == Updated(e)
      s  == sends \/ e.kind = "enter"
  IN  /\ events # <<>> /\ events' = Tail(events)
      /\ toplevels' = ts /\ sends' = s
      /\ hidden' = Hides(toplevels, s)
      /\ UNCHANGED <<home, named>> /\ UNCHANGED compositor

\* The Dispatch impls of the manager and of the toplevel handles.
Dispatch ==
  LET e  == Head(events)
      ts == Updated(e)
      s  == sends \/ e.kind = "enter"
  IN  /\ events # <<>> /\ events' = Tail(events)
      /\ toplevels' = ts /\ sends' = s
      /\ hidden' = Hides(ts, s)
      /\ UNCHANGED <<home, named>> /\ UNCHANGED compositor

\* A reload, a replug or a dropped pet changes the first bound output; nothing
\* recomputes before the next event.
Rebind(o) ==
  /\ May("moves") /\ named /\ o # home
  /\ home' = o
  /\ UNCHANGED <<events, named>> /\ UNCHANGED compositor /\ UNCHANGED tracker

-----------------------------------------------------------------------------
Init ==
  /\ desk = [w \in Windows |-> NoWindow] /\ serving = TRUE /\ events = <<>>
  /\ reports \in BOOLEAN /\ home \in Outputs
  /\ named \in IF May("unnamed") THEN BOOLEAN ELSE {TRUE}
  /\ toplevels = [w \in Windows |-> Untracked]
  /\ sends = FALSE /\ hidden = FALSE

Desktop ==
  \E w \in Windows :
    \/ CloseWindow(w)
    \/ \E f, a \in BOOLEAN : ChangeState(w, f, a)
    \/ \E o \in Outputs : \/ OpenWindow(w, o) \/ Minimise(w, o) \/ Restore(w, o)
                          \/ Straddle(w, o) \/ Retreat(w, o)
    \/ \E o, p \in Outputs : MoveWindow(w, o, p)

Next == Desktop \/ Withdraw \/ Dispatch \/ \E o \in Outputs : Rebind(o)

\* The event queue is dispatched until it is empty.
Spec == Init /\ [][Next]_vars
FairSpec == Spec /\ WF_vars(Dispatch)

-----------------------------------------------------------------------------
\* The tracker knows an output only from an output event, which it has seen.
TypeOK ==
  /\ desk \in [Windows -> [open : BOOLEAN, on : SUBSET Outputs, full : BOOLEAN,
                           active : BOOLEAN]]
  /\ \A i \in DOMAIN events : events[i].kind \in EventKinds
  /\ {serving, reports} \subseteq BOOLEAN /\ home \in Outputs /\ named \in BOOLEAN
  /\ toplevels \in [Windows -> [tracked : BOOLEAN, full : BOOLEAN, active : BOOLEAN,
                                saw : BOOLEAN, output : Outputs \cup {NoOutput}]]
  /\ \A w \in Windows : toplevels[w].output # NoOutput => toplevels[w].saw
  /\ \A w \in Windows : toplevels[w].saw => sends
  /\ sends \in BOOLEAN /\ hidden \in BOOLEAN /\ (sends => reports)

\* An activated fullscreen window covers the pets' output; on a compositor
\* that does not report outputs, any activated fullscreen window counts, and
\* on one that withdrew its list none does.
Covered == serving /\ \E w \in Windows :
             /\ desk[w].open /\ desk[w].full /\ desk[w].active
             /\ reports => home \in desk[w].on

\* "True while a fullscreen window covers our output" (fullscreen.rs:46): once
\* every event was dispatched the overlay hides exactly when it is covered,
\* whatever order outputs, states and closes were reported in, wherever the
\* pets and the windows are when outputs are not reported, and although events
\* of listed windows still come after the list was withdrawn.
HiddenWhileCovered == events = <<>> => (hidden = Covered)

\* A desktop that stays covered hides the pets, one that stays free shows them.
HidesInTheEnd == /\ <>[]Covered => <>[]hidden
                 /\ <>[]~Covered => <>[]~hidden
=============================================================================

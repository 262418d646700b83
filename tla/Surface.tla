------------------------------ MODULE Surface ------------------------------
(***************************************************************************)
(* What one pet has on screen: its PetSurface (platform/wayland.rs), the   *)
(* compositor's copy of the wl_surface, and the handlers of app.rs that    *)
(* touch it between two turns of the host loop.  Host decides when a pet   *)
(* is drawn; this module says what the compositor then makes of it.        *)
(*                                                                         *)
(* A wl_surface is double-buffered: requests collect in wl.next, a commit  *)
(* makes them wl.now.  Requests arrive at once; answers (configures, the   *)
(* scale, released buffers) come when the compositor likes.  A frame is a  *)
(* picture with a size; its opaque part is told apart by both.  Optional   *)
(* values are sets of at most one element: a region is {} as long as none  *)
(* was set (the whole surface takes clicks), {{}} when it is empty, and    *)
(* {{outline}} otherwise.                                                  *)
(***************************************************************************)
EXTENDS Naturals, Sequences, FiniteSets

CONSTANTS
  Pictures,    \* opaque pictures a pet can show
  Sizes,       \* of the surface, in logical pixels
  Scales,      \* of monitors
  Blank,       \* the fully transparent picture
  MaxAnswers,  \* bound on the configures on their way
  Faults       \* "rescaled": a surface that was scaled is bound to another monitor

ASSUME SurfaceAssumption ==
  /\ Blank \notin Pictures /\ Sizes \subseteq Nat \ {0}
  /\ 1 \in Scales /\ Scales \subseteq Nat \ {0} /\ MaxAnswers \in Nat

VARIABLES
  pet,         \* the PetSurface
  render,      \* PetRuntime.render: the size and click-through asked for
  frame,       \* what the runtime renders
  hidden,      \* by the user or under a fullscreen window
  dirty,       \* needs_redraw
  skipped,     \* the last draw found no buffer (kept for the properties)
  wl,          \* the wl_surface: next (pending state) and now (in force)
  compositor   \* its monitor's scale, the scale and the size it told, and the
               \* configures on their way

vars == <<pet, render, frame, hidden, dirty, skipped, wl, compositor>>

WholeSurface == "whole"
Outline(f) == IF f.pic = Blank THEN {} ELSE {<<f.pic, f.size>>}

\* A surface just created: nothing set, nothing shown, unconfigured.
NewState == [scale |-> 1, region |-> {}, size |-> 0, buffer |-> {}]
NewPet == [size |-> 0, through |-> TRUE, box |-> {}, scale |-> 1, pool |-> 0, busy |-> 0,
           configured |-> FALSE]

\* The pet and its wl_surface, as the operators below pass them on.
Both(p, w) == [pet |-> p, wl |-> w]
Commit(w) == [w EXCEPT !.now = w.next]
Becomes(s) == pet' = s.pet /\ wl' = s.wl

-----------------------------------------------------------------------------
\* PetSurface.

\* apply_props: what was set is committed without a buffer.
ApplyProps(s, r) ==
  Both([s.pet EXCEPT !.box = IF s.pet.through = r.through THEN @ ELSE {},
                     !.through = r.through, !.size = r.size],
       Commit([s.wl EXCEPT !.next.size = r.size]))

\* create_surface
Created(r) == ApplyProps(Both([NewPet EXCEPT !.through = r.through, !.size = r.size],
                              [next |-> NewState, now |-> NewState]), r)

\* Mutant: the outline that the old surface was given is taken to be known.
ReboundKeepingBox(p, r) ==
  ApplyProps(Both([p EXCEPT !.pool = 0, !.busy = 0, !.configured = FALSE],
                  [next |-> NewState, now |-> NewState]), r)

\* rebind_to_output: a new wl_surface, but the scale of the old one.
Rebound(p, r) ==
  ApplyProps(Both([p EXCEPT !.pool = 0, !.busy = 0, !.configured = FALSE, !.box = {}],
                  [next |-> NewState, now |-> NewState]), r)

\* Mutant: the surface follows the frame with the next commit only.
SetSizeLater(s, size) ==
  IF s.pet.size = size THEN s ELSE Both([s.pet EXCEPT !.size = size], s.wl)

\* set_size
SetSize(s, size) ==
  IF s.pet.size = size THEN s
  ELSE Both([s.pet EXCEPT !.size = size], Commit([s.wl EXCEPT !.next.size = size]))

\* ensure_pool: new buffers when the size in pixels changed.
EnsurePool(p, size) ==
  IF p.pool = size * p.scale THEN p ELSE [p EXCEPT !.pool = size * p.scale, !.busy = 0]

\* attach and commit a buffer with frame f.  It remembers the scale it was
\* drawn at and the region that would fit it.
Attach(s, f) ==
  LET fits == IF s.pet.through THEN Outline(f) ELSE {<<WholeSurface, f.size>>}
  IN Both([s.pet EXCEPT !.busy = @ + 1],
          Commit([s.wl EXCEPT !.next.buffer =
            {[pic |-> f.pic, size |-> f.size, scale |-> s.pet.scale, fits |-> fits]}]))

\* update_input_region: after the commit, so it waits for the next one; and
\* compared with the last one, where none yet looks like an empty one.
UpdateRegion(s, f) ==
  LET box == IF s.pet.through THEN Outline(f) ELSE {<<WholeSurface, f.size>>}
  IN IF box = s.pet.box THEN s
     ELSE Both([s.pet EXCEPT !.box = box], [s.wl EXCEPT !.next.region = {box}])

\* present: nothing before the first configure; with both buffers in flight
\* the frame is skipped.
Present(s, f) ==
  IF ~s.pet.configured THEN s
  ELSE LET t == SetSize(s, f.size)
           u == Both(EnsurePool(t.pet, f.size), t.wl)
       IN IF u.pet.busy = 2 THEN u ELSE UpdateRegion(Attach(u, f), f)

-----------------------------------------------------------------------------
Here == Both(pet, wl)

\* A new surface is answered from scratch, by the monitor it lands on.
Fresh(monitor) == [monitor |-> monitor, scale |-> 1, size |-> 0, answers |-> <<>>]

Init ==
  /\ \E size \in Sizes, through \in BOOLEAN :
       /\ render = [size |-> size, through |-> through]
       /\ frame \in [pic : Pictures, size : {size}]
  /\ pet = Created(render).pet /\ wl = Created(render).wl
  /\ hidden = FALSE /\ dirty = TRUE /\ skipped = FALSE
  /\ \E m \in Scales : compositor = Fresh(m)

\* The host loop's turn: draw.
Wanted == IF hidden THEN [pic |-> Blank, size |-> pet.size] ELSE frame

Draw ==
  /\ dirty /\ dirty' = FALSE
  /\ Becomes(Present(Here, Wanted))
  /\ skipped' = (pet.configured /\ EnsurePool(pet, Wanted.size).busy = 2)
  /\ UNCHANGED <<render, frame, hidden, compositor>>

\* A tick changes the picture, and of a scripted pet also the size.
Tick ==
  /\ frame' \in [pic : Pictures \cup {Blank}, size : Sizes] \ {frame}
  /\ dirty' = TRUE
  /\ UNCHANGED <<pet, render, hidden, skipped, wl, compositor>>

\* toggle_visible and the fullscreen tracker.
SetVisible ==
  /\ hidden' = ~hidden /\ dirty' = TRUE
  /\ UNCHANGED <<pet, render, frame, skipped, wl, compositor>>

\* SetSize over the control channel, and a reload: the frame gets the size.
Configured(r) ==
  /\ r # render
  /\ render' = r /\ frame' = [frame EXCEPT !.size = r.size] /\ dirty' = TRUE
  /\ Becomes(ApplyProps(Here, r))
  /\ UNCHANGED <<hidden, compositor, skipped>>
ControlSetSize == \E size \in Sizes : Configured([render EXCEPT !.size = size])
Reload == \E size \in Sizes, through \in BOOLEAN : Configured([size |-> size, through |-> through])

\* SetPlacement and set_layer: the stored render, also where a script chose
\* another size since.
Replace ==
  /\ dirty' = TRUE
  /\ Becomes(ApplyProps(Here, render))
  /\ UNCHANGED <<render, frame, hidden, compositor, skipped>>

\* A drag or a fall commits margins, between a handler and the draw.
Move ==
  /\ Commit(wl) # wl
  /\ wl' = Commit(wl)
  /\ UNCHANGED <<pet, render, frame, hidden, dirty, compositor, skipped>>

\* rebind_pet_output, bind_named_outputs: onto any monitor.
RebindOutput ==
  /\ pet.scale = 1 \/ "rescaled" \in Faults
  /\ dirty' = TRUE
  /\ Becomes(Rebound(pet, render))
  /\ \E m \in Scales : compositor' = Fresh(m)
  /\ UNCHANGED <<render, frame, hidden, skipped>>

\* The pet is dropped and comes back with a later reload (sync_surfaces).
Recreate ==
  /\ dirty' = TRUE
  /\ frame' = [frame EXCEPT !.size = render.size]
  /\ Becomes(Created(render))
  /\ \E m \in Scales : compositor' = Fresh(m)
  /\ UNCHANGED <<render, hidden, skipped>>

-----------------------------------------------------------------------------
\* The compositor.

\* A size that was committed and not answered yet is answered.
Answer ==
  /\ compositor.size # wl.now.size /\ Len(compositor.answers) < MaxAnswers
  /\ compositor' = [compositor EXCEPT !.size = wl.now.size, !.answers = Append(@, wl.now.size)]
  /\ UNCHANGED <<pet, render, frame, hidden, dirty, wl, skipped>>

\* LayerShellHandler::configure
Configure ==
  /\ compositor.answers # <<>>
  /\ compositor' = [compositor EXCEPT !.answers = Tail(@)]
  /\ pet' = [pet EXCEPT !.size = Head(compositor.answers), !.configured = TRUE]
  /\ dirty' = TRUE
  /\ UNCHANGED <<render, frame, hidden, wl, skipped>>

\* Mutant: the scale reaches the surface and waits for some later redraw.
ScaleFactorQuietly(new) ==
  IF pet.scale = new THEN UNCHANGED <<pet, wl, dirty>>
  ELSE /\ pet' = [pet EXCEPT !.scale = new] /\ wl' = [wl EXCEPT !.next.scale = new]
       /\ UNCHANGED dirty

\* scale_factor_changed
ScaleFactorChanged(new) ==
  IF pet.scale = new THEN UNCHANGED <<pet, wl, dirty>>
  ELSE /\ pet' = [pet EXCEPT !.scale = new] /\ wl' = [wl EXCEPT !.next.scale = new]
       /\ dirty' = TRUE

\* The surface is told the scale of its monitor when it has another one.
TellScale ==
  /\ compositor.scale # compositor.monitor
  /\ compositor' = [compositor EXCEPT !.scale = compositor.monitor]
  /\ ScaleFactorChanged(compositor.monitor)
  /\ UNCHANGED <<render, frame, hidden, skipped>>

ChangeMonitor ==
  /\ \E m \in Scales \ {compositor.monitor} : compositor' = [compositor EXCEPT !.monitor = m]
  /\ UNCHANGED <<pet, render, frame, hidden, dirty, wl, skipped>>

\* A buffer comes back.
ReleaseBuffer ==
  /\ pet.busy > 0
  /\ pet' = [pet EXCEPT !.busy = @ - 1]
  /\ UNCHANGED <<render, frame, hidden, dirty, skipped, wl, compositor>>

Next ==
  \/ Draw \/ Tick \/ SetVisible \/ ControlSetSize \/ Reload \/ Replace \/ Move
  \/ RebindOutput \/ Recreate
  \/ Answer \/ Configure \/ TellScale \/ ChangeMonitor \/ ReleaseBuffer

Spec == Init /\ [][Next]_vars

-----------------------------------------------------------------------------
\* Properties.

\* The region the next commit puts in force fits the picture on screen, if
\* that has anything to click: through skipped frames, new surfaces, resizes
\* and a changed click-through, and although the region is only sent when it
\* differs from the one remembered (update_input_region).
RegionFollowsPicture ==
  \A b \in wl.now.buffer : b.fits # {} => wl.next.region = {b.fits}

\* Nothing on its way to the pet, and nothing to draw: the last draw had a
\* buffer to draw into.
Quiet ==
  /\ pet.configured /\ ~dirty /\ ~skipped
  /\ compositor.answers = <<>> /\ compositor.size = wl.now.size /\ compositor.scale = compositor.monitor

\* In the end the surface has the size of the frame, and the picture on it
\* too, although configures that answer an older size, scripts that choose a
\* size, and handlers that apply the stored one overtake each other
\* (configure, set_size, draw).
SizeSettles ==
  Quiet => /\ wl.now.size = pet.size /\ (~hidden => pet.size = frame.size)
           /\ \A b \in wl.now.buffer : b.size = pet.size

\* In the end the picture is drawn at the scale that the surface has, which
\* is its monitor's (scale_factor_changed, ensure_pool, present).
SharpInTheEnd ==
  Quiet => \A b \in wl.now.buffer : b.scale = wl.now.scale /\ b.scale = compositor.monitor

\* Clicks meet the picture that is on screen (wayland.rs update_input_region:
\* "Keep the input region glued to the pet's opaque shape").
ClicksMeetThePicture ==
  Quiet => \A b \in wl.now.buffer : wl.now.region = {b.fits}
=============================================================================

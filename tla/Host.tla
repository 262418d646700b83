-------------------------------- MODULE Host --------------------------------
(***************************************************************************)
(* The petweave host: crates/petweave/src/app.rs and the parts of          *)
(* runtime/mod.rs and platform/wayland.rs it drives.  One thread runs a    *)
(* calloop loop; every handler below is one callback dispatched on that    *)
(* thread, and Iterate is the loop body that follows each dispatch.        *)
(*                                                                         *)
(* A pet that is configured and loaded has a runtime slot; a slot whose    *)
(* layer surface exists is a running pet (PetRuntime).  Artwork, frames    *)
(* and coordinates are abstracted: a spot stands for an anchor with its    *)
(* margins, Free for the top-left anchor a drag or a fall moves to, and a  *)
(* fall for the number of physics steps left before the pet settles.       *)
(***************************************************************************)
EXTENDS Integers, Sequences, SequencesExt

CONSTANTS
  Pets,        \* pet ids
  Views,       \* resolved per-pet configurations (ResolvedPet)
  Configs,     \* configurations a reload or a patch can produce
  Spots,       \* anchor and margins
  BadSpots,    \* spots whose anchor text validate() lets through unparsed
  Sizes,       \* surface sizes
  Modes,       \* movement modes in use
  Layers,      \* layer-shell layers in use
  Outputs,     \* output names
  Removable,   \* outputs that can be unplugged
  Flaky,       \* artwork (kind, package, options) that can fail to load
  AlwaysTicking, \* pets whose tick always asks for a redraw
  Skips,       \* whether the compositor can hold both buffers of a pet
  Inputs,      \* the kinds of input this instance receives
  MaxFall      \* longest fall, in physics steps

AllModes   == {"drag", "physics", "fixed"}
AllLayers  == {"background", "bottom", "top", "overlay"}
Free       == "free"
AnyOutput  == "any"      \* output = "": the compositor chooses
NoOutput   == "none"
DeadOutput == "dead"     \* a wl_output whose global was removed
NoPhysics  == -1
AllInputs  == {"reload", "visible", "mode", "layer", "placement", "pause", "quit",
               "pointer", "close", "fullscreen", "outputs"}

ViewType == [spot : Spots, size : Sizes, layer : Layers, stay : BOOLEAN,
             output : Outputs \cup {AnyOutput}, mode : Modes, art : STRING]

ASSUME HostAssumption ==
  /\ Modes \subseteq AllModes /\ Layers \subseteq AllLayers
  /\ Views \subseteq ViewType /\ Views # {}
  /\ BadSpots \subseteq Spots /\ Free \notin Spots
  /\ Removable \subseteq Outputs
  /\ Outputs \cap {AnyOutput, NoOutput, DeadOutput} = {}
  /\ Configs \subseteq [order : Seq(Pets), view : [Pets -> Views]]
  /\ \A c \in Configs : IsInjective(c.order)    \* validate(): unique ids
  /\ AlwaysTicking \subseteq Pets
  /\ Skips \in BOOLEAN
  /\ Inputs \subseteq AllInputs
  /\ MaxFall \in Nat \ {0}

VARIABLES
  slots,       \* Runtime.slots: ids of the loaded pets, in config order
  slotView,    \* the ResolvedPet each slot was last given
  pets,        \* App.pets: ids of the running pets
  pet,         \* what App.pets and its PetSurface hold for each id
  stack,       \* the compositor's stacking of the surfaces, bottom first
  tray,        \* TrayShared
  fullscreen,  \* FullscreenTracker.hidden
  connected,   \* outputs in the registry
  paused, redraw, exit

vars == <<slots, slotView, pets, pet, stack, tray, fullscreen, connected,
          paused, redraw, exit>>

PetType == [visible : BOOLEAN, mode : Modes, render : ViewType,
            drag : {"none", "held", "moved"}, physics : NoPhysics .. MaxFall,
            pending : BOOLEAN, spot : Spots \cup {Free},
            bound : Outputs \cup {NoOutput, DeadOutput},
            surf : {"none", "waiting", "ready", "stuck"},
            screen : {"none", "blank", "pet"}]

-----------------------------------------------------------------------------
\* PetRuntime and PetSurface

Cancel(r) == [r EXCEPT !.drag = "none", !.physics = NoPhysics,
                       !.pending = FALSE]

\* PetRuntime::new on a surface just created on output o.
Fresh(v, o) == [visible |-> TRUE, mode |-> v.mode, render |-> v,
                drag |-> "none", physics |-> NoPhysics, pending |-> FALSE,
                spot |-> v.spot, bound |-> o, surf |-> "waiting",
                screen |-> "none"]

DefaultView == CHOOSE v \in Views : TRUE
Gone == [Fresh(DefaultView, NoOutput) EXCEPT !.surf = "none"]

Running == {p \in Pets : pet[p].surf # "none"}
Loaded  == ToSet(slots)

Find(name, present) == IF name \in present THEN name ELSE NoOutput

\* Every path that moves a surface commits it, and a first commit asks for
\* the configure a stuck surface still waits for.
Commit(r) == [r EXCEPT !.surf = IF @ = "stuck" THEN "waiting" ELSE @]

\* PetSurface::apply_props: an anchor that does not parse returns before the
\* anchor, the margins and the size are touched and nothing is committed.
ApplyProps(r) == IF r.render.spot \in BadSpots THEN r
                 ELSE Commit([r EXCEPT !.spot = r.render.spot])

\* PetSurface::rebind_to_output: a new wl_surface, bound to output o.  When
\* apply_props fails it is never committed and never configured.
Rebind(r, o) ==
  [ApplyProps(r) EXCEPT !.bound = o, !.screen = "none",
     !.surf = IF r.render.spot \in BadSpots THEN "stuck" ELSE "waiting"]

\* App::hidden_by_fullscreen and the choice draw makes per pet.
HidesOnFullscreen(r) == r.render.layer # "overlay" /\ ~r.render.stay
Wanted(r, fs) == IF ~r.visible \/ (fs /\ HidesOnFullscreen(r))
                 THEN "blank" ELSE "pet"

\* App::start_pet_physics: fall for f steps from the current rectangle.
StartPhysics(r, f) == [Cancel(r) EXCEPT !.physics = f, !.pending = TRUE]

\* Mutant: the mode changes under a drag or a fall.
SetModeKeepingMotion(r, m, f) ==
  IF m = "physics" /\ r.mode # m THEN StartPhysics([r EXCEPT !.mode = m], f)
  ELSE [r EXCEPT !.mode = m]

SetMode(r, m, f) ==
  IF r.mode = m THEN r
  ELSE LET s == [Cancel(r) EXCEPT !.mode = m]
       IN  IF m = "physics" THEN StartPhysics(s, f) ELSE s

SetVisible(r, v) == IF v THEN [r EXCEPT !.visible = TRUE]
                    ELSE [Cancel(r) EXCEPT !.visible = FALSE]

\* App::sync_tray.
TrayOf(ps, st) ==
  [visible |-> ps # <<>> /\ \A i \in DOMAIN ps : st[ps[i]].visible,
   mode    |-> IF ps = <<>> THEN "drag" ELSE st[ps[1]].mode,
   layer   |-> IF ps = <<>> THEN "top" ELSE st[ps[1]].render.layer,
   rows    |-> [i \in DOMAIN ps |-> [id |-> ps[i], mode |-> st[ps[i]].mode,
                                     visible |-> st[ps[i]].visible]]]
-----------------------------------------------------------------------------
\* Configuration

\* What retain() and filter() leave of s (a SelectSeq that proofs can unfold).
Only(s, S) ==
  LET kept[i \in 0 .. Len(s)] ==
        IF i = 0 THEN <<>>
        ELSE IF s[i] \in S THEN Append(kept[i - 1], s[i]) ELSE kept[i - 1]
  IN  kept[Len(s)]
Without(s, S) == Only(s, ToSet(s) \ S)

\* What loading or reloading can fail for: artwork that is new or changed.
MayFail(c) == {p \in ToSet(c.order) : /\ c.view[p].art \in Flaky
                                      /\ \/ p \notin Loaded
                                         \/ slotView[p].art # c.view[p].art}

\* Mutant: a pet that fails to reload loses its slot.
DropFailed(c, failed) == Without(c.order, failed)

\* Runtime::apply: a pet that fails keeps its old slot, if it has one.
ApplySlots(c, failed) ==
  Without(c.order, failed \ Loaded)

ApplyViews(c, failed) ==
  LET now == ToSet(ApplySlots(c, failed))
  IN  [p \in Pets |-> IF p \notin now THEN DefaultView
                      ELSE IF p \in failed THEN slotView[p] ELSE c.view[p]]

\* App::sync_surfaces: the ids that get a surface, and the order of App.pets
\* afterwards.  create_surface fails when the anchor does not parse.
Creatable(s, v) == {p \in ToSet(s) : v[p].spot \notin BadSpots}

\* Mutant: sorted only when a surface was created.
SortOnlyNew(s, running, created) ==
  IF created # {} THEN Only(s, ToSet(running) \cup created) ELSE running

SyncOrder(s, running, created) ==
  IF created # {} \/ Len(running) > 1
  THEN Only(s, ToSet(running) \cup created)
  ELSE running

\* Mutant: the tray's session mode outlives the reload.
ReapplyKeepingMode(r, v) ==
  LET props == ApplyProps([r EXCEPT !.render = v])
  IN  IF v.output = r.render.output THEN props
      ELSE Rebind(props, Find(v.output, connected))

\* App::apply_config, the part on a pet that stays: v is its slot's view.
Reapply(r, v) ==
  LET moved == \/ v.spot # r.render.spot \/ v.size # r.render.size
               \/ v.layer # r.render.layer \/ v.mode # r.mode
      base  == IF moved THEN Cancel(r) ELSE r
      props == ApplyProps([base EXCEPT !.render = v, !.mode = v.mode])
  IN  IF v.output = r.render.output THEN props
      ELSE Rebind(props, Find(v.output, connected))

\* App::bind_named_outputs.
Unbound(r, present) == /\ r.surf # "none" /\ r.bound = NoOutput
                       /\ r.render.output \in present

Bound(r, present) == IF Unbound(r, present)
                     THEN Rebind(r, r.render.output) ELSE r

-----------------------------------------------------------------------------
\* Startup: Runtime::new, sync_surfaces and spawn_tray.  run() bails out when
\* no pet could be loaded.

Start(c, failed, present) ==
  LET s  == Without(c.order, failed)
      up == Creatable(s, c.view)
      st == [p \in Pets |-> IF p \in up
                            THEN Fresh(c.view[p], Find(c.view[p].output, present))
                            ELSE Gone]
  IN  /\ up # {}
      /\ slots = s
      /\ slotView = [p \in Pets |-> IF p \in ToSet(s) THEN c.view[p]
                                                     ELSE DefaultView]
      /\ pets = Only(s, up)
      /\ pet = st
      /\ stack = Only(s, up)
      /\ tray = TrayOf(Only(s, up), st)

Init ==
  /\ \E unplugged \in SUBSET Removable : connected = Outputs \ unplugged
  /\ \E c \in Configs :
       \E failed \in SUBSET {p \in ToSet(c.order) : c.view[p].art \in Flaky} :
         Start(c, failed, connected)
  /\ fullscreen = FALSE
  /\ paused = FALSE /\ redraw = FALSE /\ exit = "no"

-----------------------------------------------------------------------------
\* Reload: the config file (reload_config) or an in-memory patch
\* (control_reload); a config that does not parse or validate changes nothing.

ApplyConfig(c, failed) ==
  LET s       == ApplySlots(c, failed)
      v       == ApplyViews(c, failed)
      kept    == Running \cap ToSet(s)
      created == Creatable(s, v) \ Running
      after   == [p \in Pets |->
                    IF p \in created THEN Fresh(v[p], Find(v[p].output, connected))
                    ELSE IF p \in kept THEN Bound(Reapply(pet[p], v[p]), connected)
                    ELSE Gone]
      order   == SyncOrder(s, Only(pets, kept), created)
      rebound == {p \in kept : \/ v[p].output # pet[p].render.output
                               \/ Unbound(Reapply(pet[p], v[p]), connected)}
  IN  /\ slots' = s /\ slotView' = v
      /\ pets' = order /\ pet' = after
      /\ stack' = Only(stack, kept \ rebound) \o Only(s, created) \o Only(s, rebound)
      /\ tray' = TrayOf(order, after)
      /\ redraw' = TRUE
      /\ UNCHANGED <<fullscreen, connected, paused, exit>>

Reload(c) == \E failed \in SUBSET MayFail(c) : ApplyConfig(c, failed)

-----------------------------------------------------------------------------
\* Tray and control-channel commands

\* A command that rewrites the running pets in place and then calls sync_tray.
Update(st) == /\ pet' = st
              /\ tray' = TrayOf(pets, st)
              /\ redraw' = TRUE
              /\ UNCHANGED <<slots, slotView, pets, stack, fullscreen, connected,
                             paused, exit>>

On(S, Op(_)) == [p \in Pets |-> IF p \in S THEN Op(pet[p]) ELSE pet[p]]

ToggleVisible ==
  LET show == \A p \in Running : ~pet[p].visible
  IN  Update(On(Running, LAMBDA r : SetVisible(r, show)))

\* Mutant: toggle_pet_visible without sync_tray.
ToggleUnmirrored(p) ==
  /\ p \in Running
  /\ pet' = [pet EXCEPT ![p] = SetVisible(@, ~@.visible)]
  /\ redraw' = TRUE
  /\ UNCHANGED <<slots, slotView, pets, stack, tray, fullscreen, connected,
                 paused, exit>>

TogglePetVisible(p) ==
  /\ p \in Running
  /\ Update([pet EXCEPT ![p] = SetVisible(@, ~@.visible)])

\* control_set_visible: one pet, or every pet.
ControlSetVisible(S, v) ==
  /\ S = Running \/ \E p \in Running : S = {p}
  /\ Update(On(S, LAMBDA r : SetVisible(r, v)))

SetMoveMode(m, f) == Update(On(Running, LAMBDA r : SetMode(r, m, f)))

SetPetMoveMode(p, m, f) ==
  /\ p \in Running /\ pet[p].mode # m
  /\ Update([pet EXCEPT ![p] = SetMode(@, m, f)])

\* set_layer re-applies the placement of every pet, not only the changed ones.
SetLayer(l) ==
  /\ \E p \in Running : pet[p].render.layer # l
  /\ Update(On(Running, LAMBDA r : ApplyProps([r EXCEPT !.render.layer = l])))

\* The request's anchor is parsed, so it is never a bad spot.
SetPlacement(p, s) ==
  /\ p \in Running /\ s \in Spots \ BadSpots
  /\ Update([pet EXCEPT ![p] = ApplyProps([Cancel(@) EXCEPT !.render.spot = s])])

\* set_box changes the slot as well; an apply_props error returns early.
SetSize(p, z) ==
  /\ p \in Running
  /\ slotView' = [slotView EXCEPT ![p].size = z]
  /\ pet' = [pet EXCEPT ![p] = ApplyProps([Cancel(@) EXCEPT !.render.size = z])]
  /\ redraw' = (redraw \/ pet[p].render.spot \notin BadSpots)
  /\ UNCHANGED <<slots, pets, stack, tray, fullscreen, connected, paused, exit>>

SetPaused(b) ==
  /\ paused' = b
  /\ pet' = IF b THEN On(Running, Cancel) ELSE pet
  /\ UNCHANGED <<slots, slotView, pets, stack, tray, fullscreen, connected,
                 redraw, exit>>

\* control_quit only schedules the exit; the tray's Quit and the signals end
\* the loop at once.
ControlQuit == /\ exit' = "at"
               /\ UNCHANGED <<slots, slotView, pets, pet, stack, tray, fullscreen,
                              connected, paused, redraw>>

QuitNow == /\ exit' = "done"
           /\ UNCHANGED <<slots, slotView, pets, pet, stack, tray, fullscreen,
                          connected, paused, redraw>>

-----------------------------------------------------------------------------
\* Pointer events, routed to the pet that owns the surface

Motion(st) == /\ pet' = st
              /\ UNCHANGED <<slots, slotView, pets, stack, tray, fullscreen,
                             connected, paused, exit>>

\* The event also reaches the pet's instance, which may ask for a redraw.
\* Keys, system samples, wheel turns and presses on a fixed pet do only that.
React    == redraw' \in {redraw, TRUE}
PetEvent == Motion(pet) /\ redraw' = TRUE

\* A mapped surface: one that was configured and presented.
Mapped(p) == pet[p].surf = "ready" /\ pet[p].screen # "none"

\* far: the pointer is more than 4 px away from the press.
Dragged(r, far) == [r EXCEPT !.pending = TRUE,
                             !.drag = IF far THEN "moved" ELSE r.drag]
Dropped(r) == [r EXCEPT !.drag = "none"]

\* A left press pauses physics and switches to free positioning.
Press(p) ==
  /\ Mapped(p) /\ pet[p].mode # "fixed"
  /\ Motion([pet EXCEPT ![p] = [@ EXCEPT !.drag = "held", !.physics = NoPhysics,
                                         !.spot = Free]])
  /\ React

Move(p, far) ==
  /\ Mapped(p) /\ pet[p].drag # "none"
  /\ Motion([pet EXCEPT ![p] = Dragged(@, far)])
  /\ React

\* Only a real drag, not a click, drops the pet in physics mode.
Release(p, f) ==
  /\ Mapped(p) /\ pet[p].drag # "none"
  /\ Motion([pet EXCEPT ![p] =
       IF @.drag = "moved" /\ @.mode = "physics" THEN StartPhysics(@, f)
       ELSE Dropped(@)])
  /\ React

Leave(p) == /\ Mapped(p) /\ pet[p].drag # "none"
            /\ Motion([pet EXCEPT ![p] = Dropped(@)])
            /\ React

\* remove_capability: the seat lost its pointer.
PointerLost == /\ Motion(On(Running, Dropped))
               /\ UNCHANGED redraw

-----------------------------------------------------------------------------
\* The compositor

Configure(p) ==
  /\ pet[p].surf \in {"waiting", "ready"}
  /\ pet' = [pet EXCEPT ![p].surf = "ready"]
  /\ redraw' = TRUE
  /\ UNCHANGED <<slots, slotView, pets, stack, tray, fullscreen, connected,
                 paused, exit>>

\* The handler drops the pet and nothing else: the slot stays loaded.
Closed(p) ==
  /\ p \in Running
  /\ pets' = Without(pets, {p}) /\ stack' = Without(stack, {p})
  /\ pet' = [pet EXCEPT ![p] = Gone]
  /\ redraw' = TRUE
  /\ UNCHANGED <<slots, slotView, tray, fullscreen, connected, paused, exit>>

\* Mutant: fullscreen_changed without a redraw.
FullscreenQuietly ==
  /\ fullscreen' = ~fullscreen
  /\ UNCHANGED <<slots, slotView, pets, pet, stack, tray, connected, paused,
                 redraw, exit>>

FullscreenChanged ==
  /\ fullscreen' = ~fullscreen /\ redraw' = TRUE
  /\ UNCHANGED <<slots, slotView, pets, pet, stack, tray, connected, paused, exit>>

\* output_destroyed does nothing; a pet keeps the wl_output it was bound to.
OutputGone(o) ==
  /\ o \in connected \cap Removable
  /\ connected' = connected \ {o}
  /\ pet' = [p \in Pets |-> IF pet[p].bound = o
                            THEN [pet[p] EXCEPT !.bound = DeadOutput] ELSE pet[p]]
  /\ UNCHANGED <<slots, slotView, pets, stack, tray, fullscreen, paused, redraw,
                 exit>>

\* new_output: bind_named_outputs looks at the running pets only.
NewOutput(o) ==
  LET now    == connected \cup {o}
      rebind == {p \in Running : Unbound(pet[p], now)}
  IN  /\ o \in Outputs \ connected
      /\ connected' = now
      /\ pet' = [p \in Pets |-> Bound(pet[p], now)]
      /\ stack' = Without(stack, rebind) \o Only(pets, rebind)
      /\ redraw' = (redraw \/ \E p \in rebind : pet'[p].surf # "stuck")
      /\ UNCHANGED <<slots, slotView, pets, tray, fullscreen, paused, exit>>

-----------------------------------------------------------------------------
\* The loop body after each dispatch: tick, physics, positions, draw

\* Mutants: pets without a fall are stepped too; a settled pet is re-queued
\* on every wakeup; low-speed impacts bounce for ever.
StepAll(r) == IF r.physics = 0 THEN r
              ELSE [r EXCEPT !.physics = @ - 1, !.pending = TRUE]

StepSettled(r) == IF r.physics < 0 THEN r
                  ELSE [r EXCEPT !.physics = IF @ > 0 THEN @ - 1 ELSE 0,
                                 !.pending = TRUE]

StepBouncing(r) == IF r.physics <= 0 THEN r
                   ELSE [r EXCEPT !.physics = IF @ > 1 THEN @ - 1 ELSE 1,
                                  !.pending = TRUE]

\* physics_step on one pet; without any output it settles where it is.
Step(r) == IF r.physics <= 0 THEN r
           ELSE IF connected = {} THEN [r EXCEPT !.physics = 0]
           ELSE [r EXCEPT !.physics = @ - 1, !.pending = TRUE]

\* apply_positions on one pet.
ApplyPosition(r) ==
  IF r.pending THEN Commit([r EXCEPT !.pending = FALSE, !.spot = Free]) ELSE r

\* PetSurface::present: skipped until configured, and while held.
Present(r, held) == IF r.surf # "ready" \/ held THEN r
                    ELSE [r EXCEPT !.screen = Wanted(r, fullscreen)]

\* ticked: tick_all returned true, so `||` skips physics_step in this turn.
Iterate(ticked, held) ==
  LET steps  == ~paused /\ ~ticked
      placed == [p \in Pets |->
                   ApplyPosition(IF steps THEN Step(pet[p]) ELSE pet[p])]
      moving == steps /\ \E p \in Running : placed[p].physics > 0
      draw   == redraw \/ (~paused /\ ticked) \/ moving
  IN  /\ pet' = IF draw THEN [p \in Pets |-> Present(placed[p], p \in held)]
                ELSE placed
      /\ redraw' = FALSE
      /\ UNCHANGED <<slots, slotView, pets, stack, tray, fullscreen, connected,
                     paused, exit>>

LoopTurn == \E ticked \in BOOLEAN, held \in SUBSET Running :
              /\ (AlwaysTicking \cap Loaded # {}) => ticked
              /\ ~Skips => held = {}
              /\ Iterate(ticked, held)

\* A turn past exit_at ends the loop before anything else.
ExitTurn == exit = "at" /\ QuitNow

-----------------------------------------------------------------------------
Falls == 1 .. MaxFall

Visibility ==
  \/ ToggleVisible
  \/ \E p \in Pets : TogglePetVisible(p)
  \/ \E S \in SUBSET Pets, v \in BOOLEAN : ControlSetVisible(S, v)

ModeSwitch ==
  \/ \E m \in Modes, f \in Falls : SetMoveMode(m, f)
  \/ \E p \in Pets, m \in Modes, f \in Falls : SetPetMoveMode(p, m, f)

Placement == \/ \E p \in Pets, s \in Spots : SetPlacement(p, s)
             \/ \E p \in Pets, z \in Sizes : SetSize(p, z)

Pointer ==
  \/ \E p \in Pets : Press(p) \/ Leave(p)
  \/ \E p \in Pets, far \in BOOLEAN : Move(p, far)
  \/ \E p \in Pets, f \in Falls : Release(p, f)
  \/ PointerLost
  \/ PetEvent

Next ==
  /\ exit # "done"
  /\ \/ "reload"     \in Inputs /\ \E c \in Configs : Reload(c)
     \/ "visible"    \in Inputs /\ Visibility
     \/ "mode"       \in Inputs /\ ModeSwitch
     \/ "layer"      \in Inputs /\ \E l \in Layers : SetLayer(l)
     \/ "placement"  \in Inputs /\ Placement
     \/ "pause"      \in Inputs /\ \E b \in BOOLEAN : SetPaused(b)
     \/ "quit"       \in Inputs /\ (ControlQuit \/ QuitNow)
     \/ "pointer"    \in Inputs /\ Pointer
     \/ "close"      \in Inputs /\ \E p \in Pets : Closed(p)
     \/ "fullscreen" \in Inputs /\ FullscreenChanged
     \/ "outputs"    \in Inputs /\ \E o \in Outputs : OutputGone(o) \/ NewOutput(o)
     \/ \E p \in Pets : Configure(p)
     \/ LoopTurn \/ ExitTurn

Spec == Init /\ [][Next]_vars

\* The loop always turns: every dispatch is followed by the loop body.  A turn
\* in which no pet's tick asks for a redraw recurs: an animation frame lasts
\* longer than the 16 ms physics deadline, unless a pet is AlwaysTicking.
QuietTurn == exit # "done" /\ AlwaysTicking \cap Loaded = {} /\ Iterate(FALSE, {})
FairSpec  == /\ Spec
             /\ WF_vars(exit # "done" /\ LoopTurn)
             /\ SF_vars(QuietTurn)

-----------------------------------------------------------------------------
\* Every variable holds the kind of value the code stores in it.
StateTyped ==
  /\ slotView \in [Pets -> ViewType] /\ pet \in [Pets -> PetType]
  /\ fullscreen \in BOOLEAN /\ connected \subseteq Outputs
  /\ paused \in BOOLEAN /\ redraw \in BOOLEAN
  /\ exit \in {"no", "at", "done"}

TypeOK == /\ StateTyped
          /\ slots \in Seq(Pets) /\ pets \in Seq(Pets) /\ stack \in Seq(Pets)

\* A fixed pet is never dragged, falling or about to be moved, and only a pet
\* in physics mode that nobody holds has a fall.  Press, release, mode
\* switches and reloads (handle_pointer_event, set_pet_move_mode,
\* apply_config) interleave freely with the loop body that applies positions.
Disciplined(r) ==
  /\ r.mode = "fixed" => r.drag = "none" /\ r.physics = NoPhysics /\ ~r.pending
  /\ r.physics # NoPhysics => r.mode = "physics" /\ r.drag = "none"

MotionDiscipline == \A p \in Pets : Disciplined(pet[p])

\* No redraw is lost: a configured surface shows what visibility, layer and
\* fullscreen state ask for (App::draw), or a redraw is still requested.
Current(r, fs) == r.surf = "ready" => r.screen = Wanted(r, fs)

ScreenFollowsState == redraw \/ \A p \in Pets : Current(pet[p], fullscreen)

\* App.pets is exactly the slots that have a surface, in config order, after
\* any sequence of reloads, failed loads and closed surfaces.
PetsFollowSlots == pets = Only(slots, Running)

\* The tray row of every pet that runs shows its visibility and mode, in
\* config order, whichever command, reload or close came last (sync_tray).
TrayRowsCurrent ==
  Only(tray.rows, {row \in ToSet(tray.rows) : row.id \in Running}) = TrayOf(pets, pet).rows

\* A reload never stops a running pet the new config still names, not even
\* one whose new artwork fails to load, and never shows a pet the user hid.
ReloadKeepsPets ==
  [][\A p \in Running :
       pet'[p].surf = "none" \/ pet'[p].visible # pet[p].visible =>
         \A c \in Configs : p \in ToSet(c.order) => ~Reload(c)]_vars

\* After a reload every running pet is in the mode its slot was given: a
\* session override from the tray does not outlive the reload, and a pet
\* whose reload failed keeps its old mode (set_move_mode, Runtime::apply).
ReloadRestoresMode ==
  [][\A p \in Pets :
       /\ pet'[p].surf # "none"
       /\ pet'[p].mode # slotView'[p].mode \/ pet'[p].render # slotView'[p]
       => \A c \in Configs : ~Reload(c)]_vars

\* A pet that settled is left where it is: the loop body does not re-apply
\* its last physics position over a placement made since (physics_step).
SettledStaysPut ==
  [][\A p \in Pets :
       /\ pet[p].physics = 0 /\ ~pet[p].pending
       /\ pet'[p].physics = 0 /\ pet'[p].spot = Free
       => pet[p].spot = Free]_vars

\* A fall ends: the pet settles, is caught or cancelled, unless the host is
\* paused or exits meanwhile (physics_step, run).
FallSettles ==
  \A p \in Pets : pet[p].physics > 0 ~> (pet[p].physics <= 0 \/ paused \/ exit = "done")

-----------------------------------------------------------------------------
\* What the documents and comments say and the code does not do.

\* docs/ARCHITECTURE.md:260: each turn runs tick_all() and physics_step().
\* This is FallSettles for a host with a pet that always ticks.
FallSettlesBesideTickingPet == FallSettles

\* tray.rs:8: the state the menus read is "always current".
TrayAlwaysCurrent == tray.rows = TrayOf(pets, pet).rows

\* docs/ARCHITECTURE.md:326: a pet's output is bound when it appears.
OutputBoundWhenConnected ==
  [][\A o \in Outputs : NewOutput(o) =>
       \A p \in Loaded : slotView[p].output = o => pet'[p].bound = o]_vars

\* docs/ARCHITECTURE.md:235: config order is the stacking order.
StackFollowsConfig == stack = pets

\* docs/ARCHITECTURE.md:243: a hidden pet is erased from its surface.
HiddenPetErased ==
  \A p \in Running : ~pet[p].visible /\ pet[p].surf = "ready" =>
                        pet[p].screen # "pet" \/ redraw
=============================================================================

# A verification of petweave

petweave shows animated pets on a Wayland desktop. `petweave` is the host: one
process, one layer surface per pet, one event loop. `petweave-core` holds the
configuration and data types, `petweave-settings` is a GUI that edits the
configuration file and talks to the host over a socket.

This directory holds TLA+ models of the code, TLC configurations that check
them on small instances, and proofs that TLAPS checks. Every definition is
translated from the source; `PROJECT.json` maps each one to its lines. Paths
below are relative to `src/`, and `petweave/` stands for `crates/petweave/src/`.

## The system

| component | state | operations | interacts with |
|---|---|---|---|
| Host loop (`petweave/app.rs`) | running pets (visibility, mode, drag, fall, pending position), pause, redraw and exit flags | tray and control commands, reload, pointer events, loop body (tick, physics, positions, draw) | owns everything below; one thread |
| Wayland surfaces (`petweave/platform/wayland.rs`) | per pet: surface, bound output, placement, size, scale, two buffers, input region, configured | create, rebind, apply placement, present, configure, closed, scale, output arrival | compositor, host loop |
| Runtime (`petweave/runtime/mod.rs`) | slots: resolved config, instance, frame | load, apply a config, tick, render, deadlines | pets, asset cache |
| Built-in pets (`petweave/runtime/builtin/`) | animation, held keys, timers, script | event, tick, render, next deadline | runtime |
| Asset cache (`petweave/runtime/assets.rs`) | decoded artwork | load, share, drop | runtime |
| Input readers (`petweave/platform/input.rs`, `system.rs`) | one thread per keyboard, a manager thread, a sampler | rescan, read, send | host loop's event channel |
| Singleton (`petweave/platform/singleton.rs`) | pid file and its flock | acquire, drop | other processes |
| Fullscreen tracker (`petweave/platform/fullscreen.rs`) | toplevel entries, latch, verdict | toplevel events, recompute | compositor, host loop |
| Tray (`petweave/platform/tray.rs`) | shared copy of the pets' state | menu, commands | its own thread; reads the copy, sends commands |
| Control channel (`petweave/platform/control.rs`) | clients, their outboxes | accept, read, answer, broadcast | two threads per client, host loop, settings |
| Config watcher (`petweave/platform/config_watcher.rs`) | debounce timer | inotify event, reload command | file system, host loop |
| Packages (`petweave/package.rs`) | installed packages | install, uninstall, build an archive | file system |
| Config (`petweave-core`: `config.rs`, `placement.rs`, `pet.rs`, `manifest.rs`) | none | parse, validate, resolve, place | everyone |
| Settings store (`petweave-settings`: `store.rs`) | document, baseline, last text | load, save, reload | config file, editors |
| Settings client (`client.rs`) | connection, pending requests, copy of the pets | connect, request, answer, event | control channel |
| Settings application (`app.rs`, `canvas.rs`, `ui/`) | draft, dialogs, canvas | edit, drag, save, push, close | store, client |

Components meet in four ways: channels into the host loop (input, commands,
control requests), Wayland events dispatched on it, shared state it writes and
others read (tray, control hub), and files (config, pid file, packages).

What is hard, and what makes each component correct:

- **Host.** Handlers of many sources interleave between two turns of the loop,
  which alone applies positions and draws. Correct: a drag or a fall exists
  only in a mode that allows it; a fall ends; a settled pet is not moved again;
  no redraw is lost; running pets stay in config order; a reload neither stops
  nor reveals a pet and ends session overrides; the tray's copy is current.
- **Surfaces.** Requests collect until a commit; the compositor answers late,
  holds buffers, changes scale. Correct: the input region fits the picture,
  size and scale settle on those of the frame and the monitor.
- **Runtime.** Some pets of a config fail to load. Correct: a failure keeps the
  old slot, the rest gets the new config.
- **Pets, input.** Unpaired presses and releases, hotplug, timers that fall due
  while a turn runs. Correct: no key is held twice or for ever; a pending timer
  wakes the loop; a sleeping loop shows what a tick would draw.
- **Singleton.** Processes race, exit and crash. Correct: one instance runs, a
  dead one blocks nobody.
- **Fullscreen.** Events lag behind the desktop and come in either order.
  Correct: once they are dispatched, pets hide exactly while covered.
- **Control, settings client.** Threads, sockets, malformed lines, vanishing
  peers, host restarts. Correct: every request is answered once or given up with its
  connection; a client's view moves forward only and ends up current; nothing
  of a dead client stays.
- **Store, watcher.** Power cuts between file operations, other editors,
  reordered pets. Correct: the file is whole; no edit is overwritten unseen; a
  pet keeps its own table; the host ends with the file's pets.
- **Canvas.** Rounding, snapping, a change of corner, live pushes beside saves.
  Correct: a drag lands where it was dropped; desktop and file agree.
- **Packages.** Failing and interrupted renames, competing installs and
  uninstalls. Correct: nothing is lost, half installed, or deleted by mistake.

`PROJECT.json` lists the hazards at their lines with the properties about them.
Where the code does not avoid a hazard, or only in part, a note says which part
no property covers and names the `.cfg` that shows it (see "What the code does
not keep").

## Modules

| module | models |
|---|---|
| `Host` | `app.rs` with the parts of `runtime/mod.rs` and `wayland.rs` it drives |
| `Surface` | one `PetSurface` of `wayland.rs` against a double-buffered compositor |
| `Sprite`, `Pets` | the sprite pet as operators; any of the three pets behind reader, queue and loop timeout |
| `Singleton` | `singleton.rs`, one step per system call |
| `Fullscreen` | `fullscreen.rs` beside a desktop whose events lag |
| `Mirror` | abstract: what a client may come to see of the host's pets |
| `ControlChannel` | `control.rs` and `client.rs`, thread by thread; implements `Mirror` |
| `Settings` | `store.rs`, the save flow of the settings `app.rs`, `config migrate`, `config_watcher.rs` and the host's reload around one file |
| `Canvas` | `canvas.rs`, the layout page, `placement.rs` and the host's placement handlers |
| `Packages` | `package.rs`, one step per system call |
| `MC...` | values and symmetry for TLC |
| `HostProofs` | theorems about `Host` and about `Singleton`, which guards its process |
| `SurfaceProofs`, `PetsProofs`, `FullscreenProofs`, `ControlChannelProofs`, `SettingsProofs`, `CanvasProofs`, `PackagesProofs` | theorems about the module of that name |

They compose where one delivers what another takes as input: `ControlChannel`
and `Settings` produce the commands and reloads that are actions of `Host`;
`Pets` and `Surface` say what the draws of `Host` consist of; `Canvas` uses the
requests whose delivery `ControlChannel` shows.

### Host

Each handler is one action: calloop runs them one at a time on one thread.
`Iterate` is the loop body after a dispatch: tick, physics step, apply
positions, draw. Because a dispatch may run several handlers before the body
does, handlers and loop turns interleave freely. A command's action includes its
trailing `sync_tray` and redraw request; `Reload` includes all of
`apply_config`: `Runtime::apply`, `sync_surfaces`, re-applied placements,
rebinds, `bind_named_outputs`, the tray.

| in the model | in the code |
|---|---|
| `slots`, `slotView` | `Runtime.slots`, their `ResolvedPet` |
| `pets`, `pet` | `App.pets`: order, and `PetRuntime` with its `PetSurface` |
| `drag`: none, held, moved | `PetMotion.drag` and `Drag.moved` |
| `physics`: -1, or the steps left | `PetMotion.physics`: `None`, or a `Physics` that rests at 0 |
| `pending` | `PetMotion.pending_position` |
| `spot` | anchor and margins; `Free` after `set_free_position` |
| `surf`: none, waiting, ready, stuck | no `PetRuntime`; unconfigured; configured; rebound but never committed |
| `screen`: none, blank, pet | the last buffer committed |
| `bound` | `bound_output`; `DeadOutput` is the proxy of a removed output |
| `stack` | the compositor's order of the surfaces (external) |
| `tray` | `TrayShared` |

Coordinates are abstracted: a fall takes between 1 and `MaxFall` steps, chosen
when it starts. Ticks, and whether a pet's event handler wants a redraw, are
nondeterministic. `Flaky` artwork may fail to load whenever a reload has to
load it. `BadSpots` are anchors `validate()` never parses: `create_surface` and
`apply_props` fail on them, the latter before committing.

### Surface

| in the model | in the code |
|---|---|
| `pet` | `PetSurface`: size, click-through, `input_bbox`, scale, pool size, buffers in flight, configured |
| `render`, `frame` | `PetRuntime.render`; the slot's frame |
| `wl.next`, `wl.now` | the surface's pending and committed state (external) |
| `compositor` | monitor, announced scale, answered size, configures on their way (external) |

Each operator on `PetSurface` is a function on the pair of pet and wl_surface,
and each handler of `app.rs` that calls some of them is one action. An optional
box is a set of at most one element. `skipped` is a history variable: whether
the last draw found both buffers in flight.

### Sprite and Pets

A package is chosen at the start and fixes the kind of pet, the key mode, which
reactions it has and what its script does. The loop is
`Handle`/`Wake` (dispatch), `Tick` (tick and draw), `Sleep` (ask
`next_deadline`, go to sleep), with time passing while it sleeps and, for
packages with `"slow"`, between tick and query. Instants are kept as the time
that remains. The manager's rescan and the reader's death are separate steps,
so a keyboard can come back in between. A script is what it does: play a pose,
hop for some ticks, or speak.

### Singleton

`acquire` is open with `O_CREAT`, non-blocking flock, a second open that does
not create, and a write; `Drop` is unlink, then the lock's release. A launch
can die before any of them. Locks belong to files, not to the path: a file is
named after the launch that created it.

### Fullscreen

The desktop acts and sends bursts of events; `Dispatch` handles one event and
recomputes. `reports` says whether the compositor sends output events at all;
without them the tracker falls back to hiding under any activated fullscreen
window, and the model lets pets be unnamed, move, and windows span outputs. With
them only the cases in `Hard` may happen. After `Withdraw` the handles of
windows listed before still get events.

### ControlChannel and Mirror

A connection slot holds both ends of a socket: the client's, the reader
thread's and the writer thread's life, the lines in both directions, and the
outbox. `calls` is the calloop channel. The pets are a version number: what
changes `pet_infos()` raises it, answers and events carry the one they were
made from. `Mirror` has the number of states so far and the newest one each
client knows; the refinement mapping takes the host's version and the one in
the client's copy. Scripts are clients that write what they like.

### Settings

| in the model | in the code |
|---|---|
| `disk` | the file: present, whole, synced, its text; an editor half-way through a rewrite |
| `app.doc`, `baseline`, `seen` | `Store`: the `DocumentMut`, the loaded config, `last_seen` |
| `app.draft`, `stage`, `confirm`, `owed` | `SettingsApp`: draft, the save in progress, the dialog, a reload still to be sent |
| `host.stirred`, `asked` | the watcher's `pending`; a reload command in the channel |

A text is a sequence of tables. The keys kept are `id`, `mode` with its alias
`move_mode`, one `[pets.bongo]` key for those that are removed at their
default, and the comment; `Words` are the values keys and comments may have, the same for every
file. `SyncDocument` finds tables by id as the code does.

### Canvas

Coordinates are half pixels, so that the middle of an odd gap is exact.
`SurfacePosition`, `Fitted`, `SnapMove`, `CornerAnchor` and the others are the
functions of `placement.rs` and `canvas.rs` on small integers, rounding as
`f64::round`.

| in the model | in the code |
|---|---|
| `draft`, `file`, `saved` | the pet's placement in `SettingsApp.draft` and in the file; whether the file has the pet yet |
| `lastSent` | `CanvasState.last_sent` |
| `client` | the settings client: connected, and the rectangle in its copy of the pets |
| `host` | the host: running, whether its configuration has the pet, the pet's placement |
| `toHost`, `toClient` | the connection: `SetPlacement`, `Reload`, `ListPets`; `PetsChanged` (also for the answers that carry the pets), `PetMoved` |

`HandleControl` refuses what `control_set_placement` refuses: a pet that is not
running, a margin beyond `MAX_MARGIN_ABS`. `ReloadFromDisk` drops the draft and
leaves `lastSent`. `Refresh` is the layout page's `ListPets` every two seconds,
sent when all before it was answered: an answer takes less than that.
`OtherFalls` says whether another pet may be falling meanwhile: only then is a
position of a drag within 50 ms of the last one sent left out (`notify_moved`).

### Packages

A path names a directory identity or nothing; a rename moves the identity. The
stages of a job are the system calls of `install_into`, `uninstall` and
`build`, in their order; a call that fails takes the code's error path. A
`TempDir` is removed file by file (`Unstage`, `DropStaging`), when the install
has failed or succeeded; the removal may fail or be cut off and then leaves
behind what it has not deleted yet.

## Runs

A run for each question. All states of every run are explored.

| run | instance | distinct states | shows |
|---|---|---|---|
| `Host_motion` | 1 pet, 3 modes, 2 layers, artwork that may fail, all inputs but outputs, `MaxFall` 2, fairness | 28 thousand | `TypeOK`, `MotionDiscipline`, `SettledStaysPut`, `ReloadRestoresMode`, `FallSettles` |
| `Host_pets` | 2 pets in either order or one of them, 1 removable output, 2 layers, 2 modes, an anchor that does not parse, artwork that may fail | 25 thousand | `PetsFollowSlots`, `TrayRowsCurrent`, `ScreenFollowsState`, `ReloadKeepsPets` |
| `Singleton_apart` | 4 launches, exits apart from launches | 1 thousand | `MutualExclusion`, `PidNamesInstance`, `RefusedOnlyBesideAnother` |
| `Fullscreen_follow` | 2 windows, 2 outputs, lag 2, fairness, `Hard` empty | 150 thousand | `TypeOK`, `HiddenWhileCovered`, `HidesInTheEnd` |
| `Surface_show` | 2 pictures and a blank one, 2 sizes, 2 scales, 1 configure on its way | 1.2 million | `RegionFollowsPicture`, `SizeSettles`, `SharpInTheEnd` |
| `Pets_wake` | 12 packages, 2-3 keys, 3-4 inputs, fairness | 260 thousand | `KeysBalance`, `ScreenCurrent`, `PendingWakes`, `ReactionsEnd`, `BoardsAreRead` |
| `ControlChannel_talk` | a window and a script, 2 slots, 2 versions, 4 ids, fairness | 280 thousand | `PendingUnderway`, `QuietViewIsCurrent`, `ImplementsMirror`, `RequestsAnswered`, `GoneClientsForgotten` |
| `Settings_save` | 2 texts, 3 pets, 2 edits, 3 outside steps | 1.2 million | `RefusalNeedsAlias`, `FileIsWhole`, `HostFollowsFile`, `OverwritesWhatItSaw`, `KeepsWhatWasNotEdited`, `ClosesWithConsent` |
| `Canvas_drag` | a 40 by 23 screen, 2 aims, 3 anchors, 1 margin, 2 edits, 1 outside step, fairness | 1.6 million | `DragLands`, `DesktopFollows`, `ShowsInTheEnd` |
| `Packages_install` | 2 installs, 1 uninstall, 1 build, 2 packages, 2 faults or edits | 2.0 million | `NothingLost`, `InstalledIsValid`, `OnlyUnneededIsDeleted` |

Two more runs refute what a comment or the README says:

| run | the claim | what happens |
|---|---|---|
| `Singleton_overlap` | one instance per account | two, when an exit falls between another launch's open and flock |
| `Surface_region` | clicks reach the opaque pixels only | the region is set behind the commit that shows the picture, so a pet drawn once takes clicks everywhere |

Why the bounds are enough. The handlers of `Host` treat pets alike and alone,
except where they compare them, so `Host_motion` follows one pet through
everything that can happen to it, and `Host_pets` has two for order, stacking,
tray and outputs, each pet with another reason to fail. Two steps of a fall
make one that moves and one that settles. Three launches are the fewest that
`Singleton_overlap` needs; the passing run has four, the theorems any number. A
lag of 2 lets a burst of three events queue up behind another (the bound delays
the compositor, it drops nothing), and two windows are enough for one to cover
while the other comes and goes. In `Surface` a stale configure needs one on its
way and two sizes; pictures are interchangeable, so two tell "the same" from
"another". Two slots and one of each kind of client let a client reconnect
while its old connection is still being taken down, and a broadcast meet an
answer; version and id bounds stop changes and requests, not answers. Three
tables with two edits cover copy then delete, move then edit, delete then add;
`MaxOutside` 3 lets a host start, an editor write and the power fail in one
behaviour. The canvas's screen and artwork leave odd gaps on both axes, its
aims lie off the left edge by the top, and below the screen by the middle, with
odd coordinates in between that are rounded or snapped; two edits are a placement
after another. The outside step is a
move on the desktop that is told or not, or a lost link. In `Pets` a queue of two makes events wait for each
other; timers differ in length so that they end in every order. Two faults in
`Packages` are the second that defeats the recovery from the first, or cuts off
the removal of what is left.

Bounds on what may happen, beside the counters: `OtherFalls` of `Canvas`
(true in the passing runs), and `Skips` of `Host` (a frame that
meets two buffers in flight), `OverlapsExit` of `Singleton`, `Hard` of
`Fullscreen`, and `Faults` of `Surface`, `Settings` and `Packages` name the
behaviours that the passing runs leave out because the code is known to
mishandle them; see below. What is left out is not shown: `FallSettles` says
nothing of a pet that starves a fall, `SharpInTheEnd` nothing of a scaled
surface bound anew, `OverwritesWhatItSaw` nothing of a write between comparison
and rename.

Deadlock is not checked where the modelled processes really may all be over:
`Host_motion` (quit), `Singleton`, `ControlChannel`, `Settings`, `Packages`,
and `Fullscreen` once the list is withdrawn and the windows are closed.

### Fairness

- `Host`: the loop turns as long as it runs (`WF` of `LoopTurn`): a falling pet
  sets a 16 ms deadline, so `dispatch` returns. And turns in which no tick
  wants a redraw recur (`SF` of `QuietTurn`): an animation frame lasts longer
  than the physics deadline, so most turns have none due. The second is void for a
  pet in `AlwaysTicking`, whose tick wants a redraw on every turn.
- `Fullscreen`: queued events are dispatched.
- `ControlChannel`: each thread runs, the host loop dispatches its channel and
  a window ticks its client each frame. Nobody has to connect, ask, or close.
- `Pets`: the loop, the clock, the manager's rescan and the sampler (every 5
  seconds) go on, and a user lets go of keys. Nobody has to press one.

- `Canvas`: the host's loop handles its requests (`HandleControl`), the window
  polls its client each frame (`Receive`), and while the layout page is open it
  asks for the pets again (`Refresh`): its previews ask for a repaint every
  100 ms, so a frame comes after the two seconds. Nobody has to edit, drag or
  connect; `ShowsInTheEnd` assumes that the link stays up from some time on.

`Surface`, `Settings` and `Packages` state safety only.

## What the code does not keep

Each of these is a property in its module that states what a document or a
comment says; TLC refutes it in seconds with the `.cfg` of that name
(`tlc -config X.cfg M`). The properties of the runs above are stated so that
they hold in spite of them.

| cfg (module) | property | the claim, and what happens |
|---|---|---|
| `Host_starved` (`MCHost`) | `FallSettlesBesideTickingPet` | each turn ticks and steps physics (`docs/ARCHITECTURE.md:260`): `tick_all() \|\| physics_step(dt)` skips the step while a pet redraws |
| `Host_tray_closed` (`MCHost`) | `TrayAlwaysCurrent` | the menu's state is always current (`petweave/platform/tray.rs:7`): a surface the compositor closed leaves its row |
| `Host_replug` (`MCHost`) | `OutputBoundWhenConnected` | a named output is bound when it appears (`docs/ARCHITECTURE.md:326`): not after an unplug |
| `Host_stack` (`MCHost`) | `StackFollowsConfig` | config order is stacking order (`docs/ARCHITECTURE.md:235`): surfaces keep their creation order |
| `Host_erase` (`MCHost`) | `HiddenPetErased` | hiding erases the pet (`docs/ARCHITECTURE.md:242`): not when both buffers are in flight |
| `Fullscreen_unnamed` (`Fullscreen`) | `HiddenWhileCovered` | pets hide under a fullscreen window (`README.md:384`): never, when no pet names an output |
| `Surface_scale` (`MCSurface`) | `SharpInTheEnd` | a surface bound anew keeps the old scale, and `scale_factor_changed` ignores an equal one: the pet stays at the wrong scale |
| `Pets_click` (`MCPets`) | `ClickIsShown` | a click's animation is played (`docs/PACKAGES.md:211`): in paw mode the click sets both paw timers, and the next tick replaces its pose with that of the paws |
| `Pets_idle` (`MCPets`) | `IdleSleeps` | a still script lets the host sleep (`docs/PACKAGES.md:334`): a bubble that ran out remains a deadline, and the loop spins |
| `Pets_hold` (`MCPets`) | `HoldStays` | a held key keeps its pose (`docs/PACKAGES.md:178`): not after the release of a key that was down before the reader was there |
| `Settings_first` (`MCSettings`) | `FirstSaveIsApplied` | changes at run time are reloaded (`README.md:300`): a host started without a file has no path and no watcher |
| `Canvas_resend` (`MCCanvas`) | `DesktopFollowsEveryEdit` | the desktop follows the form (`petweave-settings/src/app.rs:309`): `should_send` believes the host still has what it sent last |
| `Canvas_offline` (`MCCanvas`) | `OfflineShowsDraft` | offline the canvas shows the draft: it keeps the last rectangles it heard of |
| `Canvas_throttle` (`MCCanvas`) | `CanvasFollowsDesktop` | one final `PetMoved` once every pet has settled (`petweave/app.rs:1336`): while another pet falls the last position of a drag may be throttled, nothing moves on the release, and the fall's own last event names only the pet that fell. A pet dragged alone is never throttled; the layout page's refresh every two seconds heals it (`ShowsInTheEnd`) |

Members of the `Hard` and `Faults` constants show more of the kind. `"moves"`:
the fullscreen verdict stays about the old output until the next toplevel
event. `"spans"`: a window that entered a second output and left it again has
none. `"window"`: a program that writes the configuration between `save`'s
comparison and its rename is overwritten. `"early"`: a change between the
host's read and the watch is not noticed. `"cut-migrated"`: `config migrate`
renames a file it did not sync. `"skip"`: `petweave package` leaves out a
directory it cannot read.

Differences that need no model: `sync_tray` sets `visible` when all pets are
visible, its comment (`petweave/platform/tray.rs:40`) says any;
`docs/ARCHITECTURE.md:297` says `mode = "physics"` enables gravity, but a pet
configured so hangs in the air until a drag or a mode switch starts a fall;
`docs/GUI_ROADMAP.md:347` says Quit takes at most 100 ms, but each further one
starts them again; `SpritePet::reload` ignores changed options; a file whose
table uses the alias `move_mode` refuses to be saved once the mode is cleared
or the pet copied; `release_all` has no caller, so keys of an unplugged
keyboard stay held; `preview_key` leaves out `options`; `placement.rs:149` says
opposite edges squeeze the size, the function keeps it; `lua.rs:693` cuts a
bubble's text at byte 40, which need not be the end of a character.

## Proofs

`tlapm` checks every leaf with Z3, Zenon and, for the temporal steps, LS4. What
is proved holds for every value of the constants that satisfies the module's
named assumption (`HostAssumption`, `PetsAssumption`, ...; TLC evaluates
each on every run of its module) and the hypotheses given here, which name the
same `Faults`, `Hard` or `Skips` that the runs leave out. Names in brackets are
the properties of the runs that the theorem states.

`HostProofs`, for any pets, configurations, outputs and inputs:

- `Typing` [`TypeOK`] and `MotionIsDisciplined` [`MotionDiscipline`] follow
  from the invariant `IInv`: a mode switch preserves discipline only because a
  typed record stays typed, and a fall started by a handler has a legal length
  only by typing. Since the actions rewrite one pet's record with a few
  operators (`Cancel`, `Rebind`, `SetMode`, `Reapply`, `Step`, ...), the proof
  first shows that each operator keeps a record good, then lifts that through
  each action.
- `ScreenIsCurrent` [`ScreenFollowsState`], without `Skips`. Every action
  either requests a redraw, or leaves what decides the picture alone, or is the
  loop body, after which every configured surface shows what is wanted.
  `Host_erase` shows why the assumption is needed.
- `PetsAreInOrder` [`PetsFollowSlots`], from `Ordered`. The property alone is
  not inductive: a reload sorts the running pets by their slots, so a pet that
  ran without a slot would vanish and a slot that occurred twice would double
  it. `Ordered` adds that a running pet is loaded and that a slot occurs once.
- `TrayIsCurrent` [`TrayRowsCurrent`], from `Listed`. Every action either
  rebuilds the rows from the running pets, or changes no pet's mode and
  visibility and removes pets only, which removes rows of the comparison.
- `ReloadKeepsThem` [`ReloadKeepsPets`], `ReloadRestores`
  [`ReloadRestoresMode`], `SettledStay` [`SettledStaysPut`]: what the steps of
  these actions do, from the invariants above.

  The sequences of `Host` are filtered and reordered. The provers cannot do
  induction over data, so facts about all sequences are proved from a shortest
  counterexample (`Smallest`): if some prefix breaks the fact, the shortest
  that does is not empty, and the one before it contradicts it. For that reason
  `Only` (and `Without` in `Sprite`) is a recursive function over positions and
  not a `SelectSeq`, whose definition the provers do not expand.

`HostProofs`, last section, about `Singleton`, for any number of launches:
`LaunchTyping` always; and, provided no exit removes the pid file
between another launch's open and flock, `OneInstance` [`MutualExclusion`],
`PidFileIsRight` [`PidNamesInstance`] and `NoStaleLock`
[`RefusedOnlyBesideAnother`]. The invariant adds to typing that every lock has
a living owner (`LocksHeld`) and that every launch that may still lock or run
has the file the path names (`SameFile`). The second is what the unlink breaks
in `Singleton_overlap`.

`SurfaceProofs`, for any pictures, sizes, scales and monitors:

- `RegionIsRight` [`RegionFollowsPicture`]. The region is only sent when it
  differs from the one remembered, so the property alone is not inductive. The
  invariant adds that a remembered region is the one sent last and that the
  pending picture is the shown one (`Kept`); a new surface forgets both, which
  is what the mutant `ReboundKeepingBox` breaks.
- `SizeSettlesHolds` [`SizeSettles`] from `Sized` and `Drawn`: whoever changes a
  size either asks the compositor, whose answer makes the rest follow, or leaves
  a redraw behind. `SharpInTheEndHolds` [`SharpInTheEnd`] adds `Scaled`, which
  holds unless a scaled surface is bound to another monitor (`"rescaled"` not
  in `Faults`).

`PetsProofs`, for any packages (every combination of kind, key mode, reactions
and script in `Package`), keys, times and inputs: `PetsInvariant`, an invariant
of six parts, and from it

- `KeysBalanceHolds` [`KeysBalance`]. The property speaks of a drained channel
  only, so it says nothing while events are under way. `Heard` does: the last
  word on a key is the last event about it in the queue, or else whether the
  pet holds it; and whenever that word is "down", the key is down and its
  reader alive, or it went with its board. A press without a release behind it
  in the queue is the reader's, and the reader's scan, its death and each
  delivery keep the last word right. The count of a sprite (`down`) is at most
  the number of keys held, and a sprite without any is at rest (`Balanced`).
- `PendingWakesHolds` [`PendingWakes`], from `Alarmed`: some timeout of the
  loop is at or before every timer of a sleeping pet. Time takes the same from
  both, which keeps it so between `Sleep` and the next wake.
- `ScreenCurrentHolds` [`ScreenCurrent`], from `Follows` (without a redraw
  pending, the surface shows what the pet remembers to have drawn) and
  `UpToDate` (from the tick to the end of the sleep the surface shows the pet as
  it is, and nothing else is due on show). Another tick draws the same picture
  only because of both.

`FullscreenProofs`, for any windows, outputs and lag: `Typing` [`TypeOK`], and
with `Hard` empty `HiddenWhileCoveredHolds` [`HiddenWhileCovered`]. What the
tracker will know is what it makes of the events still queued. The invariant
does not compute that, it says that there is a path of entries, one for each
queued event, from those the tracker has to entries that agree with the
desktop: a burst lengthens the path, a dispatch takes its first step.

`ControlChannelProofs`, for any clients, scripts, connections and mishaps:

- `QuietViewIsCurrentHolds` [`QuietViewIsCurrent`] and `MirrorImplemented`
  [`ImplementsMirror`], the refinement of `Mirror`: every step maps to a step of
  `Mirror` or a stutter.
- The invariant: how the ends of a connection depend on each other (`Base`: a
  window that can be written to is in the hub); the lines in socket and outbox
  taken together (`Stream`) carry versions that rise from the client's to the
  host's (`Rises`); a request on its way is of the kind the client remembers
  under its id (`Matches`); and the last line about the pets is the host's
  state or an answer that brings it is still to come (`Fresh`).
- `PendingUnderwayHolds` [`PendingUnderway`], from `Traces`: for each request,
  the places it has in the four queues, counted, are as many as the client waits
  for. Whatever takes a line out of one queue puts it into the next, and ids are
  never used again. Events must carry none, else one would end a wait.

`SettingsProofs`, for any texts, pets, edits and outside steps:

- `WindowIsSound`: types, and how the window's document, baseline, draft and
  text belong together (`Typed`, `Sound`). From it, whatever else happens:
  `RefusalNeedsAliasHolds` [`RefusalNeedsAlias`], `ClosesWithConsentHolds`
  [`ClosesWithConsent`].
- `FileIsWholeHolds` [`FileIsWhole`] and `KeepsWhatWasNotEditedHolds`
  [`KeepsWhatWasNotEdited`] without `"cut-migrated"`, `OverwritesWhatItSawHolds`
  [`OverwritesWhatItSaw`] without `"window"`, `HostFollowsFileHolds`
  [`HostFollowsFile`] without `"early"`, from one more invariant for each of
  these faults (`Whole`, `Seen`, `Followed`).
- They rest on two lemmas about texts: `DraftReadsBack` (a valid draft without
  the alias, written into any document and parsed again, is that draft) and
  `SyncKeeps` (a table that was not edited is written back as it was).

`CanvasProofs`, for any screen, artwork, widths, inherited placement, aims and
edits:

- `DragLandsHolds` [`DragLands`], arithmetic about one step: snapping stays on
  the screen, rounding to pixels moves a position by half a pixel at most
  (`AxisLands`), and margins taken at a corner put the box back where they were
  taken (`PlacementLands`), whatever edges the entry had and inherited. Its
  hypothesis `MarginsReach` says that no screen is larger than `MaxMargin` and
  no surface hangs out of it by more: margins are clamped to 8192
  (`canvas.rs:348`), surfaces have at most 4096 pixels a side
  (`config.rs:816`), so it holds on every screen of up to 8192 pixels a side.
- `DesktopFollowsHolds` [`DesktopFollows`], from `Sent`: while a push of the
  page stands, the last placement on its way to the host, or else the host's
  own, says the same as the draft, and so does what the page believes to have
  sent. Two placements say the same when they agree on the anchored edges only,
  which is why the four margins of a push and the written ones may differ.
  That the host refuses none of the page's margins rests on `CanvasAssumption`:
  defaults and typed margins lie within `MaxMargin`, which `validate`
  (`config.rs:836`) and the form's `opt_i32_row` see to.

`PackagesProofs`, for any packages, processes, failures and kills:

- Always: `OnlyUnneededIsDeletedHolds` [`OnlyUnneededIsDeleted`], and
  `InstalledLoads`: an installed package that nobody uninstalls has a manifest
  that loads, under its name or as a backup.
- For authors who keep a package's name and never leave it without artwork, and
  without the builder's `"skip"` (`Steady`): `InstalledIsValidHolds`
  [`InstalledIsValid`], `NothingLostHolds` [`NothingLost`].
- The invariant says that no directory has two paths (`Apart`), what the stage
  of an install says about its staging directory (`Staged`: a backup is in use
  until the new package has left the directory, also where the removal of what
  is left fails), that a directory
  can only ever stand under one name (`Homes`), and that what is needed has a
  manifest (`Readable`), a place (`Somewhere`) and artwork (`Complete`).

Every invariant and every action property of the passing runs that needs no
fairness is thus a theorem. Only model-checked: liveness and whatever needs
fairness, which is beyond the provers (`FallSettles`, `HidesInTheEnd`,
`RequestsAnswered`, `GoneClientsForgotten`, `ReactionsEnd`, `BoardsAreRead`,
`ShowsInTheEnd`),
and what the `.cfg`s of "What the code does not keep" refute.

## Not modelled

- Asset cache and paws: a cache used by one thread and freed by reference
  counts, and a drawing routine. `Host` knows only that artwork may fail to load.
- Pixels, texts, logging, fonts, widgets of the other settings pages, the D-Bus
  and socket wire formats, the Lua sandbox, device discovery.
- Times, where only their order matters: 50 ms between moves, 100 ms before an
  exit, the debounce. `Status` events.
- Wayland protocol errors: committing a layer surface whose size was never set
  would end the connection, and `Host` keeps such a surface `stuck`.
- In `Settings`, most keys of a table; in `Packages`, archive limits.

## Plan

The plan's modules are written and its theorems proved. What would come next,
by worth:

1. The loading of pets (`runtime/mod.rs`, `manifest.rs`): which failure of a
   package leaves which slot, with the texts of the tray.
2. Device discovery (`input.rs`) and the capture of the hotkeys.
3. `exit_at` and the other timeouts as times rather than as an order.

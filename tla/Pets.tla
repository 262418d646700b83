-------------------------------- MODULE Pets --------------------------------
(***************************************************************************)
(* One pet in the host loop: the keyboard and its reader thread            *)
(* (platform/input.rs), the event channel, the loop's turn (dispatch, tick,*)
(* draw, ask for the next deadline, sleep: app.rs), and the three kinds of *)
(* pet that keep time: the sprite (module Sprite), the bongo cat           *)
(* (builtin/bongo.rs) and the Lua pet over a sprite (builtin/lua.rs).      *)
(* The package g is chosen once; the loop knows the pet only through       *)
(* on_event, tick, render and next_deadline, as in the code.               *)
(*                                                                         *)
(* Time is what remains of each timer.  It passes while the loop sleeps,   *)
(* and also between the tick of a turn and the question for the next       *)
(* deadline (the draw is in between).                                      *)
(*                                                                         *)
(* The bounds come with the package: g.codes are the keys typed, g.inputs  *)
(* how many presses, clicks, unplugs and pauses there are in all, and      *)
(* g.mishaps which of "click", "unplug", "pause" and "slow" happen.        *)
(***************************************************************************)
EXTENDS Sprite, FiniteSetsExt

CONSTANTS Packages,   \* the packages a behaviour may start with
          Strokes,    \* how long a bongo paw stays down
          Nap,        \* idle time before the cat sleeps
          Hops,       \* steps of a script's hop
          Bubble,     \* how long a speech bubble stays
          MaxQueue    \* bound: events waiting for the loop

(* What a manifest and a script can say of a pet, and the two bounds.      *)
Animations == {Rest, "left", "right", "both", "click", "hot"}
Package ==
  [kind : {"bongo", "sprite", "lua"}, press : BOOLEAN, alternate : BOOLEAN,
   force : BOOLEAN, ownKeys : BOOLEAN, ownPixels : BOOLEAN,
   poses : SUBSET {"left", "right", "both", "click"},
   long : SUBSET Animations, loops : SUBSET Animations,
   hands : BOOLEAN, mirror : BOOLEAN, scheduled : BOOLEAN, naps : BOOLEAN,
   script : SUBSET {"pose", "hop", "speak", "chat"},
   codes : SUBSET Nat, inputs : Nat, mishaps : SUBSET {"click", "unplug", "pause", "slow"}]

ASSUME PetsAssumption ==
  /\ Strokes \in Nat \ {0} /\ Nap \in Nat \ {0} /\ Hops \in Nat /\ Bubble \in Nat
  /\ Packages \subseteq Package

VARIABLES g, pet,
          keys,     \* keys physically down
          board,    \* the keyboard is plugged in
          reader,   \* its reader thread: "none", "live", or "dead" and not yet pruned
          lost,     \* keys whose release went with the unplugged board
          queue,    \* the event channel
          pc,       \* the loop: "asleep", "woken", "ticked"
          wake,     \* the loop's timeout, as the time that remains
          dirty,    \* needs_redraw
          drawn,    \* what the surface shows
          paused, night,
          due,      \* time passed since the last tick
          late,     \* "slow": time passed between the last tick and the deadline
                    \* query; "frozen": the pet was drawn for an event while paused
          inputs
env  == <<keys, board, reader, lost>>
loop == <<pc, wake, dirty, drawn, due, late>>
vars == <<g, pet, env, queue, loop, paused, night, inputs>>

Other(paw) == Side(paw = "left")
Timed == g.kind = "bongo" \/ (g.kind = "sprite" /\ ~g.press)

(* What render would draw now.                                             *)
Sleeping(p) == (g.scheduled /\ night) \/ 0 \in p.doze
SelectFrame(p) ==
  CASE p.left > 0 /\ p.right > 0 -> "both"
    [] p.left > 0 /\ p.right = 0 -> "left"
    [] p.left = 0 /\ p.right > 0 -> "right"
    [] OTHER -> "idle"
FrameId(p) == IF Sleeping(p) THEN "sleeping" ELSE SelectFrame(p)
Speaking(p) == \E t \in p.speech : t > 0
View(p) == IF g.kind = "bongo" THEN <<FrameId(p), 0, 0, FALSE>>
           ELSE <<p.cur, p.frame, p.hop, Speaking(p)>>

(* A bongo paw goes down for its full time at every press; the keys are    *)
(* discarded while the cat sleeps by schedule.                             *)
BongoPaw(p, c) == LET paw == IF g.hands THEN PawFor(c) ELSE p.random
                  IN  IF g.mirror THEN Other(paw) ELSE paw
(* Mutant: whatever comes over the channel counts as a key press.          *)
BongoEventAny(p, e) ==
  IF g.scheduled /\ night THEN p
  ELSE [p EXCEPT ![BongoPaw(p, e.code)] = Strokes,
                 !.doze = IF g.naps THEN {Nap} ELSE @]
BongoEvent(p, e) ==
  IF e.type # "press" \/ (g.scheduled /\ night) THEN p
  ELSE [p EXCEPT ![BongoPaw(p, e.code)] = Strokes,
                 !.random = IF g.hands THEN @ ELSE Other(@),
                 !.doze = IF g.naps THEN {Nap} ELSE @]

SpriteEvent(p, e) ==
  CASE e.type \in {"press", "release"} /\ g.ownKeys -> p
    [] e.type = "press" /\ ~g.ownKeys /\ g.press     -> PressKey(g, p, e.code)
    [] e.type = "release" /\ ~g.ownKeys /\ g.press   -> ReleaseKey(p, e.code)
    [] e.type = "press" /\ ~g.ownKeys /\ ~g.press    -> Strike(g, p, e.code)
    [] e.type = "click" -> Click(g, p)
    [] OTHER -> p
SpriteChanged(p, e) ==
  CASE e.type = "press" /\ ~g.ownKeys /\ ~g.press -> Reaction(g, PawFor(e.code)) # {}
    [] e.type = "click" -> "click" \in g.poses
    [] OTHER -> SpriteEvent(p, e).cur # p.cur

(* The script's handlers, by what they do: pose, hop and speak on a key,   *)
(* speak on a system sample, and a step of the hop on every on_tick.       *)
OnKey(p, e) ==
  LET q == [p EXCEPT !.hop = IF "hop" \in g.script /\ e.type = "press" THEN Hops ELSE @,
                     !.speech = IF "speak" \in g.script /\ e.type = "press"
                                  THEN {Bubble} ELSE @]
  IN  IF "pose" \in g.script THEN Play(q, IF e.type = "press" THEN "left" ELSE Rest) ELSE q
Scripted(p, e) ==
  CASE e.type \in {"press", "release"} -> OnKey(p, e)
    [] e.type = "system" /\ "chat" \in g.script -> [p EXCEPT !.speech = {Bubble}]
    [] OTHER -> p
OnTick(p) == [p EXCEPT !.hop = Capped(@)]

LuaEvent(p, e) ==
  LET q == SpriteEvent(Scripted(p, e), e)
  IN  [q EXCEPT !.anim = @ \/ (g.ownKeys /\ e.type \in {"press", "release"})]
LuaChanged(p, e) == \/ g.ownPixels /\ e.type \in {"press", "release"}
                    \/ SpriteChanged(Scripted(p, e), e)

OnEvent(p, e) == CASE g.kind = "bongo"  -> BongoEvent(p, e)
                   [] g.kind = "sprite" -> SpriteEvent(p, e)
                   [] g.kind = "lua"    -> LuaEvent(p, e)
Changed(p, e) == CASE g.kind = "bongo"  -> e.type = "press" /\ ~(g.scheduled /\ night)
                   [] g.kind = "sprite" -> SpriteChanged(p, e)
                   [] g.kind = "lua"    -> LuaChanged(p, e)

(* One tick, as the pet after it (`last`, `said`: what it knows to be      *)
(* drawn).  A script that places the image runs before the sprite and      *)
(* again after it, and stays awake for as long as the second run moves.    *)
SpriteStep(p) == LET q == SpriteTick(g, p, due) IN [q EXCEPT !.last = <<q.frame>>]
LuaTick(p) ==
  LET a == SpriteStep(IF g.ownPixels THEN OnTick(p) ELSE p)
      b == OnTick(a)
  IN  [b EXCEPT !.anim = IF g.ownPixels THEN @ /\ b.hop # a.hop ELSE @,
                !.said = Speaking(p)]
TickPet(p) == CASE g.kind = "bongo"  -> [p EXCEPT !.last = <<FrameId(p)>>]
                [] g.kind = "sprite" -> SpriteStep(p)
                [] g.kind = "lua"    -> LuaTick(p)
TickChanged(p) ==
  CASE g.kind = "bongo"  -> TickPet(p).last # p.last
    [] g.kind = "sprite" -> TickPet(p).cur # p.cur \/ TickPet(p).last # p.last
    [] g.kind = "lua"    -> \/ ~g.ownPixels
                            \/ TickPet(p).cur # p.cur \/ TickPet(p).last # p.last
                            \/ TickPet(p).hop # p.hop \/ TickPet(p).said # p.said

BongoDeadlines(p) == ({p.left, p.right} \ {0}) \cup (p.doze \ {0})
                       \cup (IF g.scheduled THEN {1} ELSE {})
(* Mutant: a script's animation does not keep the loop awake.              *)
LuaDeadlinesStill(p) == SpriteDeadlines(g, p) \cup p.speech
LuaDeadlines(p) == (IF p.anim /\ SpriteDeadlines(g, p) = {} THEN {1}
                    ELSE SpriteDeadlines(g, p)) \cup p.speech
NextDeadline(p) ==
  LET ds == CASE g.kind = "bongo"  -> BongoDeadlines(p)
              [] g.kind = "sprite" -> SpriteDeadlines(g, p)
              [] g.kind = "lua"    -> LuaDeadlines(p)
  IN  IF ds = {} THEN {} ELSE {Min(ds)}

NewPet == [cur |-> Rest, frame |-> 0, held |-> <<>>, down |-> 0, any |-> FALSE,
           nextRight |-> FALSE, lastRight |-> FALSE, left |-> 0, right |-> 0,
           last |-> <<>>, random |-> "left", doze |-> {},
           hop |-> 0, anim |-> FALSE, speech |-> {}, said |-> FALSE]

Init ==
  /\ g \in Packages
  /\ pet = IF g.kind = "bongo" THEN [NewPet EXCEPT !.last = <<"idle">>] ELSE NewPet
  /\ keys = {} /\ board = TRUE /\ reader = "none" /\ lost = {}
  /\ queue = <<>> /\ pc = "woken" /\ wake = {} /\ dirty = TRUE /\ drawn = <<"none", 0, 0, FALSE>>
  /\ paused = FALSE /\ night = FALSE /\ due = FALSE /\ late = "no" /\ inputs = 0

Spend == inputs < g.inputs /\ inputs' = inputs + 1
Happens(m) == m \in g.mishaps /\ Spend
Send(e) == Len(queue) < MaxQueue /\ queue' = Append(queue, e)
Read(type, c) == IF reader = "live" THEN Send([type |-> type, code |-> c])
                 ELSE UNCHANGED queue
Sleeper == UNCHANGED <<g, pet, loop, paused, night>>

KeyDown(c) == /\ c \in g.codes /\ Spend /\ board /\ c \notin keys /\ keys' = keys \cup {c}
              /\ Read("press", c)
              /\ UNCHANGED <<board, reader, lost>> /\ Sleeper
KeyUp(c) == /\ c \in keys /\ keys' = keys \ {c} /\ Read("release", c)
            /\ UNCHANGED <<board, reader, lost, inputs>> /\ Sleeper
(* The reader's next read fails; the releases of the keys that were down   *)
(* never come.                                                             *)
Unplug == /\ Happens("unplug") /\ board /\ board' = FALSE
          /\ keys' = {} /\ lost' = lost \cup keys
          /\ reader' = IF reader = "live" THEN "dead" ELSE reader
          /\ UNCHANGED queue /\ Sleeper
Plug == /\ ~board /\ board' = TRUE
        /\ UNCHANGED <<keys, reader, lost, queue, inputs>> /\ Sleeper
(* Mutant: a reader thread that died stays in the list.                    *)
ScanByPath == /\ reader' = CASE board /\ reader = "none" -> "live"
                            [] board /\ reader # "none" -> reader [] OTHER -> "none"
              /\ reader' # reader
              /\ UNCHANGED <<keys, board, lost, queue, inputs>> /\ Sleeper
(* The manager's rescan: readers for boards it has none of, then the dead  *)
(* ones and those of missing boards pruned.                                *)
Scan == /\ reader' = CASE board /\ reader # "dead" -> "live" [] OTHER -> "none"
        /\ reader' # reader
        /\ UNCHANGED <<keys, board, lost, queue, inputs>> /\ Sleeper
ClickPet == /\ Happens("click") /\ Send([type |-> "click", code |-> 0])
            /\ UNCHANGED env /\ Sleeper
(* The sampler's period is longer than a step of time.                     *)
Sample == /\ due /\ queue = <<>> /\ Send([type |-> "system", code |-> 0])
          /\ UNCHANGED <<env, inputs>> /\ Sleeper

(* The loop: every waiting event, one tick, one draw, then the deadline.   *)
Handle == /\ pc \in {"asleep", "woken"} /\ queue # <<>>
          /\ pc' = "woken" /\ queue' = Tail(queue)
          /\ pet' = OnEvent(pet, Head(queue))
          /\ dirty' = (dirty \/ Changed(pet, Head(queue)))
          /\ late' = IF paused /\ Changed(pet, Head(queue)) THEN "frozen" ELSE late
          /\ UNCHANGED <<g, env, wake, drawn, due, paused, night, inputs>>
Wake == /\ pc = "asleep" /\ 0 \in wake /\ pc' = "woken"
        /\ UNCHANGED <<g, pet, env, queue, wake, dirty, drawn, due, late, paused, night, inputs>>
TogglePause == /\ Happens("pause") /\ pc = "asleep" /\ pc' = "woken" /\ paused' = ~paused
               /\ UNCHANGED <<g, pet, env, queue, wake, dirty, drawn, due, late, night>>
Tick == /\ pc = "woken" /\ pc' = "ticked"
        /\ pet' = IF paused THEN pet ELSE TickPet(pet)
        /\ due' = (paused /\ due)
        /\ drawn' = IF dirty \/ (~paused /\ TickChanged(pet)) THEN View(pet') ELSE drawn
        /\ dirty' = FALSE
        /\ late' = IF late = "frozen" /\ (paused \/ drawn' = drawn) THEN late ELSE "no"
        /\ UNCHANGED <<g, env, queue, wake, paused, night, inputs>>
Sleep == /\ pc = "ticked" /\ pc' = "asleep"
         /\ wake' = IF paused THEN {} ELSE NextDeadline(pet)
         /\ UNCHANGED <<g, pet, env, queue, dirty, drawn, due, late, paused, night, inputs>>

Count(ts) == {Capped(t) : t \in ts}
Elapse == /\ pc = "asleep" \/ (pc = "ticked" /\ "slow" \in g.mishaps)
          /\ pet' = [pet EXCEPT !.left = Capped(@), !.right = Capped(@),
                                !.doze = Count(@), !.speech = Count(@)]
          /\ wake' = Count(wake) /\ due' = TRUE
          /\ late' = IF pc = "ticked" /\ late = "no" THEN "slow" ELSE late
          /\ night' \in IF g.scheduled THEN BOOLEAN ELSE {night}
          /\ UNCHANGED <<g, env, queue, pc, dirty, drawn, paused, inputs>>

Turn == Handle \/ Wake \/ TogglePause \/ Tick \/ Sleep
Keyboard == \/ \E c \in g.codes : KeyDown(c) \/ KeyUp(c)
            \/ Unplug \/ Plug \/ Scan
Next == Turn \/ Keyboard \/ ClickPet \/ Sample \/ Elapse
Spec == Init /\ [][Next]_vars

(* The threads run: the loop, the reader manager and the sampler; a user   *)
(* lets go of a key.  Nobody need press one.                               *)
Fairness == /\ WF_vars(Handle) /\ WF_vars(Wake) /\ WF_vars(Tick) /\ WF_vars(Sleep)
            /\ WF_vars(Elapse) /\ WF_vars(Scan) /\ WF_vars(Sample)
            /\ \A c \in UNION {q.codes : q \in Packages} : WF_vars(KeyUp(c))
FairSpec == Spec /\ Fairness

-----------------------------------------------------------------------------
(* Key bookkeeping (sprite.rs press_key/release_key): once the channel is  *)
(* drained, every key the pet takes for held is down, or went with its     *)
(* board; no key is held twice, the pet never counts more keys than it     *)
(* holds, and with all keys up and none lost it is back at rest, whatever  *)
(* releases came of keys pressed before the reader was there.              *)
KeysBalance ==
  (queue = <<>> /\ g.kind = "sprite" /\ g.press) =>
    /\ HeldCodes(pet) \subseteq keys \cup lost
    /\ Cardinality(HeldCodes(pet)) = Len(pet.held) /\ pet.down <= Len(pet.held)
    /\ (keys = {} /\ lost = {}) => /\ pet.held = <<>> /\ ~pet.any
                                   /\ pet.cur \in {Rest, "click"}

(* What the surface shows while the loop sleeps is what another tick would *)
(* draw: every change of state asked for a redraw, and no timer can run    *)
(* out before the loop's own timeout.  A turn that outlasted a timer, a    *)
(* pause, and a bubble whose text changed are the exceptions.              *)
Settled(p) == [TickPet(p) EXCEPT !.frame = p.frame, !.hop = p.hop]
ScreenCurrent ==
  (pc = "asleep" /\ queue = <<>> /\ ~paused /\ late = "no" /\ 0 \notin wake)
    => drawn = View(Settled(pet))

(* next_deadline covers all that is pending: a loop without a timeout has  *)
(* no paw down, no nap or bubble to come, and no hop of a script that owns *)
(* the keys in flight.                                                     *)
PendingWakes ==
  (pc = "asleep" /\ wake = {} /\ ~paused /\ late = "no") =>
    /\ pet.left = 0 /\ pet.right = 0 /\ pet.speech = {} /\ pet.doze \subseteq {0}
    /\ g.ownKeys => pet.hop = 0

(* "click: played once when the pet is clicked" (docs/PACKAGES.md:211): a  *)
(* turn that ticks a pet in the pose of its click draws that pose.         *)
ClickIsShown ==
  [][(Tick /\ pet.cur = "click" /\ pet.left > 0 /\ pet.right > 0)
       => drawn'[1] = "click"]_vars

(* "a pet that declares OWN_KEYS lets the host sleep while its script is   *)
(* still" (docs/PACKAGES.md:334): no hop, no bubble and no reaction means  *)
(* no timeout of zero.                                                     *)
IdleSleeps ==
  (pc = "asleep" /\ g.ownKeys /\ pet.hop = 0 /\ ~Speaking(pet)
     /\ pet.left = 0 /\ pet.right = 0 /\ late = "no" /\ ~due) => 0 \notin wake

(* "a key that is not let go keeps its pose" (docs/PACKAGES.md:178): a     *)
(* press-mode sprite that holds a key that is down is not at rest.         *)
HoldStays ==
  (queue = <<>> /\ g.kind = "sprite" /\ g.press /\ HeldCodes(pet) \cap keys # {})
    => pet.cur # Rest

(* A reaction ends: a cat or a paw-mode sprite that nobody types to comes  *)
(* back to rest, on the surface and for good, also when a turn outlasted   *)
(* the deadline (then the sampler's next event brings it back).            *)
ReactionsEnd ==
  Timed => <>[](paused \/ late = "frozen" \/ drawn[1] \in {"idle", "sleeping"})

(* A keyboard that stays plugged in is read (input.rs manager_loop), also  *)
(* one that came back under its old path before the dead reader was pruned.*)
BoardsAreRead == <>[]board => <>[](reader = "live")
=============================================================================

------------------------------- MODULE Sprite -------------------------------
(***************************************************************************)
(* The declarative sprite pet (runtime/builtin/sprite.rs) as operators on  *)
(* one record.  A pet p has                                                *)
(*   cur, frame   the animation on show and its frame,                     *)
(*   held, down   press mode: the keys down with the pose each of them     *)
(*                took, oldest first, and the number the pet counts,       *)
(*   any          a key was down at the last tap,                          *)
(*   nextRight, lastRight   the hands of the alternation,                  *)
(*   left, right  what is left of each paw's reaction (0: none or over).   *)
(* A package g says which reactions it declares (poses), which animations  *)
(* have more than one frame (long) and repeat (loops), and the key mode.   *)
(* Instants are kept as the time that remains, in frame durations.  An     *)
(* optional value is a set of at most one element.                         *)
(***************************************************************************)
EXTENDS Integers, Sequences, FiniteSets

CONSTANTS LeftKeys,   \* codes on the left half of the keyboard
          Hotkeys     \* codes with a reaction of their own

Rest == "idle"
Side(right) == IF right THEN "right" ELSE "left"
PawFor(c) == Side(c \notin LeftKeys)

Reaction(g, paw) == g.poses \cap {paw}
Frames(g, a) == IF a \in g.long THEN 2 ELSE 1
Duration(g, a) == Frames(g, a)
Capped(n) == IF n > 0 THEN n - 1 ELSE 0

HeldCodes(p) == {p.held[i].code : i \in DOMAIN p.held}
Hold(p, c, a) == [p EXCEPT !.held = Append(@, [code |-> c, anim |-> a])]

Play(p, a) == IF p.cur = a THEN p ELSE [p EXCEPT !.cur = a, !.frame = 0]
PlayAny(p, as) == IF as = {} THEN p ELSE Play(p, CHOOSE a \in as : TRUE)

(* A second finger takes the pose over from the other half of the          *)
(* keyboard; one on the same half leaves it.                               *)
Takes(p, paw) == paw # Side(p.lastRight)

(* The pose a paw key asks for, and the pet with the hands brought up to   *)
(* date.  `fresh`: no key was down before this one.                        *)
PoseFor(g, p, paw, fresh) ==
  IF p.down = 2
    THEN LET as == IF Takes(p, paw) THEN Reaction(g, paw) ELSE {}
         IN  [pose |-> as,
              pet  |-> IF as = {} THEN p ELSE [p EXCEPT !.lastRight = (paw = "right")]]
    ELSE LET turn  == g.alternate /\ fresh
             hand  == IF g.force THEN IF turn THEN p.nextRight ELSE p.lastRight
                                 ELSE paw = "right"
         IN  [pose |-> Reaction(g, IF g.force THEN Side(hand) ELSE paw),
              pet  |-> [p EXCEPT !.nextRight = IF g.force /\ turn THEN ~hand ELSE @,
                                 !.lastRight = IF g.force \/ fresh THEN hand ELSE @]]

PressKey(g, p, c) ==
  CASE c \in HeldCodes(p) -> p
    [] c \notin HeldCodes(p) /\ c \in Hotkeys ->
         Play(Hold([p EXCEPT !.down = @ + 1, !.any = TRUE], c, "hot"), "hot")
    [] OTHER ->
         LET q == [p EXCEPT !.left = 0, !.right = 0, !.down = @ + 1, !.any = TRUE]
             t == PoseFor(g, q, PawFor(c), ~p.any)
         IN  IF q.down > 2
               THEN Hold(q, c, q.cur)
               ELSE LET r == PlayAny(t.pet, t.pose)
                    IN  Hold(r, c, r.cur)

(* What `retain` leaves of the keys held.                                  *)
Without(s, c) ==
  LET kept[i \in 0 .. Len(s)] ==
        IF i = 0 THEN <<>>
        ELSE IF s[i].code = c THEN kept[i - 1] ELSE Append(kept[i - 1], s[i])
  IN  kept[Len(s)]

(* Mutant: a count of zero is taken to mean that no key is held.           *)
ReleaseKeyByCount(p, c) ==
  IF p.down = 0 THEN p
  ELSE LET q == [p EXCEPT !.held = Without(@, c), !.down = @ - 1]
       IN  IF q.down = 0 THEN Play([q EXCEPT !.any = FALSE], Rest) ELSE q
(* Every release takes one off the count, also that of a key the pet       *)
(* never saw go down.                                                      *)
ReleaseKey(p, c) ==
  IF p.down = 0 /\ c \notin HeldCodes(p) THEN p
  ELSE LET q == [p EXCEPT !.held = Without(@, c),
                          !.down = Capped(@)]
       IN  CASE q.down = 0 -> Play([q EXCEPT !.any = FALSE], Rest)
             [] q.down > 0 /\ c \in Hotkeys /\ q.held # <<>> ->
                  Play(q, q.held[Len(q.held)].anim)
             [] OTHER -> q

(* Paw mode: the reaction runs for its own length; releases do nothing.    *)
Strike(g, p, c) ==
  IF Reaction(g, PawFor(c)) = {} THEN p
  ELSE [p EXCEPT ![PawFor(c)] = Duration(g, PawFor(c))]

Click(g, p) ==
  IF "click" \notin g.poses THEN p
  ELSE Play([p EXCEPT !.left = Duration(g, "click"), !.right = Duration(g, "click")],
            "click")

(* What a tick wants on show: what the keys or the script left in press    *)
(* mode and for a script-owned sprite, the live paws otherwise.            *)
Target(g, p) ==
  CASE g.press \/ g.ownKeys       -> {p.cur}
    [] ~(g.press \/ g.ownKeys) /\ p.left > 0 /\ p.right > 0 ->
         IF "both" \in g.poses THEN {"both"} ELSE Reaction(g, "left")
    [] ~(g.press \/ g.ownKeys) /\ p.left > 0 /\ p.right = 0 -> Reaction(g, "left")
    [] ~(g.press \/ g.ownKeys) /\ p.left = 0 /\ p.right > 0 -> Reaction(g, "right")
    [] OTHER -> {Rest}

(* The animation advances by a frame once a frame's time has passed        *)
(* (`due`); one that does not loop stops at its last frame.                *)
NextFrame(g, p, due) ==
  IF ~due \/ p.cur \notin g.long THEN p.frame
  ELSE IF p.frame + 1 < Frames(g, p.cur) THEN p.frame + 1
  ELSE IF p.cur \in g.loops THEN 0 ELSE p.frame

SpriteTick(g, p, due) ==
  LET q == PlayAny(p, Target(g, p)) IN [q EXCEPT !.frame = NextFrame(g, q, due)]

(* Mutant: only the left paw's reaction is waited for.                     *)
SpriteDeadlinesLeft(g, p) ==
  ({p.left} \ {0}) \cup (IF p.cur \in g.long THEN {1} ELSE {})
(* The instants the sprite wants to be woken at: its reactions that are    *)
(* not over yet, and the next frame.                                       *)
SpriteDeadlines(g, p) ==
  ({p.left, p.right} \ {0}) \cup (IF p.cur \in g.long THEN {1} ELSE {})
=============================================================================

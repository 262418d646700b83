--------------------------- MODULE SurfaceProofs ---------------------------
(***************************************************************************)
(* What a pet has on screen, for any pictures, sizes and scales:           *)
(* RegionFollowsPicture, SizeSettles and, unless a surface that was scaled *)
(* is bound to another monitor, SharpInTheEnd are invariants of Spec.      *)
(*                                                                         *)
(* Why the region is right: the region sent last and the box remembered    *)
(* agree whenever a box is remembered, so a comparison with the box        *)
(* (update_input_region) never leaves out a region that differs; a new     *)
(* surface forgets both; and the picture pending is the one in force, so   *)
(* no commit shows another one.                                            *)
(*                                                                         *)
(* Why the size settles: a size that is sent is committed at once, so the  *)
(* answer to it comes last, and a pet that has had every answer has either *)
(* the size told last or one it sent since; once those are one, what it    *)
(* drew last has it too.                                                   *)
(***************************************************************************)
EXTENDS Surface, TLAPS

Outlines == (Pictures \cup {Blank, WholeSurface}) \X Nat
Boxes    == SUBSET Outlines
Frames   == [pic : Pictures \cup {Blank}, size : Nat]
Renders  == [size : Nat, through : BOOLEAN]
Buffers  == [pic : Pictures \cup {Blank}, size : Nat, scale : Nat, fits : Boxes]
PetTypes == [size : Nat, through : BOOLEAN, box : Boxes, scale : Nat, pool : Nat,
             busy : Nat, configured : BOOLEAN]
States   == [scale : Nat, region : SUBSET Boxes, size : Nat, buffer : SUBSET Buffers]
Pairs    == [pet : PetTypes, wl : [next : States, now : States]]

\* A box remembered is the region sent last; the pending picture is the shown
\* one, and the region sent last fits it.
Kept(s) ==
  /\ s.wl.next.buffer = s.wl.now.buffer
  /\ s.pet.box # {} => s.wl.next.region = {s.pet.box}
  /\ \A b \in s.wl.now.buffer : b.fits # {} => s.wl.next.region = {b.fits}

Good(s) == s \in Pairs /\ Kept(s)

Typed ==
  /\ render \in Renders /\ frame \in Frames
  /\ compositor \in [monitor : Scales, scale : Nat, size : Nat, answers : Seq(Nat)]

IInv == Good(Here) /\ Typed

-----------------------------------------------------------------------------
\* The operators of PetSurface keep a pair good.

\* A commit puts the pending state in force and keeps it pending.
LEMMA CommitIsNext ==
  ASSUME NEW w \in [next : States, now : States]
  PROVE  /\ Commit(w) \in [next : States, now : States]
         /\ Commit(w).next = w.next /\ Commit(w).now = w.next
BY DEF Commit

\* The three requests that change the pending state of a wl_surface.
LEMMA PendingSize ==
  ASSUME NEW w \in [next : States, now : States], NEW size \in Nat
  PROVE  LET v == [w EXCEPT !.next.size = size]
         IN /\ v \in [next : States, now : States] /\ v.now = w.now
            /\ v.next.size = size /\ v.next.scale = w.next.scale
            /\ v.next.buffer = w.next.buffer /\ v.next.region = w.next.region
BY DEF States

LEMMA PendingBuffer ==
  ASSUME NEW w \in [next : States, now : States], NEW b \in Buffers
  PROVE  LET v == [w EXCEPT !.next.buffer = {b}]
         IN /\ v \in [next : States, now : States] /\ v.now = w.now
            /\ v.next.size = w.next.size /\ v.next.scale = w.next.scale
            /\ v.next.buffer = {b} /\ v.next.region = w.next.region
BY DEF States

LEMMA PendingRegion ==
  ASSUME NEW w \in [next : States, now : States], NEW box \in Boxes
  PROVE  LET v == [w EXCEPT !.next.region = {box}]
         IN /\ v \in [next : States, now : States] /\ v.now = w.now
            /\ v.next.size = w.next.size /\ v.next.scale = w.next.scale
            /\ v.next.buffer = w.next.buffer /\ v.next.region = {box}
BY DEF States

LEMMA PendingScale ==
  ASSUME NEW w \in [next : States, now : States], NEW scale \in Nat
  PROVE  LET v == [w EXCEPT !.next.scale = scale]
         IN /\ v \in [next : States, now : States] /\ v.now = w.now
            /\ v.next.size = w.next.size /\ v.next.scale = scale
            /\ v.next.buffer = w.next.buffer /\ v.next.region = w.next.region
BY DEF States

LEMMA OutlineIsBox ==
  ASSUME NEW f \in Frames
  PROVE  Outline(f) \in Boxes /\ {<<WholeSurface, f.size>>} \in Boxes
BY DEF Outline, Boxes, Outlines, Frames

LEMMA ApplyPropsKeeps ==
  ASSUME NEW s, Good(s), NEW r \in Renders
  PROVE  Good(ApplyProps(s, r))
<1> DEFINE t == ApplyProps(s, r)
<1>1. /\ s.pet \in PetTypes /\ s.wl.next \in States /\ s.wl.now \in States
      /\ s \in Pairs /\ s.wl \in [next : States, now : States]
  BY DEF Good, Pairs
<1>2. {} \in Boxes
  BY DEF Boxes
<1>3. t.pet = [s.pet EXCEPT !.box = IF s.pet.through = r.through THEN @ ELSE {},
                            !.through = r.through, !.size = r.size]
  BY DEF ApplyProps, Both
<1>4. t.pet \in PetTypes /\ t.pet.box \in {s.pet.box, {}}
  BY <1>1, <1>2, <1>3 DEF PetTypes, Renders
<1>5. /\ t.wl \in [next : States, now : States] /\ t.wl.now = t.wl.next
      /\ t.wl.next.buffer = s.wl.next.buffer /\ t.wl.next.region = s.wl.next.region
  <2> DEFINE v == [s.wl EXCEPT !.next.size = r.size]
  <2>1. /\ v \in [next : States, now : States]
        /\ v.next.buffer = s.wl.next.buffer /\ v.next.region = s.wl.next.region
    BY <1>1, PendingSize DEF Renders
  <2>2. t.wl = Commit(v)
    BY DEF ApplyProps, Both
  <2> HIDE DEF v
  <2> QED
    BY <2>1, <2>2, CommitIsNext
<1>6. t \in Pairs
  BY <1>4, <1>5 DEF ApplyProps, Both, Pairs
<1>7. Kept(t)
  BY <1>4, <1>5 DEF Kept, Good
<1> QED
  BY <1>6, <1>7 DEF Good

LEMMA SetSizeKeeps ==
  ASSUME NEW s, Good(s), NEW size \in Nat
  PROVE  Good(SetSize(s, size))
<1>1. CASE s.pet.size = size
  BY <1>1 DEF SetSize
<1>2. CASE s.pet.size # size
  <2> DEFINE t == SetSize(s, size)
  <2>1. /\ s.pet \in PetTypes /\ s.wl.next \in States
        /\ s.wl \in [next : States, now : States]
    BY DEF Good, Pairs
  <2>2. t = Both([s.pet EXCEPT !.size = size], Commit([s.wl EXCEPT !.next.size = size]))
    BY <1>2 DEF SetSize
  <2>3. t.pet \in PetTypes /\ t.pet.box = s.pet.box
    BY <2>1, <2>2 DEF Both, PetTypes
  <2>4. /\ t.wl \in [next : States, now : States] /\ t.wl.now = t.wl.next
        /\ t.wl.next.buffer = s.wl.next.buffer /\ t.wl.next.region = s.wl.next.region
    <3> DEFINE v == [s.wl EXCEPT !.next.size = size]
    <3>1. /\ v \in [next : States, now : States]
          /\ v.next.buffer = s.wl.next.buffer /\ v.next.region = s.wl.next.region
      BY <2>1, PendingSize
    <3>2. t.wl = Commit(v)
      BY <2>2 DEF Both
    <3> HIDE DEF v
    <3> QED
      BY <3>1, <3>2, CommitIsNext
  <2>5. t \in Pairs
    BY <2>2, <2>3, <2>4 DEF Both, Pairs
  <2>6. Kept(t)
    BY <2>3, <2>4 DEF Kept, Good
  <2> QED
    BY <2>5, <2>6 DEF Good
<1> QED
  BY <1>1, <1>2

LEMMA EnsurePoolKeeps ==
  ASSUME NEW p \in PetTypes, NEW size \in Nat
  PROVE  EnsurePool(p, size) \in PetTypes /\ EnsurePool(p, size).box = p.box
<1>1. size * p.scale \in Nat
  BY DEF PetTypes
<1> DEFINE pixels == size * p.scale
<1>2. [p EXCEPT !.pool = pixels, !.busy = 0] \in PetTypes
  <2> HIDE DEF pixels
  <2> QED BY <1>1 DEF PetTypes, pixels
<1> QED
  BY <1>2 DEF EnsurePool, PetTypes

\* The picture and then its region: the two halves of a present.
LEMMA DrawingKeeps ==
  ASSUME NEW s, Good(s), NEW f \in Frames
  PROVE  Good(UpdateRegion(Attach(s, f), f))
<1> DEFINE fits == IF s.pet.through THEN Outline(f) ELSE {<<WholeSurface, f.size>>}
           a    == Attach(s, f)
           u    == UpdateRegion(a, f)
           buf  == [pic |-> f.pic, size |-> f.size, scale |-> s.pet.scale, fits |-> fits]
<1>1. /\ s.pet \in PetTypes /\ s.wl.next \in States
      /\ s.wl \in [next : States, now : States]
  BY DEF Good, Pairs
<1>2. fits \in Boxes
  BY OutlineIsBox
<1> HIDE DEF fits
<1>3. buf \in Buffers
  BY <1>1, <1>2 DEF Buffers, Frames, PetTypes
<1>4. a = Both([s.pet EXCEPT !.busy = @ + 1], Commit([s.wl EXCEPT !.next.buffer = {buf}]))
  BY DEF Attach, fits
<1> HIDE DEF buf
<1>5. a.pet = [s.pet EXCEPT !.busy = @ + 1] /\ a.wl = Commit([s.wl EXCEPT !.next.buffer = {buf}])
  BY <1>4 DEF Both
<1>6. a.pet \in PetTypes /\ a.pet.box = s.pet.box /\ a.pet.through = s.pet.through
  BY <1>1, <1>5 DEF PetTypes
<1>7. /\ a.wl \in [next : States, now : States] /\ a.wl.now = a.wl.next
      /\ a.wl.next.buffer = {buf} /\ a.wl.next.region = s.wl.next.region
  <2> DEFINE v == [s.wl EXCEPT !.next.buffer = {buf}]
  <2>1. /\ v \in [next : States, now : States]
        /\ v.next.buffer = {buf} /\ v.next.region = s.wl.next.region
    BY <1>1, <1>3, PendingBuffer
  <2>2. a.wl = Commit(v)
    BY <1>5
  <2> HIDE DEF v
  <2> QED
    BY <2>1, <2>2, CommitIsNext
<1>8. a \in Pairs
  BY <1>4, <1>6, <1>7 DEF Both, Pairs
<1>9. buf.fits = fits
  BY DEF buf
<1>10. u = IF fits = a.pet.box THEN a
           ELSE Both([a.pet EXCEPT !.box = fits], [a.wl EXCEPT !.next.region = {fits}])
  BY <1>6 DEF UpdateRegion, fits
<1>11. CASE fits = a.pet.box
  <2>1. u = a
    BY <1>10, <1>11
  <2>2. fits # {} => a.wl.next.region = {fits}
    BY <1>6, <1>7, <1>11 DEF Good, Kept
  <2>3. Kept(a)
    BY <1>6, <1>7, <1>9, <1>11, <2>2 DEF Kept
  <2> QED
    BY <1>8, <2>1, <2>3 DEF Good
<1>12. CASE fits # a.pet.box
  <2>1. u = Both([a.pet EXCEPT !.box = fits], [a.wl EXCEPT !.next.region = {fits}])
    BY <1>10, <1>12
  <2>2. u.pet \in PetTypes /\ u.pet.box = fits
    BY <1>2, <1>6, <2>1 DEF Both, PetTypes
  <2>3. u.wl = [a.wl EXCEPT !.next.region = {fits}]
    BY <2>1 DEF Both
  <2>4. /\ u.wl \in [next : States, now : States]
        /\ u.wl.next.region = {fits} /\ u.wl.next.buffer = {buf} /\ u.wl.now.buffer = {buf}
    BY <1>2, <1>7, <2>3, PendingRegion
  <2>5. u \in Pairs
    BY <2>1, <2>2, <2>4 DEF Both, Pairs
  <2>6. Kept(u)
    BY <1>9, <2>2, <2>4 DEF Kept
  <2> QED
    BY <2>5, <2>6 DEF Good
<1> QED
  BY <1>11, <1>12

LEMMA PresentKeeps ==
  ASSUME NEW s, Good(s), NEW f \in Frames
  PROVE  Good(Present(s, f))
<1> DEFINE t == SetSize(s, f.size)
           u == Both(EnsurePool(t.pet, f.size), t.wl)
<1>1. f.size \in Nat
  BY DEF Frames
<1>2. Good(t)
  BY <1>1, SetSizeKeeps
<1> HIDE DEF t
<1>3. t.pet \in PetTypes /\ t.wl \in [next : States, now : States]
  BY <1>2 DEF Good, Pairs
<1>4. u.pet \in PetTypes /\ u.pet.box = t.pet.box /\ u.wl = t.wl /\ u \in Pairs
  BY <1>1, <1>3, EnsurePoolKeeps DEF Both, Pairs
<1>5. Good(u)
  BY <1>2, <1>4 DEF Good, Kept
<1>6. Present(s, f) \in {s, u, UpdateRegion(Attach(u, f), f)}
  BY DEF Present, t
<1> HIDE DEF u
<1> QED
  BY <1>5, <1>6, DrawingKeeps

\* A surface that was just created has nothing to keep.
LEMMA NewIsGood ==
  ASSUME NEW p \in PetTypes, p.box = {}
  PROVE  Good(Both(p, [next |-> NewState, now |-> NewState]))
<1>1. NewState \in States /\ NewState.buffer = {}
  BY DEF NewState, States
<1> QED
  BY <1>1 DEF Good, Pairs, Kept, Both

LEMMA CreatedIsGood ==
  ASSUME NEW r \in Renders
  PROVE  Good(Created(r))
<1> DEFINE p == [NewPet EXCEPT !.through = r.through, !.size = r.size]
<1>1. p \in PetTypes /\ p.box = {}
  BY DEF NewPet, PetTypes, Renders, Boxes
<1>2. Created(r) = ApplyProps(Both(p, [next |-> NewState, now |-> NewState]), r)
  BY DEF Created
<1> HIDE DEF p
<1> QED
  BY <1>1, <1>2, NewIsGood, ApplyPropsKeeps

LEMMA ReboundIsGood ==
  ASSUME NEW q \in PetTypes, NEW r \in Renders
  PROVE  Good(Rebound(q, r))
<1> DEFINE p == [q EXCEPT !.pool = 0, !.busy = 0, !.configured = FALSE, !.box = {}]
<1>1. p \in PetTypes /\ p.box = {}
  BY DEF PetTypes, Boxes
<1>2. Rebound(q, r) = ApplyProps(Both(p, [next |-> NewState, now |-> NewState]), r)
  BY DEF Rebound
<1> HIDE DEF p
<1> QED
  BY <1>1, <1>2, NewIsGood, ApplyPropsKeeps

-----------------------------------------------------------------------------
\* The invariant: it holds at first, and every action keeps it.

LEMMA InitIsGood ==
  ASSUME Init
  PROVE  IInv
<1>1. /\ render \in Renders /\ frame \in Frames
      /\ compositor \in [monitor : Scales, scale : Nat, size : Nat, answers : Seq(Nat)]
  BY SurfaceAssumption DEF Init, Renders, Frames, Fresh
<1>2. Here = Created(render)
  BY DEF Init, Here, Both, Created, ApplyProps
<1> QED
  BY <1>1, <1>2, CreatedIsGood DEF IInv, Typed

\* What was worked out for the pair becomes the pair of the next state.
LEMMA BecomesGood ==
  ASSUME NEW s, Good(s), Becomes(s), Typed'
  PROVE  IInv'
<1>1. s = Both(s.pet, s.wl)
  BY DEF Good, Pairs, Both
<1>2. Here' = s
  BY <1>1 DEF Becomes, Here
<1> QED
  BY <1>2 DEF IInv

\* A configure, a scale and a released buffer change the pet but not its box.
LEMMA PetChanges ==
  ASSUME IInv, Typed', UNCHANGED wl, pet' \in PetTypes, pet'.box = pet.box
  PROVE  IInv'
<1>1. Here.pet = pet /\ Here.wl = wl /\ Here'.pet = pet' /\ Here'.wl = wl'
  BY DEF Here, Both
<1>2. Here' \in Pairs
  BY <1>1 DEF IInv, Good, Pairs, Here, Both
<1>3. Kept(Here')
  BY <1>1 DEF IInv, Good, Kept
<1> QED
  BY <1>2, <1>3 DEF IInv, Good

LEMMA NextKeeps ==
  ASSUME IInv, [Next]_vars
  PROVE  IInv'
<1> USE DEF IInv
<1>1. /\ Good(Here) /\ render \in Renders /\ frame \in Frames
      /\ pet \in PetTypes /\ wl \in [next : States, now : States]
  BY DEF Typed, Good, Pairs, Here, Both
<1>2. CASE Draw
  <2>1. Wanted \in Frames
    BY <1>1 DEF Wanted, Frames, PetTypes
  <2>2. Typed'
    BY <1>2 DEF Draw, Typed
  <2> QED
    BY <1>1, <1>2, <2>1, <2>2, PresentKeeps, BecomesGood DEF Draw
<1>3. CASE Tick
  <2>1. Typed'
    BY <1>3, SurfaceAssumption DEF Tick, Typed, Frames
  <2> QED
    BY <1>1, <1>3, <2>1, PetChanges DEF Tick
<1>4. CASE SetVisible
  BY <1>1, <1>4, PetChanges DEF SetVisible, Typed
<1>5. ASSUME NEW r \in Renders, Configured(r)
      PROVE  IInv'
  <2>1. Typed'
    BY <1>1, <1>5 DEF Configured, Typed, Frames, Renders
  <2> QED
    BY <1>1, <1>5, <2>1, ApplyPropsKeeps, BecomesGood DEF Configured
<1>6. CASE ControlSetSize
  <2>1. PICK size \in Sizes : Configured([render EXCEPT !.size = size])
    BY <1>6 DEF ControlSetSize
  <2>2. [render EXCEPT !.size = size] \in Renders
    BY <1>1, SurfaceAssumption DEF Renders
  <2> QED
    BY <1>5, <2>1, <2>2
<1>7. CASE Reload
  <2>1. PICK size \in Sizes, through \in BOOLEAN : Configured([size |-> size, through |-> through])
    BY <1>7 DEF Reload
  <2>2. [size |-> size, through |-> through] \in Renders
    BY SurfaceAssumption DEF Renders
  <2> QED
    BY <1>5, <2>1, <2>2
<1>8. CASE Replace
  <2>1. Typed'
    BY <1>8 DEF Replace, Typed
  <2> QED
    BY <1>1, <1>8, <2>1, ApplyPropsKeeps, BecomesGood DEF Replace
<1>9. CASE Move
  <2>1. Typed'
    BY <1>9 DEF Move, Typed
  <2>2. /\ wl' \in [next : States, now : States]
        /\ wl'.next = wl.next /\ wl'.now = wl.next /\ pet' = pet
    BY <1>1, <1>9, CommitIsNext DEF Move
  <2>3. Here'.pet = pet /\ Here'.wl = wl' /\ Here.pet = pet /\ Here.wl = wl
    BY <2>2 DEF Here, Both
  <2>4. Here' \in Pairs
    BY <1>1, <2>2 DEF Here, Both, Pairs
  <2>5. Kept(Here')
    BY <1>1, <2>2, <2>3 DEF Good, Kept
  <2> QED
    BY <2>1, <2>4, <2>5 DEF Good
<1>10. CASE RebindOutput
  <2>1. Typed'
    BY <1>10, SurfaceAssumption DEF RebindOutput, Typed, Fresh
  <2> QED
    BY <1>1, <1>10, <2>1, ReboundIsGood, BecomesGood DEF RebindOutput
<1>11. CASE Recreate
  <2>1. Typed'
    BY <1>1, <1>11, SurfaceAssumption DEF Recreate, Typed, Fresh, Frames, Renders
  <2> QED
    BY <1>1, <1>11, <2>1, CreatedIsGood, BecomesGood DEF Recreate
<1>12. CASE Answer
  <2> DEFINE size == wl.now.size
             sent == Append(compositor.answers, size)
  <2>1. size \in Nat /\ sent \in Seq(Nat)
    BY <1>1 DEF Typed, States
  <2>2. Typed'
    <3>1. compositor' = [compositor EXCEPT !.size = size, !.answers = sent]
      BY <1>12 DEF Answer
    <3> HIDE DEF size, sent
    <3> QED
      BY <1>12, <2>1, <3>1 DEF Answer, Typed
  <2> QED
    BY <1>1, <1>12, <2>2, PetChanges DEF Answer
<1>13. CASE Configure
  <2> DEFINE rest == Tail(compositor.answers)
  <2>1. Typed'
    <3>1. rest \in Seq(Nat)
      BY <1>13 DEF Configure, Typed
    <3>2. compositor' = [compositor EXCEPT !.answers = rest]
      BY <1>13 DEF Configure
    <3> HIDE DEF rest
    <3> QED
      BY <1>13, <3>1, <3>2 DEF Configure, Typed
  <2>2. Head(compositor.answers) \in Nat
    BY <1>13 DEF Configure, Typed
  <2>3. pet' \in PetTypes /\ pet'.box = pet.box
    BY <1>1, <1>13, <2>2 DEF Configure, PetTypes
  <2> QED
    BY <1>13, <2>1, <2>3, PetChanges DEF Configure
<1>14. CASE TellScale
  <2> DEFINE new == compositor.monitor
  <2>1. Typed' /\ new \in Nat
    BY <1>14, SurfaceAssumption DEF TellScale, Typed
  <2>2. CASE pet.scale = new
    BY <1>1, <1>14, <2>1, <2>2, PetChanges DEF TellScale, ScaleFactorChanged
  <2>3. CASE pet.scale # new
    <3> DEFINE p == [pet EXCEPT !.scale = new]
               w == [wl EXCEPT !.next.scale = new]
    <3>1. pet' = p /\ wl' = w
      BY <1>14, <2>3 DEF TellScale, ScaleFactorChanged
    <3>2. p \in PetTypes /\ p.box = pet.box
      BY <1>1, <2>1 DEF PetTypes
    <3>3. /\ w \in [next : States, now : States] /\ w.now = wl.now
          /\ w.next.buffer = wl.next.buffer /\ w.next.region = wl.next.region
      BY <1>1, <2>1, PendingScale
    <3> HIDE DEF p, w
    <3>4. Here'.pet = p /\ Here'.wl = w /\ Here.pet = pet /\ Here.wl = wl
      BY <3>1 DEF Here, Both
    <3>5. Here' \in Pairs
      BY <3>1, <3>2, <3>3 DEF Here, Both, Pairs
    <3>6. Kept(Here')
      BY <1>1, <3>2, <3>3, <3>4 DEF Good, Kept
    <3> QED
      BY <2>1, <3>5, <3>6 DEF Good
  <2> QED
    BY <2>2, <2>3
<1>15. CASE ChangeMonitor
  <2>1. Typed'
    BY <1>15 DEF ChangeMonitor, Typed
  <2> QED
    BY <1>1, <1>15, <2>1, PetChanges DEF ChangeMonitor
<1>16. CASE ReleaseBuffer
  <2>1. Typed'
    BY <1>16 DEF ReleaseBuffer, Typed
  <2>2. pet' \in PetTypes /\ pet'.box = pet.box
    BY <1>1, <1>16 DEF ReleaseBuffer, PetTypes
  <2> QED
    BY <1>16, <2>1, <2>2, PetChanges DEF ReleaseBuffer
<1>17. CASE UNCHANGED vars
  BY <1>1, <1>17, PetChanges DEF vars, Typed
<1> QED
  BY <1>2, <1>3, <1>4, <1>6, <1>7, <1>8, <1>9, <1>10, <1>11, <1>12, <1>13, <1>14, <1>15,
     <1>16, <1>17 DEF Next

\* The region the next commit puts in force fits the picture on screen, for
\* any pictures, sizes and scales, whatever the compositor answers and when:
\* through skipped frames, new surfaces, resizes and a changed click-through
\* (update_input_region, apply_props, rebind_to_output).
THEOREM RegionIsRight == Spec => []RegionFollowsPicture
<1>1. IInv => RegionFollowsPicture
  BY DEF IInv, Good, Kept, Here, Both, RegionFollowsPicture
<1> QED
  BY InitIsGood, NextKeeps, <1>1, PTL DEF Spec
-----------------------------------------------------------------------------
\* What the operators of PetSurface do to sizes and scales.

LEMMA ApplyPropsMakes ==
  ASSUME NEW s, Good(s), NEW r \in Renders
  PROVE  LET t == ApplyProps(s, r)
         IN /\ t.pet.size = r.size /\ t.wl.next.size = r.size /\ t.wl.now = t.wl.next
            /\ t.pet.scale = s.pet.scale /\ t.wl.next.scale = s.wl.next.scale
            /\ t.pet.configured = s.pet.configured
<1> DEFINE t == ApplyProps(s, r)
           v == [s.wl EXCEPT !.next.size = r.size]
<1>1. s.pet \in PetTypes /\ s.wl \in [next : States, now : States] /\ r.size \in Nat
  BY DEF Good, Pairs, Renders
<1>2. t.pet = [s.pet EXCEPT !.box = IF s.pet.through = r.through THEN @ ELSE {},
                            !.through = r.through, !.size = r.size]
  BY DEF ApplyProps, Both
<1>3. t.pet.size = r.size /\ t.pet.scale = s.pet.scale /\ t.pet.configured = s.pet.configured
  BY <1>1, <1>2 DEF PetTypes
<1>4. /\ v \in [next : States, now : States]
      /\ v.next.size = r.size /\ v.next.scale = s.wl.next.scale
  BY <1>1, PendingSize
<1>5. t.wl = Commit(v)
  BY DEF ApplyProps, Both
<1> HIDE DEF v
<1>6. t.wl.next = v.next /\ t.wl.now = v.next
  BY <1>4, <1>5, CommitIsNext
<1> QED
  BY <1>3, <1>4, <1>6

\* set_size: the surface is sent the size, unless the pet had it.
LEMMA SetSizeMakes ==
  ASSUME NEW s, Good(s), NEW size \in Nat
  PROVE  LET t == SetSize(s, size)
         IN /\ t.pet.size = size /\ t.pet.scale = s.pet.scale
            /\ t.pet.configured = s.pet.configured
            /\ t.pet.pool = s.pet.pool /\ t.pet.busy = s.pet.busy
            /\ t.wl.next.scale = s.wl.next.scale
            /\ \/ t.wl.next.size = size
               \/ s.pet.size = size /\ t.wl.next.size = s.wl.next.size
            /\ s.wl.now.size = s.wl.next.size => t.wl.now.size = t.wl.next.size
<1> DEFINE t == SetSize(s, size)
           v == [s.wl EXCEPT !.next.size = size]
<1>1. CASE s.pet.size = size
  BY <1>1 DEF SetSize
<1>2. CASE s.pet.size # size
  <2>1. s.pet \in PetTypes /\ s.wl \in [next : States, now : States]
    BY DEF Good, Pairs
  <2>2. t.pet = [s.pet EXCEPT !.size = size] /\ t.wl = Commit(v)
    BY <1>2 DEF SetSize, Both
  <2>3. /\ t.pet.size = size /\ t.pet.scale = s.pet.scale /\ t.pet.configured = s.pet.configured
        /\ t.pet.pool = s.pet.pool /\ t.pet.busy = s.pet.busy
    BY <2>1, <2>2 DEF PetTypes
  <2>4. /\ v \in [next : States, now : States]
        /\ v.next.size = size /\ v.next.scale = s.wl.next.scale
    BY <2>1, PendingSize
  <2> HIDE DEF v
  <2>5. t.wl.next = v.next /\ t.wl.now = v.next
    BY <2>2, <2>4, CommitIsNext
  <2> QED
    BY <2>3, <2>4, <2>5
<1> QED
  BY <1>1, <1>2

\* New buffers are free, and nothing else about the pet depends on them.
LEMMA EnsurePoolMakes ==
  ASSUME NEW p \in PetTypes, NEW size \in Nat
  PROVE  LET q == EnsurePool(p, size)
         IN /\ q.size = p.size /\ q.scale = p.scale /\ q.configured = p.configured
            /\ q.busy = IF p.pool = size * p.scale THEN p.busy ELSE 0
<1> DEFINE pixels == size * p.scale
           q      == EnsurePool(p, size)
<1>1. q = IF p.pool = pixels THEN p ELSE [p EXCEPT !.pool = pixels, !.busy = 0]
  BY DEF EnsurePool
<1>2. /\ q.size = p.size /\ q.scale = p.scale /\ q.configured = p.configured
      /\ q.busy = IF p.pool = pixels THEN p.busy ELSE 0
  <2> HIDE DEF pixels, q
  <2> QED BY <1>1 DEF PetTypes
<1> QED
  BY <1>2

\* A frame that is attached is on screen at once, with the scale pending.
LEMMA DrawingMakes ==
  ASSUME NEW s, Good(s), NEW f \in Frames
  PROVE  LET u == UpdateRegion(Attach(s, f), f)
         IN /\ u.pet.size = s.pet.size /\ u.pet.scale = s.pet.scale
            /\ u.pet.configured = s.pet.configured
            /\ u.wl.next.size = s.wl.next.size /\ u.wl.next.scale = s.wl.next.scale
            /\ u.wl.now.size = s.wl.next.size /\ u.wl.now.scale = s.wl.next.scale
            /\ \A b \in u.wl.now.buffer : b.size = f.size /\ b.scale = s.pet.scale
<1> DEFINE fits == IF s.pet.through THEN Outline(f) ELSE {<<WholeSurface, f.size>>}
           a    == Attach(s, f)
           u    == UpdateRegion(a, f)
           buf  == [pic |-> f.pic, size |-> f.size, scale |-> s.pet.scale, fits |-> fits]
           v    == [s.wl EXCEPT !.next.buffer = {buf}]
<1>1. s.pet \in PetTypes /\ s.wl \in [next : States, now : States]
  BY DEF Good, Pairs
<1>2. fits \in Boxes
  BY OutlineIsBox
<1> HIDE DEF fits
<1>3. buf \in Buffers /\ buf.size = f.size /\ buf.scale = s.pet.scale
  BY <1>1, <1>2 DEF Buffers, Frames, PetTypes
<1>4. a.pet = [s.pet EXCEPT !.busy = @ + 1] /\ a.wl = Commit(v)
  BY DEF Attach, Both, fits
<1> HIDE DEF buf
<1>5. /\ a.pet \in PetTypes /\ a.pet.size = s.pet.size /\ a.pet.scale = s.pet.scale
      /\ a.pet.configured = s.pet.configured /\ a.pet.box = s.pet.box
      /\ a.pet.through = s.pet.through
  BY <1>1, <1>4 DEF PetTypes
<1>6. /\ v \in [next : States, now : States] /\ v.next.buffer = {buf}
      /\ v.next.size = s.wl.next.size /\ v.next.scale = s.wl.next.scale
  BY <1>1, <1>3, PendingBuffer
<1> HIDE DEF v
<1>7. a.wl \in [next : States, now : States] /\ a.wl.next = v.next /\ a.wl.now = v.next
  BY <1>4, <1>6, CommitIsNext
<1>8. u = IF fits = a.pet.box THEN a
          ELSE Both([a.pet EXCEPT !.box = fits], [a.wl EXCEPT !.next.region = {fits}])
  BY <1>5 DEF UpdateRegion, fits
<1> HIDE DEF a, u
<1>9. CASE fits = a.pet.box
  <2>1. u = a
    BY <1>8, <1>9
  <2> QED
    BY <1>3, <1>5, <1>6, <1>7, <2>1 DEF u, a
<1>10. CASE fits # a.pet.box
  <2>1. u.pet = [a.pet EXCEPT !.box = fits] /\ u.wl = [a.wl EXCEPT !.next.region = {fits}]
    BY <1>8, <1>10 DEF Both
  <2>2. /\ u.pet.size = a.pet.size /\ u.pet.scale = a.pet.scale
        /\ u.pet.configured = a.pet.configured
    BY <1>5, <2>1 DEF PetTypes
  <2>3. /\ u.wl.now = a.wl.now
        /\ u.wl.next.size = a.wl.next.size /\ u.wl.next.scale = a.wl.next.scale
    BY <1>2, <1>7, <2>1, PendingRegion
  <2> QED
    BY <1>3, <1>5, <1>6, <1>7, <2>2, <2>3 DEF u, a
<1> QED
  BY <1>9, <1>10

\* present: before the first configure nothing changes; after it the pet has
\* the size of the frame, and unless both buffers are in flight so does what
\* is on screen.
LEMMA PresentMakes ==
  ASSUME NEW s, Good(s), NEW f \in Frames
  PROVE  LET t == Present(s, f)
         IN /\ t.pet.configured = s.pet.configured
            /\ t.pet.scale = s.pet.scale /\ t.wl.next.scale = s.wl.next.scale
            /\ ~s.pet.configured => t = s
            /\ s.pet.configured => t.pet.size = f.size
            /\ s.pet.configured => \/ t.wl.next.size = f.size
                                   \/ s.pet.size = f.size /\ t.wl.next.size = s.wl.next.size
            /\ s.wl.now.size = s.wl.next.size => t.wl.now.size = t.wl.next.size
            /\ s.pet.configured /\ EnsurePool(s.pet, f.size).busy # 2 =>
                 /\ t.wl.now.scale = t.wl.next.scale
                 /\ \A b \in t.wl.now.buffer : b.size = f.size /\ b.scale = t.pet.scale
<1>1. CASE ~s.pet.configured
  BY <1>1 DEF Present
<1>2. CASE s.pet.configured
  <2> DEFINE size == f.size
             t == SetSize(s, size)
             u == Both(EnsurePool(t.pet, size), t.wl)
             d == UpdateRegion(Attach(u, f), f)
             e == Present(s, f)
  <2>1. size \in Nat /\ s.pet \in PetTypes
    BY DEF Frames, Good, Pairs
  <2>2. e = IF u.pet.busy = 2 THEN u ELSE d
    BY <1>2 DEF Present
  <2>3. Good(t)
    BY <2>1, SetSizeKeeps
  <2>4. /\ t.pet.size = size /\ t.pet.scale = s.pet.scale
        /\ t.pet.configured = s.pet.configured
        /\ t.pet.pool = s.pet.pool /\ t.pet.busy = s.pet.busy
        /\ t.wl.next.scale = s.wl.next.scale
        /\ \/ t.wl.next.size = size
           \/ s.pet.size = size /\ t.wl.next.size = s.wl.next.size
        /\ s.wl.now.size = s.wl.next.size => t.wl.now.size = t.wl.next.size
    BY <2>1, SetSizeMakes
  <2> HIDE DEF t
  <2>5. t.pet \in PetTypes /\ t.wl \in [next : States, now : States]
    BY <2>3 DEF Good, Pairs
  <2>6. u.pet = EnsurePool(t.pet, size) /\ u.wl = t.wl
    BY DEF Both
  <2>7. /\ u.pet.size = t.pet.size /\ u.pet.scale = t.pet.scale
        /\ u.pet.configured = t.pet.configured
        /\ u.pet.busy = IF t.pet.pool = size * t.pet.scale THEN t.pet.busy ELSE 0
    BY <2>1, <2>5, <2>6, EnsurePoolMakes
  <2>8. u.pet.busy = EnsurePool(s.pet, size).busy
    BY <2>1, <2>4, <2>7, EnsurePoolMakes, Zenon
  <2>9. u.pet \in PetTypes /\ u.pet.box = t.pet.box /\ u \in Pairs
    BY <2>1, <2>5, <2>6, EnsurePoolKeeps DEF Both, Pairs
  <2>10. Good(u)
    BY <2>3, <2>6, <2>9 DEF Good, Kept
  <2> HIDE DEF u
  <2>11. /\ d.pet.size = u.pet.size /\ d.pet.scale = u.pet.scale
         /\ d.pet.configured = u.pet.configured
         /\ d.wl.next.size = u.wl.next.size /\ d.wl.next.scale = u.wl.next.scale
         /\ d.wl.now.size = u.wl.next.size /\ d.wl.now.scale = u.wl.next.scale
         /\ \A b \in d.wl.now.buffer : b.size = size /\ b.scale = u.pet.scale
    BY <2>10, DrawingMakes
  <2> HIDE DEF d, e, size
  <2>12. CASE u.pet.busy = 2
    <3>1. e = u
      BY <2>2, <2>12
    <3> QED
      BY <1>2, <2>4, <2>6, <2>7, <2>8, <2>12, <3>1, Zenon DEF e, size
  <2>13. CASE u.pet.busy # 2
    <3>1. e = d
      BY <2>2, <2>13
    <3>2. /\ d.pet.configured = s.pet.configured /\ d.pet.size = size
          /\ d.pet.scale = s.pet.scale /\ d.wl.next.scale = s.wl.next.scale
      BY <2>4, <2>6, <2>7, <2>11
    <3>3. /\ d.wl.now.size = d.wl.next.size /\ d.wl.now.scale = d.wl.next.scale
          /\ d.wl.next.size = t.wl.next.size
      BY <2>6, <2>11
    <3>4. \A b \in d.wl.now.buffer : b.size = size /\ b.scale = d.pet.scale
      BY <2>11
    <3> QED
      BY <1>2, <2>4, <3>1, <3>2, <3>3, <3>4 DEF e, size
  <2> QED
    BY <2>12, <2>13
<1> QED
  BY <1>1, <1>2

-----------------------------------------------------------------------------
\* Sizes, what is drawn, and scales.

\* What was sent is in force, what the compositor told last is the last of
\* the answers on their way, and a pet that has had them all has the size it
\* was told last or the one it sent since.
Sized ==
  /\ wl.now.size = wl.next.size
  /\ compositor.answers # <<>> =>
       compositor.answers[Len(compositor.answers)] = compositor.size
  /\ pet.configured /\ compositor.answers = <<>> => pet.size \in {compositor.size, wl.next.size}

\* What a pet with nothing to redraw has on screen, unless the last draw found
\* no buffer.
Drawn ==
  pet.configured /\ ~dirty =>
    /\ ~hidden => pet.size = frame.size
    /\ ~skipped => /\ \A b \in wl.now.buffer : b.size = pet.size /\ b.scale = pet.scale
                   /\ wl.now.scale = wl.next.scale

\* The pet, the surface and the compositor know one scale.
Scaled == pet.scale = wl.next.scale /\ pet.scale = compositor.scale

Parts ==
  /\ Here.pet = pet /\ Here.wl = wl
  /\ pet \in PetTypes /\ wl \in [next : States, now : States]
  /\ wl.next.buffer = wl.now.buffer

LEMMA HereParts ==
  ASSUME IInv
  PROVE  Parts
BY DEF IInv, Good, Kept, Pairs, Here, Both, Parts

\* A new surface has neither been answered nor been configured.
LEMMA CreatedMakes ==
  ASSUME NEW r \in Renders
  PROVE  LET t == Created(r)
         IN /\ t.wl.now.size = t.wl.next.size /\ t.pet.configured = FALSE
            /\ t.pet.scale = 1 /\ t.wl.next.scale = 1
<1> DEFINE p == [NewPet EXCEPT !.through = r.through, !.size = r.size]
           n == Both(p, [next |-> NewState, now |-> NewState])
<1>1. p \in PetTypes /\ p.box = {} /\ p.scale = 1 /\ p.configured = FALSE
  BY DEF NewPet, PetTypes, Renders, Boxes
<1>2. Created(r) = ApplyProps(n, r)
  BY DEF Created
<1> HIDE DEF p
<1>3. n.pet = p /\ n.wl.next.scale = 1 /\ Good(n)
  BY <1>1, NewIsGood DEF Both, NewState
<1> HIDE DEF n
<1> QED
  BY <1>1, <1>2, <1>3, ApplyPropsMakes

LEMMA ReboundMakes ==
  ASSUME NEW q \in PetTypes, NEW r \in Renders
  PROVE  LET t == Rebound(q, r)
         IN /\ t.wl.now.size = t.wl.next.size /\ t.pet.configured = FALSE
            /\ t.pet.scale = q.scale /\ t.wl.next.scale = 1
<1> DEFINE p == [q EXCEPT !.pool = 0, !.busy = 0, !.configured = FALSE, !.box = {}]
           n == Both(p, [next |-> NewState, now |-> NewState])
<1>1. p \in PetTypes /\ p.box = {} /\ p.scale = q.scale /\ p.configured = FALSE
  BY DEF PetTypes, Boxes
<1>2. Rebound(q, r) = ApplyProps(n, r)
  BY DEF Rebound
<1> HIDE DEF p
<1>3. n.pet = p /\ n.wl.next.scale = 1 /\ Good(n)
  BY <1>1, NewIsGood DEF Both, NewState
<1> HIDE DEF n
<1> QED
  BY <1>1, <1>2, <1>3, ApplyPropsMakes

LEMMA InitIsSettled ==
  ASSUME Init
  PROVE  Sized /\ Drawn /\ Scaled
<1>1. render \in Renders
  BY SurfaceAssumption DEF Init, Renders
<1> DEFINE t == Created(render)
<1>2. /\ t.wl.now.size = t.wl.next.size /\ t.pet.configured = FALSE
      /\ t.pet.scale = 1 /\ t.wl.next.scale = 1
  BY <1>1, CreatedMakes
<1>3. pet = t.pet /\ wl = t.wl /\ \E m \in Scales : compositor = Fresh(m)
  BY DEF Init
<1> HIDE DEF t
<1> QED
  BY <1>2, <1>3 DEF Sized, Drawn, Scaled, Fresh

\* apply_props sends what the pet then has, and asks for a redraw.
LEMMA AppliedSettles ==
  ASSUME Parts, Good(Here), NEW r \in Renders, Sized, Becomes(ApplyProps(Here, r)),
         dirty' = TRUE, UNCHANGED compositor
  PROVE  Sized' /\ Drawn' /\ (Scaled => Scaled')
<1> DEFINE t == ApplyProps(Here, r)
<1>1. /\ t.pet.size = r.size /\ t.wl.next.size = r.size /\ t.wl.now = t.wl.next
      /\ t.pet.scale = pet.scale /\ t.wl.next.scale = wl.next.scale
      /\ t.pet.configured = pet.configured
  BY ApplyPropsMakes DEF Parts
<1>2. pet' = t.pet /\ wl' = t.wl
  BY DEF Becomes
<1> HIDE DEF t
<1>3. Sized'
  BY <1>1, <1>2 DEF Sized
<1>4. Drawn'
  BY DEF Drawn
<1>5. Scaled => Scaled'
  BY <1>1, <1>2 DEF Scaled
<1> QED
  BY <1>3, <1>4, <1>5

\* A surface made anew is answered anew.
LEMMA RenewedSettles ==
  ASSUME NEW t, t.wl.now.size = t.wl.next.size, t.pet.configured = FALSE,
         Becomes(t), \E m \in Scales : compositor' = Fresh(m)
  PROVE  /\ Sized' /\ Drawn'
         /\ t.pet.scale = 1 /\ t.wl.next.scale = 1 => Scaled'
BY DEF Becomes, Fresh, Sized, Drawn, Scaled

\* Handlers that leave the surface and the picture alone: at most the number
\* of buffers in flight changes.
LEMMA AloneSettles ==
  ASSUME Sized, Drawn, pet'.size = pet.size, pet'.configured = pet.configured,
         pet'.scale = pet.scale, UNCHANGED <<wl, skipped>>,
         compositor'.size = compositor.size, compositor'.answers = compositor.answers,
         dirty' = TRUE \/ UNCHANGED <<dirty, hidden, frame>>
  PROVE  Sized' /\ Drawn'
<1>1. Sized'
  BY DEF Sized
<1>2. Drawn'
  BY DEF Drawn
<1> QED
  BY <1>1, <1>2

LEMMA DrawSettles ==
  ASSUME IInv, Sized, Draw
  PROVE  Sized' /\ Drawn' /\ (Scaled => Scaled')
<1> DEFINE f == Wanted
           t == Present(Here, f)
<1>1. Parts /\ Good(Here) /\ frame \in Frames
  BY HereParts DEF IInv, Typed
<1>2. f \in Frames /\ (~hidden => f = frame)
  BY <1>1 DEF Wanted, Frames, PetTypes, Parts
<1> HIDE DEF f
<1>3. /\ t.pet.configured = pet.configured
      /\ t.pet.scale = pet.scale /\ t.wl.next.scale = wl.next.scale
      /\ ~pet.configured => t = Here
      /\ pet.configured => t.pet.size = f.size
      /\ pet.configured => \/ t.wl.next.size = f.size
                           \/ pet.size = f.size /\ t.wl.next.size = wl.next.size
      /\ wl.now.size = wl.next.size => t.wl.now.size = t.wl.next.size
      /\ pet.configured /\ EnsurePool(pet, f.size).busy # 2 =>
           /\ t.wl.now.scale = t.wl.next.scale
           /\ \A b \in t.wl.now.buffer : b.size = f.size /\ b.scale = t.pet.scale
  BY <1>1, <1>2, PresentMakes DEF Parts
<1> HIDE DEF t
<1>4. /\ pet' = t.pet /\ wl' = t.wl /\ UNCHANGED <<render, frame, hidden, compositor>>
      /\ skipped' = (pet.configured /\ EnsurePool(pet, f.size).busy = 2)
  BY DEF Draw, Becomes, t, f
<1>5. Sized'
  <2>1. wl'.now.size = wl'.next.size
    BY <1>3, <1>4 DEF Sized
  <2>2. ASSUME pet'.configured, compositor'.answers = <<>>
        PROVE  pet'.size \in {compositor'.size, wl'.next.size}
    BY <1>3, <1>4, <2>2 DEF Sized
  <2> QED
    BY <1>4, <2>1, <2>2 DEF Sized
<1>6. Drawn'
  <2> SUFFICES ASSUME pet'.configured
               PROVE  /\ ~hidden' => pet'.size = frame'.size
                      /\ ~skipped' =>
                           /\ \A b \in wl'.now.buffer : b.size = pet'.size /\ b.scale = pet'.scale
                           /\ wl'.now.scale = wl'.next.scale
    BY DEF Drawn
  <2>1. ~hidden' => pet'.size = frame'.size
    BY <1>2, <1>3, <1>4
  <2>2. ASSUME ~skipped'
        PROVE  /\ \A b \in wl'.now.buffer : b.size = pet'.size /\ b.scale = pet'.scale
               /\ wl'.now.scale = wl'.next.scale
    BY <1>3, <1>4, <2>2
  <2> QED
    BY <2>1, <2>2
<1>7. Scaled => Scaled'
  BY <1>3, <1>4 DEF Scaled
<1> QED
  BY <1>5, <1>6, <1>7

LEMMA ConfigureSettles ==
  ASSUME IInv, Sized, Configure
  PROVE  Sized' /\ Drawn' /\ (Scaled => Scaled')
<1> DEFINE a == compositor.answers
<1>1. pet \in PetTypes /\ compositor \in [monitor : Scales, scale : Nat, size : Nat, answers : Seq(Nat)]
  BY HereParts DEF IInv, Typed, Parts
<1>2. a \in Seq(Nat) /\ a # <<>> /\ a[Len(a)] = compositor.size
  BY <1>1 DEF Configure, Sized
<1>3. /\ pet'.size = Head(a) /\ pet'.scale = pet.scale
      /\ compositor' = [compositor EXCEPT !.answers = Tail(a)]
      /\ UNCHANGED wl /\ dirty' = TRUE
  BY <1>1 DEF Configure, PetTypes
<1>4. /\ compositor'.answers = Tail(a) /\ compositor'.size = compositor.size
      /\ compositor'.scale = compositor.scale
  BY <1>1, <1>3
<1> HIDE DEF a
<1>5. Tail(a) # <<>> => Tail(a)[Len(Tail(a))] = a[Len(a)]
  BY <1>2
<1>6. Tail(a) = <<>> => Head(a) = a[Len(a)]
  <2> SUFFICES ASSUME Tail(a) = <<>>
               PROVE  Head(a) = a[Len(a)]
    OBVIOUS
  <2>1. Len(Tail(a)) = Len(a) - 1 /\ Head(a) = a[1] /\ Len(a) \in Nat
    BY <1>2
  <2>2. Len(Tail(a)) = 0
    <3>1. Len(<<>>) = 0
      OBVIOUS
    <3> QED
      BY <3>1, Zenon
  <2>3. Len(a) = 1
    BY <2>1, <2>2
  <2> QED
    BY <2>1, <2>3
<1>7. Sized'
  BY <1>2, <1>3, <1>4, <1>5, <1>6 DEF Sized
<1>8. Drawn'
  BY <1>3 DEF Drawn
<1>9. Scaled => Scaled'
  BY <1>3, <1>4 DEF Scaled
<1> QED
  BY <1>7, <1>8, <1>9

LEMMA AnswerSettles ==
  ASSUME IInv, Sized, Drawn, Answer
  PROVE  Sized' /\ Drawn' /\ (Scaled => Scaled')
<1> DEFINE a == compositor.answers
           n == wl.now.size
           b == Append(a, n)
<1>1. /\ wl \in [next : States, now : States]
      /\ compositor \in [monitor : Scales, scale : Nat, size : Nat, answers : Seq(Nat)]
  BY HereParts DEF IInv, Typed, Parts
<1>2. a \in Seq(Nat) /\ n \in Nat
  BY <1>1 DEF States
<1>3. b # <<>> /\ b[Len(b)] = n
  <2> HIDE DEF a, n
  <2> QED BY <1>2
<1>4. compositor' = [compositor EXCEPT !.size = n, !.answers = b]
  BY DEF Answer
<1> HIDE DEF a, n, b
<1>5. /\ compositor'.answers = b /\ compositor'.size = n
      /\ compositor'.scale = compositor.scale
  BY <1>1, <1>4
<1>6. UNCHANGED <<pet, render, frame, hidden, dirty, wl, skipped>>
  BY DEF Answer
<1>7. Sized'
  BY <1>3, <1>5, <1>6 DEF Sized
<1>8. Drawn'
  BY <1>6 DEF Drawn
<1>9. Scaled => Scaled'
  BY <1>5, <1>6 DEF Scaled
<1> QED
  BY <1>7, <1>8, <1>9

LEMMA TellScaleSettles ==
  ASSUME IInv, Sized, Drawn, TellScale
  PROVE  Sized' /\ Drawn' /\ (Scaled => Scaled')
<1> DEFINE new == compositor.monitor
<1>1. /\ pet \in PetTypes /\ wl \in [next : States, now : States]
      /\ compositor \in [monitor : Scales, scale : Nat, size : Nat, answers : Seq(Nat)]
  BY HereParts DEF IInv, Typed, Parts
<1>2. new \in Nat
  BY <1>1, SurfaceAssumption
<1>3. /\ compositor' = [compositor EXCEPT !.scale = new]
      /\ UNCHANGED <<frame, hidden, skipped>>
  BY DEF TellScale
<1>4. /\ compositor'.answers = compositor.answers /\ compositor'.size = compositor.size
      /\ compositor'.scale = new
  BY <1>1, <1>3
<1>5. CASE pet.scale = new
  <2>1. UNCHANGED <<pet, wl, dirty>>
    BY <1>5 DEF TellScale, ScaleFactorChanged
  <2>2. Sized' /\ Drawn'
    BY <1>3, <1>4, <2>1, AloneSettles
  <2>3. Scaled => Scaled'
    BY <1>4, <1>5, <2>1 DEF Scaled
  <2> QED
    BY <2>2, <2>3
<1>6. CASE pet.scale # new
  <2> DEFINE p == [pet EXCEPT !.scale = new]
             w == [wl EXCEPT !.next.scale = new]
  <2>1. pet' = p /\ wl' = w /\ dirty' = TRUE
    BY <1>6 DEF TellScale, ScaleFactorChanged
  <2>2. p.size = pet.size /\ p.configured = pet.configured /\ p.scale = new
    BY <1>1 DEF PetTypes
  <2> HIDE DEF p, new
  <2>3. w.now = wl.now /\ w.next.size = wl.next.size /\ w.next.scale = new
    BY <1>1, <1>2 DEF States
  <2> HIDE DEF w
  <2>4. Sized'
    BY <1>4, <2>1, <2>2, <2>3 DEF Sized
  <2>5. Drawn'
    BY <2>1 DEF Drawn
  <2>6. Scaled'
    BY <1>4, <2>1, <2>2, <2>3 DEF Scaled
  <2> QED
    BY <2>4, <2>5, <2>6
<1> QED
  BY <1>5, <1>6

\* Every action keeps sizes and what is drawn; and the scale, unless a surface
\* that was scaled is bound to another monitor.
LEMMA NextSettles ==
  ASSUME IInv, Sized, Drawn, [Next]_vars
  PROVE  Sized' /\ Drawn' /\ (Scaled /\ "rescaled" \notin Faults => Scaled')
<1>1. /\ Parts /\ Good(Here) /\ render \in Renders /\ pet \in PetTypes
      /\ wl \in [next : States, now : States] /\ wl.next.buffer = wl.now.buffer
      /\ compositor \in [monitor : Scales, scale : Nat, size : Nat, answers : Seq(Nat)]
  BY HereParts DEF IInv, Typed, Parts
<1>2. CASE Draw
  BY <1>2, DrawSettles
<1>3. CASE Tick
  BY <1>3, AloneSettles DEF Tick, Scaled
<1>4. CASE SetVisible
  BY <1>4, AloneSettles DEF SetVisible, Scaled
<1>5. ASSUME NEW r \in Renders, Configured(r)
      PROVE  Sized' /\ Drawn' /\ (Scaled => Scaled')
  BY <1>1, <1>5, AppliedSettles DEF Configured
<1>6. CASE ControlSetSize
  <2>1. PICK size \in Sizes : Configured([render EXCEPT !.size = size])
    BY <1>6 DEF ControlSetSize
  <2>2. [render EXCEPT !.size = size] \in Renders
    BY <1>1, SurfaceAssumption DEF Renders
  <2> QED
    BY <1>5, <2>1, <2>2
<1>7. CASE Reload
  <2>1. PICK size \in Sizes, through \in BOOLEAN : Configured([size |-> size, through |-> through])
    BY <1>7 DEF Reload
  <2>2. [size |-> size, through |-> through] \in Renders
    BY SurfaceAssumption DEF Renders
  <2> QED
    BY <1>5, <2>1, <2>2
<1>8. CASE Replace
  BY <1>1, <1>8, AppliedSettles DEF Replace
<1>9. CASE Move
  <2>1. /\ wl'.next = wl.next /\ wl'.now = wl.next
        /\ UNCHANGED <<pet, render, frame, hidden, dirty, compositor, skipped>>
    BY <1>1, <1>9, CommitIsNext DEF Move
  <2>2. Sized'
    BY <2>1 DEF Sized
  <2>3. Drawn'
    BY <1>1, <2>1 DEF Drawn
  <2>4. Scaled => Scaled'
    BY <2>1 DEF Scaled
  <2> QED
    BY <2>2, <2>3, <2>4
<1>10. CASE RebindOutput
  <2> DEFINE t == Rebound(pet, render)
  <2>1. /\ t.wl.now.size = t.wl.next.size /\ t.pet.configured = FALSE
        /\ t.pet.scale = pet.scale /\ t.wl.next.scale = 1
    BY <1>1, ReboundMakes
  <2>2. Becomes(t) /\ \E m \in Scales : compositor' = Fresh(m)
    BY <1>10 DEF RebindOutput
  <2>3. "rescaled" \notin Faults => pet.scale = 1
    BY <1>10 DEF RebindOutput
  <2> HIDE DEF t
  <2> QED
    BY <2>1, <2>2, <2>3, RenewedSettles
<1>11. CASE Recreate
  <2> DEFINE t == Created(render)
  <2>1. /\ t.wl.now.size = t.wl.next.size /\ t.pet.configured = FALSE
        /\ t.pet.scale = 1 /\ t.wl.next.scale = 1
    BY <1>1, CreatedMakes
  <2>2. Becomes(t) /\ \E m \in Scales : compositor' = Fresh(m)
    BY <1>11 DEF Recreate
  <2> HIDE DEF t
  <2> QED
    BY <2>1, <2>2, RenewedSettles
<1>12. CASE Answer
  BY <1>12, AnswerSettles
<1>13. CASE Configure
  BY <1>13, ConfigureSettles
<1>14. CASE TellScale
  BY <1>14, TellScaleSettles
<1>15. CASE ChangeMonitor
  <2>1. /\ compositor'.size = compositor.size /\ compositor'.answers = compositor.answers
        /\ compositor'.scale = compositor.scale
    BY <1>1, <1>15 DEF ChangeMonitor
  <2> QED
    BY <1>15, <2>1, AloneSettles DEF ChangeMonitor, Scaled
<1>16. CASE ReleaseBuffer
  <2>1. /\ pet'.size = pet.size /\ pet'.configured = pet.configured
        /\ pet'.scale = pet.scale
    BY <1>1, <1>16 DEF ReleaseBuffer, PetTypes
  <2> QED
    BY <1>16, <2>1, AloneSettles DEF ReleaseBuffer, Scaled
<1>17. CASE UNCHANGED vars
  BY <1>17, AloneSettles DEF vars, Scaled
<1> QED
  BY <1>2, <1>3, <1>4, <1>6, <1>7, <1>8, <1>9, <1>10, <1>11, <1>12, <1>13, <1>14, <1>15,
     <1>16, <1>17 DEF Next

\* Once nothing is on its way and nothing waits to be drawn, the surface, the
\* pet, the frame and the picture on screen have one size, whatever order the
\* configures, a script's sizes, reloads and replacements came in (configure,
\* set_size, apply_props, draw): for any pictures, sizes, scales and faults.
THEOREM SizeSettlesHolds == Spec => []SizeSettles
<1>1. Sized /\ Drawn => SizeSettles
  BY DEF Sized, Drawn, SizeSettles, Quiet
<1>2. Init => IInv /\ Sized /\ Drawn
  BY InitIsGood, InitIsSettled
<1>3. IInv /\ Sized /\ Drawn /\ [Next]_vars => (IInv /\ Sized /\ Drawn)'
  BY NextKeeps, NextSettles
<1> QED
  BY <1>1, <1>2, <1>3, PTL DEF Spec

\* Then the picture is also drawn at the scale of its monitor, which is the
\* one the surface has (scale_factor_changed, ensure_pool, present), unless a
\* surface that was scaled has been bound to another monitor.
THEOREM SharpInTheEndHolds ==
  ASSUME "rescaled" \notin Faults
  PROVE  Spec => []SharpInTheEnd
<1>1. Drawn /\ Scaled => SharpInTheEnd
  BY DEF Drawn, Scaled, SharpInTheEnd, Quiet
<1>2. Init => IInv /\ Sized /\ Drawn /\ Scaled
  BY InitIsGood, InitIsSettled
<1>3. IInv /\ Sized /\ Drawn /\ Scaled /\ [Next]_vars => (IInv /\ Sized /\ Drawn /\ Scaled)'
  BY NextKeeps, NextSettles
<1> QED
  BY <1>1, <1>2, <1>3, PTL DEF Spec

=============================================================================

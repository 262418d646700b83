----------------------------- MODULE HostProofs -----------------------------
(***************************************************************************)
(* Proofs about Host, for every set of pets, outputs and configurations,   *)
(* and about Singleton, which guards the process it runs in.               *)
(*                                                                         *)
(* Every handler rewrites the record of a pet through one of a dozen       *)
(* operators, so the first lemmas show what each operator preserves, and   *)
(* the proof of an invariant then looks at each action once.  Singleton's  *)
(* theorems come last.                                                     *)
(***************************************************************************)
EXTENDS Host, Singleton, SequenceTheorems, WellFoundedInduction, TLAPS

Binding == Outputs \cup {NoOutput, DeadOutput}

\* A record that is typed and disciplined.
Good(r) == r \in PetType /\ Disciplined(r)

LEMMA FallRange ==
  /\ NoPhysics \in NoPhysics .. MaxFall /\ 0 \in NoPhysics .. MaxFall
  /\ NoPhysics # 0
  /\ \A f \in Falls : f \in NoPhysics .. MaxFall /\ f # NoPhysics
  BY HostAssumption, SMT DEF NoPhysics, Falls

LEMMA ConfigViews ==
  ASSUME NEW c \in Configs, NEW p \in Pets
  PROVE  c.view[p] \in ViewType
  BY HostAssumption

LEMMA DefaultTyped == DefaultView \in ViewType
  BY HostAssumption DEF DefaultView

LEMMA FindTyped ==
  ASSUME NEW o, NEW S \in SUBSET Outputs
  PROVE  Find(o, S) \in Binding
  BY DEF Find, Binding

\* Any record of a pet that is not moving is disciplined (PetMotion::cancel).
LEMMA CancelGood ==
  ASSUME NEW r \in PetType
  PROVE  Good(Cancel(r)) /\ Cancel(r).mode = r.mode
  BY FallRange DEF Cancel, Good, Disciplined, PetType

LEMMA FreshGood ==
  ASSUME NEW v \in ViewType, NEW o \in Binding
  PROVE  Good(Fresh(v, o))
  BY FallRange DEF Fresh, Good, Disciplined, PetType, ViewType, Binding

\* Where a pet is and what its surface shows has no part in the discipline.
LEMMA FieldsGood ==
  ASSUME NEW r, Good(r)
  PROVE  /\ \A x \in Spots \cup {Free} : Good([r EXCEPT !.spot = x])
         /\ \A x \in Binding : Good([r EXCEPT !.bound = x])
         /\ \A x \in {"none", "waiting", "ready", "stuck"} : Good([r EXCEPT !.surf = x])
         /\ \A x \in {"none", "blank", "pet"} : Good([r EXCEPT !.screen = x])
         /\ \A x \in ViewType : Good([r EXCEPT !.render = x])
         /\ \A x \in BOOLEAN : Good([r EXCEPT !.visible = x])
  BY DEF Good, Disciplined, PetType, Binding

LEMMA CommitGood ==
  ASSUME NEW r, Good(r)
  PROVE  Good(Commit(r))
<1>1. r.surf \in {"none", "waiting", "ready", "stuck"}
  BY DEF Good, PetType
<1> QED BY <1>1, FieldsGood DEF Commit

LEMMA ApplyPropsGood ==
  ASSUME NEW r, Good(r)
  PROVE  Good(ApplyProps(r))
<1>1. r.render.spot \in Spots
  BY DEF Good, PetType, ViewType
<1>2. Good([r EXCEPT !.spot = r.render.spot])
  BY <1>1, FieldsGood
<1> QED BY <1>2, CommitGood DEF ApplyProps

LEMMA GoneGood == Good(Gone)
<1>1. Good(Fresh(DefaultView, NoOutput))
  BY DefaultTyped, FreshGood DEF Binding
<1> QED BY <1>1 DEF Gone, Good, Disciplined, PetType

LEMMA RebindGood ==
  ASSUME NEW r, Good(r), NEW o \in Binding
  PROVE  Good(Rebind(r, o))
<1> DEFINE a == ApplyProps(r)
           b == [a EXCEPT !.bound = o]
           c == [b EXCEPT !.screen = "none"]
           x == IF r.render.spot \in BadSpots THEN "stuck" ELSE "waiting"
<1>1. Good(a)  BY ApplyPropsGood
<1>2. Good(b)  BY <1>1, FieldsGood
<1>3. Good(c)  BY <1>2, FieldsGood
<1>4. x \in {"none", "waiting", "ready", "stuck"}  OBVIOUS
<1>5. Good([c EXCEPT !.surf = x])  BY <1>3, <1>4, FieldsGood
<1> QED BY <1>5 DEF Rebind

LEMMA StartPhysicsGood ==
  ASSUME NEW r \in PetType, r.mode = "physics", NEW f \in Falls
  PROVE  Good(StartPhysics(r, f))
<1>1. /\ Good(Cancel(r)) /\ Cancel(r).mode = "physics" /\ Cancel(r).drag = "none"
  BY CancelGood DEF Cancel, PetType
<1>2. f \in NoPhysics .. MaxFall  BY FallRange
<1> QED BY <1>1, <1>2 DEF StartPhysics, Good, Disciplined, PetType

LEMMA SetModeGood ==
  ASSUME NEW r, Good(r), NEW m \in Modes, NEW f \in Falls
  PROVE  Good(SetMode(r, m, f))
<1> DEFINE s == [Cancel(r) EXCEPT !.mode = m]
<1>1. /\ Good(Cancel(r)) /\ Cancel(r).drag = "none" /\ ~Cancel(r).pending
      /\ Cancel(r).physics = NoPhysics
  BY CancelGood DEF Cancel, PetType, Good
<1>2. Good(s) /\ s.mode = m
  BY <1>1 DEF Good, Disciplined, PetType
<1>3. m = "physics" => Good(StartPhysics(s, f))
  BY <1>2, StartPhysicsGood DEF Good
<1> QED BY <1>2, <1>3 DEF SetMode

LEMMA SetVisibleGood ==
  ASSUME NEW r, Good(r), NEW v \in BOOLEAN
  PROVE  Good(SetVisible(r, v))
<1>1. Good(Cancel(r))  BY CancelGood DEF Good
<1>2. Good([r EXCEPT !.visible = TRUE])
  BY DEF Good, Disciplined, PetType
<1>3. Good([Cancel(r) EXCEPT !.visible = FALSE])
  BY <1>1, ZenonT(30) DEF Good, Disciplined, PetType
<1> QED BY <1>2, <1>3 DEF SetVisible
\* The mode may change only while the pet is still.
Still(r) == r.drag = "none" /\ ~r.pending /\ r.physics = NoPhysics

LEMMA ModeGood ==
  ASSUME NEW r, Good(r), NEW m \in Modes, Still(r) \/ m = r.mode
  PROVE  Good([r EXCEPT !.mode = m])
  BY DEF Still, Good, Disciplined, PetType

LEMMA ReapplyGood ==
  ASSUME NEW r, Good(r), NEW v \in ViewType, connected \subseteq Outputs
  PROVE  Good(Reapply(r, v))
<1> DEFINE moved == \/ v.spot # r.render.spot \/ v.size # r.render.size
                    \/ v.layer # r.render.layer \/ v.mode # r.mode
           base  == IF moved THEN Cancel(r) ELSE r
           view  == [base EXCEPT !.render = v]
           next  == [base EXCEPT !.render = v, !.mode = v.mode]
           props == ApplyProps(next)
<1>1. Good(base) /\ base \in PetType
  BY CancelGood DEF Good
<1>2. Good(view)
  BY <1>1, FieldsGood
<1>3. Still(view) \/ v.mode = view.mode
  <2>1. CASE moved
    <3>1. base = Cancel(r)  BY <2>1
    <3>2. Still(base)
      BY <3>1 DEF Cancel, Still, Good, PetType
    <3> QED BY <1>1, <3>2 DEF Still, PetType
  <2>2. CASE ~moved
    BY <2>2, <1>1 DEF PetType
  <2> QED BY <2>1, <2>2
<1>4. v.mode \in Modes  BY DEF ViewType
<1>5. Good([view EXCEPT !.mode = v.mode])
  BY <1>2, <1>3, <1>4, ModeGood
<1>6. Good(props)  BY <1>5, ApplyPropsGood
<1>7. Good(Rebind(props, Find(v.output, connected)))
  BY <1>6, FindTyped, RebindGood
<1> QED BY <1>6, <1>7 DEF Reapply

LEMMA BoundGood ==
  ASSUME NEW r, Good(r), NEW S \in SUBSET Outputs
  PROVE  Good(Bound(r, S))
<1>1. CASE Unbound(r, S)
  <2>1. r.render.output \in Binding  BY <1>1 DEF Unbound, Binding
  <2> QED BY <1>1, <2>1, RebindGood DEF Bound
<1> QED BY <1>1 DEF Bound

LEMMA StepGood ==
  ASSUME NEW r, Good(r)
  PROVE  Good(Step(r))
<1>1. /\ r.physics \in NoPhysics .. MaxFall
  BY DEF Good, PetType
<1>2. CASE r.physics > 0
  <2>1. /\ r.physics # NoPhysics
        /\ r.physics - 1 \in NoPhysics .. MaxFall
        /\ 0 \in NoPhysics .. MaxFall
    BY <1>1, <1>2, HostAssumption, SMT DEF NoPhysics
  <2>2. r.mode = "physics" /\ r.drag = "none"
    BY <2>1 DEF Good, Disciplined
  <2>3. Good([r EXCEPT !.physics = 0])
    BY <2>1, <2>2 DEF Good, Disciplined, PetType
  <2>4. Good([r EXCEPT !.physics = r.physics - 1])
    BY <2>1, <2>2 DEF Good, Disciplined, PetType
  <2>5. Good([r EXCEPT !.physics = r.physics - 1, !.pending = TRUE])
    BY <2>2, <2>4 DEF Good, Disciplined, PetType
  <2> QED BY <2>3, <2>5, <1>2, SMT DEF Step
<1>3. CASE r.physics <= 0
  BY <1>3 DEF Step
<1> QED BY <1>1, <1>2, <1>3, SMT DEF NoPhysics

LEMMA ApplyPositionGood ==
  ASSUME NEW r, Good(r)
  PROVE  Good(ApplyPosition(r))
<1>1. Good([r EXCEPT !.pending = FALSE])
  BY DEF Good, Disciplined, PetType
<1>2. Good([r EXCEPT !.pending = FALSE, !.spot = Free])
  BY <1>1, FieldsGood
<1> QED BY <1>2, CommitGood DEF ApplyPosition

LEMMA PresentGood ==
  ASSUME NEW r, Good(r), NEW held
  PROVE  Good(Present(r, held))
<1>1. Wanted(r, fullscreen) \in {"none", "blank", "pet"}  BY DEF Wanted
<1> QED BY <1>1, FieldsGood DEF Present

-----------------------------------------------------------------------------
\* The inductive invariant: every record is typed and disciplined.  The
\* discipline alone is not inductive: StartPhysics and Step need the range of
\* a fall, and a reload needs the types of the views it hands to the pets.
AllGood(st) == st \in [Pets -> PetType] /\ \A p \in Pets : Disciplined(st[p])
IInv == StateTyped /\ MotionDiscipline

LEMMA PetGood ==
  ASSUME IInv, NEW p \in Pets
  PROVE  Good(pet[p])
  BY DEF IInv, StateTyped, MotionDiscipline, Good

\* Rewriting one pet, or building a record for each.
LEMMA OneGood ==
  ASSUME IInv, NEW p \in Pets, NEW r, Good(r)
  PROVE  AllGood([pet EXCEPT ![p] = r])
  BY DEF IInv, StateTyped, MotionDiscipline, Good, AllGood

LEMMA InitIInv == Init => IInv
<1> SUFFICES ASSUME Init PROVE IInv
  OBVIOUS
<1>1. connected \subseteq Outputs
  BY DEF Init
<1>2. PICK c \in Configs :
               \E failed \in SUBSET {p \in ToSet(c.order) : c.view[p].art \in Flaky} :
                 Start(c, failed, connected)
  BY DEF Init
<1>0. PICK failed \in SUBSET {p \in ToSet(c.order) : c.view[p].art \in Flaky} :
        Start(c, failed, connected)
  BY <1>2
<1>3. slotView \in [Pets -> ViewType]
  BY <1>0, ConfigViews, DefaultTyped DEF Start
<1>4. AllGood(pet)
  <2> DEFINE up == Creatable(Without(c.order, failed), c.view)
  <2>1. pet = [p \in Pets |-> IF p \in up
                 THEN Fresh(c.view[p], Find(c.view[p].output, connected)) ELSE Gone]
    BY <1>0 DEF Start
  <2>2. ASSUME NEW p \in Pets PROVE Good(pet[p])
    BY <2>1, <1>1, ConfigViews, FindTyped, FreshGood, GoneGood
  <2> QED BY <2>1, <2>2 DEF AllGood, Good
<1> QED BY <1>1, <1>3, <1>4 DEF Init, IInv, StateTyped, MotionDiscipline, AllGood

LEMMA ReloadGood ==
  ASSUME IInv, NEW c \in Configs, Reload(c)
  PROVE  /\ slotView' \in [Pets -> ViewType] /\ AllGood(pet')
         /\ redraw' = TRUE /\ UNCHANGED <<fullscreen, connected, paused, exit>>
<1>1. PICK failed : ApplyConfig(c, failed)
  BY DEF Reload
<1> DEFINE v == ApplyViews(c, failed)
<1>2. v \in [Pets -> ViewType]
  BY ConfigViews, DefaultTyped DEF ApplyViews, IInv, StateTyped
<1>3. connected \subseteq Outputs
  BY DEF IInv, StateTyped
<1>4. ASSUME NEW p \in Pets
      PROVE  /\ Good(Fresh(v[p], Find(v[p].output, connected)))
             /\ Good(Bound(Reapply(pet[p], v[p]), connected))
             /\ Good(Gone)
  <2>1. v[p] \in ViewType  BY <1>2
  <2>2. Good(Reapply(pet[p], v[p]))  BY <2>1, <1>3, PetGood, ReapplyGood
  <2> QED BY <2>1, <2>2, <1>3, FindTyped, FreshGood, BoundGood, GoneGood
<1>5. AllGood(pet')
  BY <1>1, <1>4 DEF ApplyConfig, AllGood, Good
<1> QED BY <1>1, <1>2, <1>5 DEF ApplyConfig

LEMMA VisibilityGood ==
  ASSUME IInv, Visibility
  PROVE  AllGood(pet')
<1>1. \A p \in Pets, v \in BOOLEAN : Good(SetVisible(pet[p], v))
  BY PetGood, SetVisibleGood
<1>2. ASSUME NEW S, NEW v \in BOOLEAN, pet' = On(S, LAMBDA r : SetVisible(r, v))
      PROVE  AllGood(pet')
  BY <1>1, <1>2, PetGood DEF On, AllGood, Good
<1>3. CASE ToggleVisible
  <2> DEFINE show == \A p \in Running : ~pet[p].visible
  <2>1. pet' = On(Running, LAMBDA r : SetVisible(r, show))
    BY <1>3 DEF ToggleVisible, Update
  <2>2. show \in BOOLEAN  OBVIOUS
  <2> HIDE DEF show
  <2> QED BY <1>1, <2>1, <2>2, PetGood DEF On, AllGood, Good
<1>4. ASSUME NEW p \in Pets, TogglePetVisible(p)
      PROVE  AllGood(pet')
  <2>1. pet[p].visible \in BOOLEAN  BY PetGood DEF Good, PetType
  <2>2. pet' = [pet EXCEPT ![p] = SetVisible(pet[p], ~pet[p].visible)]
    BY <1>4 DEF TogglePetVisible, Update
  <2> QED BY <1>1, <2>1, <2>2, OneGood
<1>5. ASSUME NEW S \in SUBSET Pets, NEW v \in BOOLEAN, ControlSetVisible(S, v)
      PROVE  AllGood(pet')
  BY <1>2, <1>5 DEF ControlSetVisible, Update
<1> QED BY <1>3, <1>4, <1>5 DEF Visibility

LEMMA ModeSwitchGood ==
  ASSUME IInv, ModeSwitch
  PROVE  AllGood(pet')
<1>1. \A p \in Pets, m \in Modes, f \in Falls : Good(SetMode(pet[p], m, f))
  BY PetGood, SetModeGood
<1>2. ASSUME NEW m \in Modes, NEW f \in Falls, SetMoveMode(m, f)
      PROVE  AllGood(pet')
  BY <1>1, <1>2, PetGood DEF SetMoveMode, Update, On, AllGood, Good
<1>3. ASSUME NEW p \in Pets, NEW m \in Modes, NEW f \in Falls, SetPetMoveMode(p, m, f)
      PROVE  AllGood(pet')
  BY <1>1, <1>3, OneGood DEF SetPetMoveMode, Update
<1> QED BY <1>2, <1>3 DEF ModeSwitch

LEMMA LayerGood ==
  ASSUME IInv, NEW l \in Layers, SetLayer(l)
  PROVE  AllGood(pet')
<1>1. ASSUME NEW p \in Pets
      PROVE  Good(ApplyProps([pet[p] EXCEPT !.render.layer = l]))
  <2>1. [pet[p].render EXCEPT !.layer = l] \in ViewType
    BY PetGood DEF Good, PetType, ViewType
  <2>2. Good([pet[p] EXCEPT !.render = [pet[p].render EXCEPT !.layer = l]])
    BY <2>1, PetGood, FieldsGood
  <2> QED BY <2>2, ApplyPropsGood
<1> QED BY <1>1, PetGood DEF SetLayer, Update, On, AllGood, Good

LEMMA PlacementGood ==
  ASSUME IInv, Placement
  PROVE  slotView' \in [Pets -> ViewType] /\ AllGood(pet')
<1>1. ASSUME NEW p \in Pets
      PROVE  /\ Good(Cancel(pet[p])) /\ Cancel(pet[p]).render \in ViewType
             /\ slotView[p] \in ViewType
  BY PetGood, CancelGood DEF Good, PetType, IInv, StateTyped
<1>2. ASSUME NEW p \in Pets, NEW s \in Spots, SetPlacement(p, s)
      PROVE  slotView' \in [Pets -> ViewType] /\ AllGood(pet')
  <2> DEFINE v == [Cancel(pet[p]).render EXCEPT !.spot = s]
  <2>1. v \in ViewType  BY <1>1 DEF ViewType
  <2>2. Good([Cancel(pet[p]) EXCEPT !.render = v])
    BY <1>1, <2>1, FieldsGood
  <2>3. Good(ApplyProps([Cancel(pet[p]) EXCEPT !.render.spot = s]))
    BY <2>2, ApplyPropsGood
  <2> QED BY <1>2, <2>3, OneGood DEF SetPlacement, Update, IInv, StateTyped
<1>3. ASSUME NEW p \in Pets, NEW z \in Sizes, SetSize(p, z)
      PROVE  slotView' \in [Pets -> ViewType] /\ AllGood(pet')
  <2> DEFINE v == [Cancel(pet[p]).render EXCEPT !.size = z]
  <2>1. v \in ViewType /\ [slotView[p] EXCEPT !.size = z] \in ViewType
    BY <1>1 DEF ViewType
  <2>2. Good([Cancel(pet[p]) EXCEPT !.render = v])
    BY <1>1, <2>1, FieldsGood
  <2>3. Good(ApplyProps([Cancel(pet[p]) EXCEPT !.render.size = z]))
    BY <2>2, ApplyPropsGood
  <2>4. slotView' \in [Pets -> ViewType]
    BY <1>3, <2>1 DEF SetSize, IInv, StateTyped
  <2> QED BY <1>3, <2>3, <2>4, OneGood DEF SetSize
<1> QED BY <1>2, <1>3 DEF Placement

LEMMA PauseGood ==
  ASSUME IInv, NEW b \in BOOLEAN, SetPaused(b)
  PROVE  AllGood(pet')
<1>1. \A p \in Pets : Good(Cancel(pet[p]))
  BY PetGood, CancelGood DEF Good
<1> QED BY <1>1, PetGood DEF SetPaused, On, AllGood, Good, IInv, StateTyped

\* A drag is only held where nothing falls and the mode is not fixed.
LEMMA DragGood ==
  ASSUME NEW r, Good(r)
  PROVE  /\ Good(Dropped(r))
         /\ r.mode # "fixed" => Good([r EXCEPT !.drag = "held", !.physics = NoPhysics])
         /\ r.drag # "none" => \A far \in BOOLEAN : Good(Dragged(r, far))
<1>1. Good(Dropped(r))
  BY DEF Dropped, Good, Disciplined, PetType
<1>2. ASSUME r.mode # "fixed"
      PROVE  Good([r EXCEPT !.drag = "held", !.physics = NoPhysics])
  <2>1. [r EXCEPT !.drag = "held", !.physics = NoPhysics] \in PetType
    BY FallRange DEF Good, PetType
  <2> QED BY <2>1, <1>2 DEF Good, Disciplined, PetType
<1>3. ASSUME r.drag # "none", NEW far \in BOOLEAN
      PROVE  Good(Dragged(r, far))
  <2> DEFINE s == [r EXCEPT !.pending = TRUE]
             d == IF far THEN "moved" ELSE r.drag
  <2>1. r.mode # "fixed" /\ r.physics = NoPhysics
    BY <1>3 DEF Good, Disciplined
  <2>2. Good(s) /\ s.mode # "fixed" /\ s.physics = NoPhysics
    BY <2>1 DEF Good, Disciplined, PetType
  <2>3. d \in {"none", "held", "moved"}
    BY DEF Good, PetType
  <2>4. Good([s EXCEPT !.drag = d])
    BY <2>2, <2>3 DEF Good, Disciplined, PetType
  <2> QED BY <2>4 DEF Dragged
<1> QED BY <1>1, <1>2, <1>3

LEMMA PointerGood ==
  ASSUME IInv, Pointer
  PROVE  AllGood(pet') /\ redraw' \in BOOLEAN
         /\ UNCHANGED <<slotView, fullscreen, connected, paused, exit>>
<1>1. ASSUME NEW p \in Pets, Press(p)
      PROVE  AllGood(pet')
  <2> DEFINE s == [pet[p] EXCEPT !.drag = "held", !.physics = NoPhysics]
  <2>1. Good(s)  BY <1>1, PetGood, DragGood DEF Press
  <2>2. Good([s EXCEPT !.spot = Free])  BY <2>1, FieldsGood
  <2> QED BY <1>1, <2>2, OneGood DEF Press, Motion
<1>2. ASSUME NEW p \in Pets, Leave(p)
      PROVE  AllGood(pet')
  BY <1>2, PetGood, DragGood, OneGood DEF Leave, Motion
<1>3. ASSUME NEW p \in Pets, NEW far \in BOOLEAN, Move(p, far)
      PROVE  AllGood(pet')
  BY <1>3, PetGood, DragGood, OneGood DEF Move, Motion
<1>4. ASSUME NEW p \in Pets, NEW f \in Falls, Release(p, f)
      PROVE  AllGood(pet')
  <2>1. pet[p].mode = "physics" => Good(StartPhysics(pet[p], f))
    BY PetGood, StartPhysicsGood DEF Good
  <2>2. Good(Dropped(pet[p]))
    BY PetGood, DragGood
  <2> QED BY <1>4, <2>1, <2>2, OneGood DEF Release, Motion
<1>5. ASSUME PointerLost
      PROVE  AllGood(pet')
  <2>1. \A p \in Pets : Good(Dropped(pet[p]))
    BY PetGood, DragGood
  <2> QED BY <1>5, <2>1, PetGood DEF PointerLost, Motion, On, AllGood, Good
<1>6. ASSUME PetEvent
      PROVE  AllGood(pet')
  BY <1>6 DEF PetEvent, Motion, AllGood, IInv, StateTyped, MotionDiscipline
<1>7. /\ redraw' \in BOOLEAN
      /\ UNCHANGED <<slotView, fullscreen, connected, paused, exit>>
  BY DEF Pointer, Press, Leave, Move, Release, PointerLost, PetEvent, Motion, React,
         IInv, StateTyped
<1> QED BY <1>1, <1>2, <1>3, <1>4, <1>5, <1>6, <1>7 DEF Pointer

LEMMA OutputsGood ==
  ASSUME IInv, NEW o \in Outputs, OutputGone(o) \/ NewOutput(o)
  PROVE  AllGood(pet') /\ connected' \subseteq Outputs /\ redraw' \in BOOLEAN
         /\ UNCHANGED <<slotView, fullscreen, paused, exit>>
<1>1. connected \subseteq Outputs /\ redraw \in BOOLEAN
  BY DEF IInv, StateTyped
<1>2. CASE OutputGone(o)
  <2>1. \A p \in Pets : Good([pet[p] EXCEPT !.bound = DeadOutput])
    BY PetGood, FieldsGood DEF Binding
  <2> QED BY <1>1, <1>2, <2>1, PetGood DEF OutputGone, AllGood, Good
<1>3. CASE NewOutput(o)
  <2>1. \A p \in Pets : Good(Bound(pet[p], connected \cup {o}))
    BY <1>1, PetGood, BoundGood
  <2> QED BY <1>1, <1>3, <2>1 DEF NewOutput, AllGood, Good
<1> QED BY <1>2, <1>3

LEMMA IterateGood ==
  ASSUME IInv, NEW ticked, NEW held, Iterate(ticked, held)
  PROVE  AllGood(pet')
<1> DEFINE steps  == ~paused /\ ~ticked
           placed == [p \in Pets |->
                        ApplyPosition(IF steps THEN Step(pet[p]) ELSE pet[p])]
<1>1. ASSUME NEW p \in Pets
      PROVE  Good(placed[p])
  BY PetGood, StepGood, ApplyPositionGood
<1>2. \A p \in Pets : Good(Present(placed[p], p \in held))
  BY <1>1, PresentGood
<1>3. \/ pet' = [p \in Pets |-> Present(placed[p], p \in held)]
      \/ pet' = placed
  BY DEF Iterate
<1> HIDE DEF placed
<1>4. placed \in [Pets -> PetType]
  BY <1>1 DEF placed, Good
<1> QED BY <1>1, <1>2, <1>3, <1>4 DEF AllGood, Good

\* The actions that do not touch the pets beyond the lemmas above.
LEMMA NextIInv == IInv /\ [Next]_vars => IInv'
<1> SUFFICES ASSUME IInv, [Next]_vars PROVE IInv'
  OBVIOUS
<1>1. /\ slotView' \in [Pets -> ViewType] /\ AllGood(pet')
      /\ fullscreen' \in BOOLEAN /\ connected' \subseteq Outputs
      /\ paused' \in BOOLEAN /\ redraw' \in BOOLEAN
      /\ exit' \in {"no", "at", "done"}
      => IInv'
  BY DEF IInv, StateTyped, MotionDiscipline, AllGood
<1>2. /\ slotView \in [Pets -> ViewType] /\ AllGood(pet)
      /\ fullscreen \in BOOLEAN /\ connected \subseteq Outputs
      /\ paused \in BOOLEAN /\ redraw \in BOOLEAN
      /\ exit \in {"no", "at", "done"}
  BY DEF IInv, StateTyped, MotionDiscipline, AllGood
<1>3. ASSUME NEW c \in Configs, Reload(c) PROVE IInv'
  BY <1>1, <1>2, <1>3, ReloadGood
<1>4. CASE Visibility
  <2>1. UNCHANGED <<slotView, fullscreen, connected, paused, exit>> /\ redraw' = TRUE
    BY <1>4 DEF Visibility, ToggleVisible, TogglePetVisible, ControlSetVisible, Update
  <2> QED BY <1>1, <1>2, <1>4, <2>1, VisibilityGood
<1>5. CASE ModeSwitch
  <2>1. UNCHANGED <<slotView, fullscreen, connected, paused, exit>> /\ redraw' = TRUE
    BY <1>5 DEF ModeSwitch, SetMoveMode, SetPetMoveMode, Update
  <2> QED BY <1>1, <1>2, <1>5, <2>1, ModeSwitchGood
<1>6. ASSUME NEW l \in Layers, SetLayer(l) PROVE IInv'
  <2>1. UNCHANGED <<slotView, fullscreen, connected, paused, exit>> /\ redraw' = TRUE
    BY <1>6 DEF SetLayer, Update
  <2> QED BY <1>1, <1>2, <1>6, <2>1, LayerGood
<1>7. CASE Placement
  <2>1. UNCHANGED <<fullscreen, connected, paused, exit>> /\ redraw' \in BOOLEAN
    BY <1>2, <1>7 DEF Placement, SetPlacement, SetSize, Update
  <2> QED BY <1>1, <1>2, <1>7, <2>1, PlacementGood
<1>8. ASSUME NEW b \in BOOLEAN, SetPaused(b) PROVE IInv'
  BY <1>1, <1>2, <1>8, PauseGood DEF SetPaused
<1>9. CASE ControlQuit \/ QuitNow \/ ExitTurn
  BY <1>1, <1>2, <1>9 DEF ControlQuit, QuitNow, ExitTurn
<1>10. CASE Pointer
  BY <1>1, <1>2, <1>10, PointerGood
<1>11. ASSUME NEW p \in Pets, Closed(p) PROVE IInv'
  <2>1. AllGood(pet')
    BY <1>11, GoneGood, OneGood DEF Closed
  <2> QED BY <1>1, <1>2, <1>11, <2>1 DEF Closed
<1>12. ASSUME NEW p \in Pets, Configure(p) PROVE IInv'
  <2>1. AllGood(pet')
    BY <1>12, PetGood, FieldsGood, OneGood DEF Configure
  <2> QED BY <1>1, <1>2, <1>12, <2>1 DEF Configure
<1>13. CASE FullscreenChanged
  BY <1>1, <1>2, <1>13 DEF FullscreenChanged
<1>14. ASSUME NEW o \in Outputs, OutputGone(o) \/ NewOutput(o) PROVE IInv'
  BY <1>1, <1>2, <1>14, OutputsGood
<1>15. CASE LoopTurn
  <2>1. PICK ticked \in BOOLEAN, held \in SUBSET Running : Iterate(ticked, held)
    BY <1>15 DEF LoopTurn
  <2>2. AllGood(pet')  BY <2>1, IterateGood
  <2> QED BY <1>1, <1>2, <2>1, <2>2 DEF Iterate
<1>16. CASE UNCHANGED vars
  BY <1>1, <1>2, <1>16 DEF vars
<1> QED BY <1>3, <1>4, <1>5, <1>6, <1>7, <1>8, <1>9, <1>10, <1>11, <1>12, <1>13,
          <1>14, <1>15, <1>16 DEF Next

\* Whatever the tray, the control channel, the pointer and the reloads do and
\* in whatever order, a fixed pet is never dragged, falling or about to be
\* moved, and only a pet in physics mode that nobody holds falls.
THEOREM MotionIsDisciplined == Spec => []MotionDiscipline
<1>1. IInv => MotionDiscipline  BY DEF IInv
<1> QED BY <1>1, InitIInv, NextIInv, PTL DEF Spec

-----------------------------------------------------------------------------
\* No redraw is lost.  A handler either asks for a redraw, or leaves alone
\* everything the picture depends on; the loop body clears the request only
\* by presenting every pet.

\* s may replace r without a redraw.
Alike(r, s) ==
  /\ s.surf = "ready" => r.surf = "ready"
  /\ s.screen = r.screen /\ s.visible = r.visible
  /\ s.render.layer = r.render.layer /\ s.render.stay = r.render.stay

AllCurrent == \A p \in Pets : Current(pet[p], fullscreen)

LEMMA AlikeCurrent ==
  ASSUME NEW r, NEW s, NEW fs, Alike(r, s), Current(r, fs)
  PROVE  Current(s, fs)
  BY DEF Alike, Current, Wanted, HidesOnFullscreen

\* If every pet is replaced by one alike, nothing is out of date that was not.
LEMMA AlikeStep ==
  ASSUME \A p \in Pets : Alike(pet[p], pet'[p]), fullscreen' = fullscreen, AllCurrent
  PROVE  AllCurrent'
  BY AlikeCurrent DEF AllCurrent

LEMMA AlikeMotion ==
  ASSUME NEW r \in PetType
  PROVE  /\ Alike(r, r) /\ Alike(r, Cancel(r)) /\ Alike(r, Dropped(r))
         /\ \A far \in BOOLEAN : Alike(r, Dragged(r, far))
         /\ \A f \in Falls : Alike(r, StartPhysics(r, f))
         /\ Alike(r, [r EXCEPT !.bound = DeadOutput])
         /\ Alike(r, [r EXCEPT !.drag = "held", !.physics = NoPhysics, !.spot = Free])
<1>1. /\ Alike(r, r) /\ Alike(r, Cancel(r)) /\ Alike(r, Dropped(r))
      /\ Alike(r, [r EXCEPT !.bound = DeadOutput])
  BY DEF Alike, Cancel, Dropped, PetType
<1>2. \A far \in BOOLEAN : Alike(r, Dragged(r, far))
  BY DEF Alike, Dragged, PetType
<1>3. Cancel(r) \in PetType
  BY CancelGood DEF Good
<1>4. \A f \in Falls : Alike(r, StartPhysics(r, f))
  BY <1>3, <1>1 DEF Alike, StartPhysics, PetType
<1>5. Alike(r, [r EXCEPT !.drag = "held", !.physics = NoPhysics, !.spot = Free])
  BY DEF Alike, PetType
<1> QED BY <1>1, <1>2, <1>4, <1>5

LEMMA AlikeTurn ==
  ASSUME NEW r, Good(r)
  PROVE  Alike(r, Step(r)) /\ Alike(r, ApplyPosition(r)) /\ Alike(r, ApplyPosition(Step(r)))
<1>1. ASSUME NEW q, Good(q) PROVE Alike(q, ApplyPosition(q))
  <2> DEFINE s == [q EXCEPT !.pending = FALSE, !.spot = Free]
  <2>1. s.surf = q.surf /\ s.screen = q.screen /\ s.visible = q.visible
        /\ s.render = q.render /\ DOMAIN s = DOMAIN q
    BY <1>1 DEF Good, PetType
  <2>2. "surf" \in DOMAIN s /\ "screen" \in DOMAIN s
    BY <1>1, <2>1 DEF Good, PetType
  <2> HIDE DEF s
  <2>3. Alike(q, Commit(s))
    BY <2>1, <2>2 DEF Alike, Commit
  <2>4. Alike(q, q)  BY DEF Alike
  <2> QED BY <2>3, <2>4 DEF ApplyPosition, s
<1>2. Alike(r, Step(r))
  BY DEF Alike, Step, Good, PetType
<1>3. Alike(Step(r), ApplyPosition(Step(r)))
  BY <1>1, StepGood
<1> QED BY <1>1, <1>2, <1>3 DEF Alike

LEMMA PresentCurrent ==
  ASSUME NEW r \in PetType
  PROVE  Current(Present(r, FALSE), fullscreen)
  BY DEF Present, Current, Wanted, HidesOnFullscreen, PetType

LEMMA PointerAlike ==
  ASSUME IInv, Pointer, NEW p \in Pets
  PROVE  Alike(pet[p], pet'[p])
<1>1. /\ pet[p] \in PetType /\ pet \in [Pets -> PetType]
  BY PetGood DEF Good, IInv, StateTyped
<1>2. ASSUME NEW q \in Pets, Press(q) PROVE Alike(pet[p], pet'[p])
  BY <1>1, <1>2, AlikeMotion DEF Press, Motion
<1>3. ASSUME NEW q \in Pets, Leave(q) PROVE Alike(pet[p], pet'[p])
  BY <1>1, <1>3, AlikeMotion DEF Leave, Motion
<1>4. ASSUME NEW q \in Pets, NEW far \in BOOLEAN, Move(q, far)
      PROVE  Alike(pet[p], pet'[p])
  BY <1>1, <1>4, AlikeMotion DEF Move, Motion
<1>5. ASSUME NEW q \in Pets, NEW f \in Falls, Release(q, f)
      PROVE  Alike(pet[p], pet'[p])
  BY <1>1, <1>5, AlikeMotion DEF Release, Motion
<1>6. CASE PointerLost
  BY <1>1, <1>6, AlikeMotion DEF PointerLost, Motion, On
<1>7. CASE PetEvent
  BY <1>1, <1>7, AlikeMotion DEF PetEvent, Motion
<1> QED BY <1>2, <1>3, <1>4, <1>5, <1>6, <1>7 DEF Pointer

LEMMA SizeCurrent ==
  ASSUME IInv, ScreenFollowsState, NEW p \in Pets, NEW z \in Sizes, SetSize(p, z)
  PROVE  ScreenFollowsState'
<1>1. CASE redraw \/ pet[p].render.spot \notin BadSpots
  BY <1>1 DEF SetSize, ScreenFollowsState
<1>2. CASE ~redraw /\ pet[p].render.spot \in BadSpots
  <2> DEFINE r == [Cancel(pet[p]) EXCEPT !.render.size = z]
  <2>1. pet[p] \in PetType /\ pet \in [Pets -> PetType] /\ Cancel(pet[p]) \in PetType
    BY PetGood, CancelGood DEF Good, IInv, StateTyped
  <2>2. Cancel(pet[p]).render = pet[p].render
    BY <2>1 DEF Cancel, PetType
  <2>3. r.render.spot \in BadSpots
    BY <1>2, <2>1, <2>2 DEF PetType, ViewType
  <2>4. Alike(Cancel(pet[p]), r)
    BY <2>1 DEF Alike, PetType, ViewType
  <2>5. pet' = [pet EXCEPT ![p] = r]
    BY <1>2, <2>3 DEF SetSize, ApplyProps
  <2>6. Alike(pet[p], r)
    BY <2>1, <2>4, AlikeMotion DEF Alike
  <2>7. \A q \in Pets : Alike(pet[q], pet'[q])
    BY <2>1, <2>5, <2>6 DEF Alike
  <2>8. AllCurrent /\ fullscreen' = fullscreen
    BY <1>2 DEF ScreenFollowsState, AllCurrent, SetSize
  <2>9. AllCurrent'
    BY <2>7, <2>8, AlikeStep
  <2> QED BY <2>9 DEF ScreenFollowsState, AllCurrent
<1> QED BY <1>1, <1>2

LEMMA OutputCurrent ==
  ASSUME IInv, AllCurrent, NEW o \in Outputs, OutputGone(o) \/ NewOutput(o)
  PROVE  AllCurrent'
<1>1. ASSUME NEW p \in Pets PROVE pet[p] \in PetType /\ Good(pet[p])
  BY PetGood DEF Good
<1>2. CASE OutputGone(o)
  <2>1. \A p \in Pets : Alike(pet[p], pet'[p])
    BY <1>1, <1>2, AlikeMotion DEF OutputGone
  <2> QED BY <1>2, <2>1, AlikeStep DEF OutputGone
<1>3. CASE NewOutput(o)
  <2>1. ASSUME NEW p \in Pets, NEW x \in Binding
        PROVE  Rebind(pet[p], x).surf # "ready"
    <3> DEFINE a == ApplyProps(pet[p])
    <3>1. a \in PetType  BY <1>1, ApplyPropsGood DEF Good
    <3> HIDE DEF a
    <3>2. [a EXCEPT !.bound = x, !.screen = "none",
             !.surf = IF pet[p].render.spot \in BadSpots THEN "stuck"
                      ELSE "waiting"].surf # "ready"
      BY <3>1 DEF PetType
    <3> QED BY <3>2 DEF Rebind, a
  <2>2. ASSUME NEW p \in Pets PROVE Current(pet'[p], fullscreen)
    <3>1. pet'[p] = Bound(pet[p], connected \cup {o})
      BY <1>3 DEF NewOutput
    <3>2. CASE Unbound(pet[p], connected \cup {o})
      <4>1. pet[p].render.output \in Binding
        BY <3>2 DEF Unbound, Binding, IInv, StateTyped
      <4> QED BY <2>1, <3>1, <3>2, <4>1 DEF Bound, Current
    <3>3. CASE ~Unbound(pet[p], connected \cup {o})
      BY <3>1, <3>3 DEF Bound, AllCurrent
    <3> QED BY <3>2, <3>3
  <2> QED BY <1>3, <2>2 DEF NewOutput, AllCurrent
<1> QED BY <1>2, <1>3

LEMMA TurnCurrent ==
  ASSUME IInv, ScreenFollowsState, NEW ticked, Iterate(ticked, {})
  PROVE  AllCurrent'
<1> DEFINE steps == ~paused /\ ~ticked
           now(p) == ApplyPosition(IF steps THEN Step(pet[p]) ELSE pet[p])
           placed == [p \in Pets |-> now(p)]
           moving == steps /\ \E p \in Running : placed[p].physics > 0
           draw   == redraw \/ (~paused /\ ticked) \/ moving
<1>1. /\ pet' = IF draw THEN [p \in Pets |-> Present(placed[p], p \in {})]
                ELSE placed
      /\ fullscreen' = fullscreen
  BY DEF Iterate
<1>2. ASSUME NEW p \in Pets
      PROVE  now(p) \in PetType /\ Alike(pet[p], now(p))
  <2>1. Good(now(p))  BY PetGood, StepGood, ApplyPositionGood
  <2>2. Alike(pet[p], now(p))  BY PetGood, AlikeTurn
  <2> QED BY <2>1, <2>2 DEF Good
<1> HIDE DEF now
<1>3. CASE draw
  <2>1. ASSUME NEW p \in Pets PROVE pet'[p] = Present(now(p), FALSE)
    <3>1. pet'[p] = Present(now(p), p \in {})  BY <1>1, <1>3
    <3> QED BY <3>1 DEF Present
  <2> QED BY <1>1, <1>2, <2>1, PresentCurrent DEF AllCurrent
<1>4. CASE ~draw
  <2>1. AllCurrent  BY <1>4 DEF ScreenFollowsState, AllCurrent
  <2>2. \A p \in Pets : Alike(pet[p], pet'[p])  BY <1>1, <1>2, <1>4
  <2> QED BY <1>1, <2>1, <2>2, AlikeStep
<1> QED BY <1>3, <1>4

LEMMA NextCurrent ==
  ASSUME ~Skips, IInv, ScreenFollowsState, [Next]_vars
  PROVE  ScreenFollowsState'
<1>1. (redraw' = TRUE) \/ AllCurrent' => ScreenFollowsState'
  BY DEF ScreenFollowsState, AllCurrent
<1>2. redraw = TRUE \/ AllCurrent
  BY DEF ScreenFollowsState, AllCurrent, IInv, StateTyped
<1>3. ASSUME NEW c \in Configs, Reload(c) PROVE redraw' = TRUE
  BY <1>3, ReloadGood
<1>4. ASSUME Visibility \/ ModeSwitch \/ FullscreenChanged PROVE redraw' = TRUE
  BY <1>4 DEF Visibility, ToggleVisible, TogglePetVisible, ControlSetVisible,
              ModeSwitch, SetMoveMode, SetPetMoveMode, FullscreenChanged, Update
<1>5. ASSUME NEW l \in Layers, SetLayer(l) PROVE redraw' = TRUE
  BY <1>5 DEF SetLayer, Update
<1>6. CASE Placement
  <2>1. ASSUME NEW p \in Pets, NEW s \in Spots, SetPlacement(p, s)
        PROVE  redraw' = TRUE
    BY <2>1 DEF SetPlacement, Update
  <2> QED BY <1>1, <1>6, <2>1, SizeCurrent DEF Placement
<1>7. ASSUME NEW b \in BOOLEAN, SetPaused(b) PROVE ScreenFollowsState'
  <2>1. \A p \in Pets : Alike(pet[p], pet[p]) /\ Alike(pet[p], Cancel(pet[p]))
    BY PetGood, AlikeMotion DEF Good
  <2>2. ASSUME NEW p \in Pets PROVE pet'[p] = pet[p] \/ pet'[p] = Cancel(pet[p])
    BY <1>7 DEF SetPaused, On
  <2>3. \A p \in Pets : Alike(pet[p], pet'[p])
    BY <2>1, <2>2
  <2> QED BY <1>1, <1>2, <1>7, <2>3, AlikeStep DEF SetPaused
<1>8. ASSUME ControlQuit \/ QuitNow \/ ExitTurn \/ UNCHANGED vars
      PROVE  ScreenFollowsState'
  BY <1>8 DEF ControlQuit, QuitNow, ExitTurn, vars, ScreenFollowsState, Current, Wanted
<1>9. CASE Pointer
  <2>1. \A p \in Pets : Alike(pet[p], pet'[p])  BY <1>9, PointerAlike
  <2>2. fullscreen' = fullscreen  BY <1>9, PointerGood
  <2>3. redraw' \in {redraw, TRUE}
    BY <1>9 DEF Pointer, Press, Leave, Move, Release, PointerLost, PetEvent, Motion, React
  <2> QED BY <1>1, <1>2, <2>1, <2>2, <2>3, AlikeStep
<1>10. ASSUME NEW p \in Pets, Closed(p) \/ Configure(p) PROVE redraw' = TRUE
  BY <1>10 DEF Closed, Configure
<1>11. ASSUME NEW o \in Outputs, OutputGone(o) \/ NewOutput(o)
       PROVE  ScreenFollowsState'
  <2>1. redraw = TRUE => redraw' = TRUE
    BY <1>11 DEF OutputGone, NewOutput
  <2> QED BY <1>1, <1>2, <1>11, <2>1, OutputCurrent
<1>12. CASE LoopTurn
  <2>1. PICK ticked \in BOOLEAN : Iterate(ticked, {})
    BY <1>12 DEF LoopTurn
  <2> QED BY <1>1, <2>1, TurnCurrent
<1> QED BY <1>1, <1>3, <1>4, <1>5, <1>6, <1>7, <1>8, <1>9, <1>10, <1>11, <1>12 DEF Next

LEMMA InitCurrent == Init => ScreenFollowsState
<1> SUFFICES ASSUME Init, NEW p \in Pets PROVE pet[p].surf # "ready"
  BY DEF ScreenFollowsState, Current
<1>1. \E c \in Configs : \E failed : Start(c, failed, connected)
  BY DEF Init
<1>2. \A v, o : Fresh(v, o).surf = "waiting"
  BY DEF Fresh
<1>3. Gone.surf = "none"
  BY DEF Gone, Fresh
<1>4. PICK c \in Configs : \E failed : Start(c, failed, connected)
  BY <1>1
<1>5. PICK failed : Start(c, failed, connected)
  BY <1>4
<1> QED BY <1>5, <1>2, <1>3 DEF Start

\* While the compositor gives buffers back in time, every configured surface
\* shows what the pet's visibility, its layer and the fullscreen state ask
\* for, or a redraw is still pending: no order of commands, reloads, output
\* changes and loop turns loses one.
THEOREM ScreenIsCurrent ==
  ASSUME ~Skips
  PROVE  Spec => []ScreenFollowsState
<1>1. IInv /\ ScreenFollowsState /\ [Next]_vars => ScreenFollowsState'
  BY NextCurrent
<1> QED BY <1>1, InitIInv, NextIInv, InitCurrent, PTL DEF Spec
-----------------------------------------------------------------------------
\* What Only returns.  tlapm has no induction over data, so a fact about every
\* sequence is proved from a shortest counterexample: Smallest gives one, and
\* LastOff takes its last element away.

LEMMA Smallest ==
  ASSUME NEW S \in SUBSET Nat, S # {}
  PROVE  \E m \in S : \A j \in S : m <= j
<1> DEFINE R == OpToRel(<, Nat)
<1>1. IsWellFoundedOn(R, Nat)
  BY NatLessThanWellFounded
<1> HIDE DEF R
<1>2. PICK m \in S : \A j \in S : ~(<<j, m>> \in R)
  BY <1>1, WFMin
<1>3. \A j \in S : ~(j < m)
  BY <1>2 DEF OpToRel, R
<1> QED
  BY <1>2, <1>3

\* The function that Only is defined by.
Keeps(f, s, S, n) ==
  f = [i \in 0 .. n |-> IF i = 0 THEN <<>>
                        ELSE IF s[i] \in S THEN Append(f[i - 1], s[i]) ELSE f[i - 1]]

LEMMA KeepsExists ==
  ASSUME NEW s, NEW S, NEW n \in Nat
  PROVE  \E f : Keeps(f, s, S, n)
<1> DEFINE bad == {k \in Nat : ~ \E f : Keeps(f, s, S, k)}
<1>1. SUFFICES ASSUME bad # {}
               PROVE  FALSE
  OBVIOUS
<1>2. PICK m \in bad : \A j \in bad : m <= j
  BY <1>1, Smallest
<1>3. m # 0
  <2> DEFINE f == [i \in 0 .. 0 |-> <<>>]
  <2>1. Keeps(f, s, S, 0)
    BY DEF Keeps
  <2> QED
    BY <1>2, <2>1
<1>4. m \in Nat /\ m - 1 \in Nat /\ m - 1 \notin bad
  BY <1>2, <1>3
<1>5. PICK f : Keeps(f, s, S, m - 1)
  BY <1>4
<1> DEFINE last == IF s[m] \in S THEN Append(f[m - 1], s[m]) ELSE f[m - 1]
           g    == [i \in 0 .. m |-> IF i = m THEN last ELSE f[i]]
<1> HIDE DEF last
<1>6. \A i \in 0 .. m - 1 : f[i] = IF i = 0 THEN <<>>
                                   ELSE IF s[i] \in S THEN Append(f[i - 1], s[i]) ELSE f[i - 1]
  BY <1>5 DEF Keeps
<1>7. /\ DOMAIN g = 0 .. m /\ g[m] = last /\ g = [i \in 0 .. m |-> g[i]]
      /\ \A i \in 0 .. m - 1 : g[i] = f[i]
  BY <1>4
<1> HIDE DEF g
<1>8. ASSUME NEW i \in 0 .. m
      PROVE  g[i] = IF i = 0 THEN <<>>
                    ELSE IF s[i] \in S THEN Append(g[i - 1], s[i]) ELSE g[i - 1]
  <2>1. CASE i = m
    <3>1. m - 1 \in 0 .. m - 1
      BY <1>3, <1>4
    <3>2. g[m - 1] = f[m - 1]
      BY <1>7, <3>1
    <3>3. g[m] = last
      BY <1>7
    <3> QED
      BY <1>3, <2>1, <3>2, <3>3 DEF last
  <2>2. CASE i # m
    <3>1. i \in 0 .. m - 1 /\ (i # 0 => i - 1 \in 0 .. m - 1)
      BY <1>4, <2>2
    <3>2. g[i] = f[i] /\ (i # 0 => g[i - 1] = f[i - 1])
      BY <1>7, <3>1
    <3> QED
      BY <1>6, <3>1, <3>2
  <2> QED
    BY <2>1, <2>2
<1>9. Keeps(g, s, S, m)
  BY <1>7, <1>8 DEF Keeps
<1> QED
  BY <1>2, <1>9

LEMMA OnlyKeeps ==
  ASSUME NEW s, NEW S, Len(s) \in Nat
  PROVE  \E f : Keeps(f, s, S, Len(s)) /\ Only(s, S) = f[Len(s)]
<1> DEFINE F == CHOOSE f :
             f = [i \in 0 .. Len(s) |-> IF i = 0 THEN <<>>
                    ELSE IF s[i] \in S THEN Append(f[i - 1], s[i]) ELSE f[i - 1]]
<1>1. Only(s, S) = F[Len(s)]
  BY DEF Only
<1>2. \E f : f = [i \in 0 .. Len(s) |-> IF i = 0 THEN <<>>
                    ELSE IF s[i] \in S THEN Append(f[i - 1], s[i]) ELSE f[i - 1]]
  <2>1. \E f : Keeps(f, s, S, Len(s))
    BY KeepsExists
  <2> QED
    BY <2>1, Zenon DEF Keeps
<1>3. F = [i \in 0 .. Len(s) |-> IF i = 0 THEN <<>>
             ELSE IF s[i] \in S THEN Append(F[i - 1], s[i]) ELSE F[i - 1]]
  BY <1>2
<1> HIDE DEF F
<1> QED
  BY <1>1, <1>3 DEF Keeps

\* Two of them agree where their sequences do.
LEMMA KeepsAgree ==
  ASSUME NEW s, NEW t, NEW S, NEW n \in Nat, NEW k \in Nat, n <= k,
         \A i \in 1 .. n : s[i] = t[i],
         NEW f, Keeps(f, s, S, n), NEW g, Keeps(g, t, S, k)
  PROVE  f[n] = g[n]
<1> DEFINE bad == {i \in 0 .. n : f[i] # g[i]}
<1>1. SUFFICES ASSUME bad # {}
               PROVE  FALSE
  OBVIOUS
<1>0. bad \subseteq Nat
  OBVIOUS
<1>2. PICK m \in bad : \A j \in bad : m <= j
  BY <1>0, <1>1, Smallest
<1> HIDE DEF bad
<1>7. m \in 0 .. n /\ m \in 0 .. k /\ m \in Nat
  BY <1>2 DEF bad
<1>3. /\ f[m] = IF m = 0 THEN <<>>
                ELSE IF s[m] \in S THEN Append(f[m - 1], s[m]) ELSE f[m - 1]
      /\ g[m] = IF m = 0 THEN <<>>
                ELSE IF t[m] \in S THEN Append(g[m - 1], t[m]) ELSE g[m - 1]
  BY <1>7 DEF Keeps
<1>4. CASE m = 0
  BY <1>2, <1>3, <1>4 DEF bad
<1>5. CASE m # 0
  <2>1. m - 1 \in 0 .. n /\ ~(m <= m - 1) /\ s[m] = t[m]
    BY <1>5, <1>7
  <2>2. f[m - 1] = g[m - 1]
    BY <1>2, <2>1 DEF bad
  <2> QED
    BY <1>2, <1>3, <1>5, <2>1, <2>2 DEF bad
<1> QED
  BY <1>4, <1>5

LEMMA OnlyEmpty ==
  ASSUME NEW S
  PROVE  Only(<<>>, S) = <<>>
<1>1. Len(<<>>) = 0
  OBVIOUS
<1>2. PICK f : Keeps(f, <<>>, S, 0) /\ Only(<<>>, S) = f[0]
  BY <1>1, OnlyKeeps
<1> QED
  BY <1>2 DEF Keeps

LEMMA OnlyAppend ==
  ASSUME NEW T, NEW s \in Seq(T), NEW x \in T, NEW S
  PROVE  Only(Append(s, x), S) = IF x \in S THEN Append(Only(s, S), x) ELSE Only(s, S)
<1> DEFINE t == Append(s, x)
           n == Len(s)
<1>1. /\ n \in Nat /\ Len(t) = n + 1 /\ t[n + 1] = x /\ n <= n + 1
      /\ n + 1 \in Nat /\ (n + 1) - 1 = n /\ n + 1 # 0 /\ n + 1 \in 0 .. n + 1
      /\ \A i \in 1 .. n : s[i] = t[i]
  OBVIOUS
<1>2. PICK f : Keeps(f, s, S, n) /\ Only(s, S) = f[n]
  BY <1>1, OnlyKeeps
<1> HIDE DEF t, n
<1>3. PICK g : Keeps(g, t, S, n + 1) /\ Only(t, S) = g[n + 1]
  BY <1>1, OnlyKeeps
<1>4. f[n] = g[n]
  BY <1>1, <1>2, <1>3, KeepsAgree
<1>5. g[n + 1] = IF t[n + 1] \in S THEN Append(g[(n + 1) - 1], t[n + 1]) ELSE g[(n + 1) - 1]
  BY <1>1, <1>3 DEF Keeps
<1>6. Only(t, S) = IF x \in S THEN Append(Only(s, S), x) ELSE Only(s, S)
  BY <1>1, <1>2, <1>3, <1>4, <1>5
<1> QED
  BY <1>6 DEF t

\* A sequence is empty, or a shorter one with a last element.
LEMMA LastOff ==
  ASSUME NEW T, NEW s \in Seq(T), Len(s) # 0
  PROVE  \E u \in Seq(T), x \in T : s = Append(u, x) /\ Len(u) = Len(s) - 1
<1> DEFINE n == Len(s)
           u == [i \in 1 .. n - 1 |-> s[i]]
           x == s[n]
<1>1. n \in Nat /\ n - 1 \in Nat /\ n \in DOMAIN s /\ x \in T /\ s \in [1 .. n -> T]
  OBVIOUS
<1>2. u \in Seq(T) /\ Len(u) = n - 1 /\ \A i \in 1 .. n - 1 : u[i] = s[i]
  BY <1>1
<1>0. Len(s) = n /\ x = s[n]
  OBVIOUS
<1> HIDE DEF u, n, x
<1>6. (n - 1) + 1 = n
  BY <1>1
<1>3. Append(u, x) \in Seq(T) /\ Len(Append(u, x)) = (n - 1) + 1
  BY <1>1, <1>2
<1>4. ASSUME NEW i \in 1 .. n
      PROVE  Append(u, x)[i] = s[i]
  <2>1. CASE i = n
    <3>1. Append(u, x)[Len(u) + 1] = x
      BY <1>1, <1>2
    <3> QED
      BY <1>0, <1>2, <1>6, <2>1, <3>1
  <2>2. CASE i # n
    <3>1. i \in 1 .. n - 1
      BY <1>1, <2>2
    <3>2. Append(u, x)[i] = u[i]
      BY <1>1, <1>2, <3>1
    <3> QED
      BY <1>2, <3>1, <3>2
  <2> QED
    BY <2>1, <2>2
<1>5. s = Append(u, x)
  BY <1>0, <1>3, <1>4, <1>6, SeqEqual
<1> QED
  BY <1>0, <1>1, <1>2, <1>5

LEMMA AppendSet ==
  ASSUME NEW T, NEW s \in Seq(T), NEW x \in T
  PROVE  /\ Append(s, x) \in Seq(T)
         /\ ToSet(Append(s, x)) = ToSet(s) \cup {x}
         /\ IsInjective(Append(s, x)) <=> IsInjective(s) /\ x \notin ToSet(s)
<1> DEFINE t == Append(s, x)
           n == Len(s)
<1>1. /\ n \in Nat /\ DOMAIN s = 1 .. n /\ DOMAIN t = 1 .. n + 1 /\ t[n + 1] = x
      /\ t \in Seq(T) /\ \A i \in 1 .. n : t[i] = s[i]
  OBVIOUS
<1> HIDE DEF t, n
<1>2. ToSet(t) = ToSet(s) \cup {x}
  <2>1. ASSUME NEW i \in 1 .. n + 1
        PROVE  t[i] \in ToSet(s) \cup {x}
    <3>1. CASE i = n + 1
      BY <1>1, <3>1
    <3>2. CASE i # n + 1
      <4>1. i \in 1 .. n
        BY <1>1, <3>2
      <4> QED
        BY <1>1, <4>1 DEF ToSet
    <3> QED
      BY <3>1, <3>2
  <2>2. ASSUME NEW i \in 1 .. n
        PROVE  s[i] \in ToSet(t)
    <3>1. i \in 1 .. n + 1 /\ t[i] = s[i]
      BY <1>1
    <3> QED
      BY <1>1, <3>1 DEF ToSet
  <2>3. x \in ToSet(t)
    <3>1. n + 1 \in 1 .. n + 1
      BY <1>1
    <3> QED
      BY <1>1, <3>1 DEF ToSet
  <2>4. ToSet(t) \subseteq ToSet(s) \cup {x}
    BY <1>1, <2>1 DEF ToSet
  <2>5. ToSet(s) \subseteq ToSet(t)
    BY <1>1, <2>2 DEF ToSet
  <2> QED
    BY <2>3, <2>4, <2>5
<1>3. ASSUME IsInjective(t)
      PROVE  IsInjective(s) /\ x \notin ToSet(s)
  <2>1. \A i, j \in 1 .. n + 1 : t[i] = t[j] => i = j
    BY <1>1, <1>3 DEF IsInjective
  <2>2. \A i \in 1 .. n : i \in 1 .. n + 1 /\ i # n + 1
    BY <1>1
  <2>3. n + 1 \in 1 .. n + 1
    BY <1>1
  <2>4. IsInjective(s)
    BY <1>1, <2>1, <2>2 DEF IsInjective
  <2>5. ASSUME NEW i \in 1 .. n
        PROVE  s[i] # x
    BY <1>1, <2>1, <2>2, <2>3
  <2> QED
    BY <1>1, <2>4, <2>5 DEF ToSet
<1>4. ASSUME IsInjective(s), x \notin ToSet(s)
      PROVE  IsInjective(t)
  <2>1. \A i \in 1 .. n : s[i] # x
    BY <1>1, <1>4 DEF ToSet
  <2>2. \A i, j \in 1 .. n : s[i] = s[j] => i = j
    BY <1>1, <1>4 DEF IsInjective
  <2>3. ASSUME NEW i \in 1 .. n + 1
        PROVE  i = n + 1 \/ i \in 1 .. n
    BY <1>1
  <2>4. ASSUME NEW i \in 1 .. n + 1, NEW j \in 1 .. n + 1, t[i] = t[j]
        PROVE  i = j
    BY <1>1, <2>1, <2>2, <2>3, <2>4
  <2> QED
    BY <1>1, <2>4 DEF IsInjective
<1> QED
  BY <1>1, <1>2, <1>3, <1>4 DEF t

LEMMA EmptySet ==
  /\ ToSet(<<>>) = {} /\ IsInjective(<<>>)
  /\ \A T : <<>> \in Seq(T)
<1>1. DOMAIN <<>> = {}
  OBVIOUS
<1> QED
  BY <1>1 DEF ToSet, IsInjective

\* What Only returns and preserves.
Filters(s, T, A, B) ==
  /\ Only(s, A) \in Seq(T)
  /\ ToSet(Only(s, A)) = ToSet(s) \cap A
  /\ IsInjective(s) => IsInjective(Only(s, A))
  /\ ToSet(s) \subseteq A => Only(s, A) = s
  /\ ToSet(s) \cap A = ToSet(s) \cap B => Only(s, A) = Only(s, B)
  /\ Only(Only(s, A), B) = Only(s, A \cap B)

LEMMA FiltersStep ==
  ASSUME NEW T, NEW s \in Seq(T), NEW x \in T, NEW A, NEW B, Filters(s, T, A, B)
  PROVE  Filters(Append(s, x), T, A, B)
<1> DEFINE t == Append(s, x)
           o == Only(s, A)
<1> SUFFICES Filters(t, T, A, B)
  OBVIOUS
<1>1. /\ o \in Seq(T) /\ ToSet(o) = ToSet(s) \cap A
      /\ IsInjective(s) => IsInjective(o)
      /\ ToSet(s) \subseteq A => o = s
      /\ ToSet(s) \cap A = ToSet(s) \cap B => o = Only(s, B)
      /\ Only(o, B) = Only(s, A \cap B)
  BY DEF Filters
<1>2. /\ t \in Seq(T) /\ ToSet(t) = ToSet(s) \cup {x}
      /\ IsInjective(t) <=> IsInjective(s) /\ x \notin ToSet(s)
  BY AppendSet
<1>3. /\ Only(t, A) = IF x \in A THEN Append(o, x) ELSE o
      /\ Only(t, B) = IF x \in B THEN Append(Only(s, B), x) ELSE Only(s, B)
      /\ Only(t, A \cap B) = IF x \in A \cap B THEN Append(Only(s, A \cap B), x)
                             ELSE Only(s, A \cap B)
  BY OnlyAppend
<1>4. t = Append(s, x)
  OBVIOUS
<1> HIDE DEF o, t
<1>5. CASE x \in A
  <2>1. Only(t, A) = Append(o, x)
    BY <1>3, <1>5
  <2>2. /\ Append(o, x) \in Seq(T) /\ ToSet(Append(o, x)) = ToSet(o) \cup {x}
        /\ IsInjective(Append(o, x)) <=> IsInjective(o) /\ x \notin ToSet(o)
    BY <1>1, AppendSet
  <2>3. Only(Append(o, x), B) = IF x \in B THEN Append(Only(o, B), x) ELSE Only(o, B)
    BY <1>1, OnlyAppend, ZenonT(30)
  <2>4. ToSet(Only(t, A)) = ToSet(t) \cap A
    BY <1>1, <1>2, <1>5, <2>1, <2>2
  <2>5. IsInjective(t) => IsInjective(Only(t, A))
    BY <1>1, <1>2, <2>1, <2>2
  <2>6. ToSet(t) \subseteq A => Only(t, A) = t
    BY <1>1, <1>2, <1>4, <2>1
  <2>7. ASSUME ToSet(t) \cap A = ToSet(t) \cap B
        PROVE  Only(t, A) = Only(t, B)
    <3>1. x \in B /\ ToSet(s) \cap A = ToSet(s) \cap B
      BY <1>2, <1>5, <2>7
    <3> QED
      BY <1>1, <1>3, <2>1, <3>1
  <2>8. Only(Only(t, A), B) = Only(t, A \cap B)
    BY <1>1, <1>3, <1>5, <2>1, <2>3
  <2> QED
    BY <2>1, <2>2, <2>4, <2>5, <2>6, <2>7, <2>8 DEF Filters
<1>6. CASE x \notin A
  <2>1. Only(t, A) = o
    BY <1>3, <1>6
  <2>4. ToSet(Only(t, A)) = ToSet(t) \cap A
    BY <1>1, <1>2, <1>6, <2>1
  <2>5. IsInjective(t) => IsInjective(Only(t, A))
    BY <1>1, <1>2, <2>1
  <2>6. ToSet(t) \subseteq A => Only(t, A) = t
    BY <1>2, <1>6
  <2>7. ASSUME ToSet(t) \cap A = ToSet(t) \cap B
        PROVE  Only(t, A) = Only(t, B)
    <3>1. x \notin B /\ ToSet(s) \cap A = ToSet(s) \cap B
      BY <1>2, <1>6, <2>7
    <3> QED
      BY <1>1, <1>3, <2>1, <3>1
  <2>8. Only(Only(t, A), B) = Only(t, A \cap B)
    BY <1>1, <1>3, <1>6, <2>1
  <2> QED
    BY <1>1, <2>1, <2>4, <2>5, <2>6, <2>7, <2>8 DEF Filters
<1> QED
  BY <1>5, <1>6

LEMMA OnlyFilters ==
  ASSUME NEW T, NEW s \in Seq(T), NEW A, NEW B
  PROVE  Filters(s, T, A, B)
<1> DEFINE Bad(n) == \E t \in Seq(T) : Len(t) = n /\ ~Filters(t, T, A, B)
           bad == {n \in Nat : Bad(n)}
<1>1. SUFFICES ASSUME bad # {}
               PROVE  FALSE
  <2>1. Len(s) \in Nat
    OBVIOUS
  <2> QED
    BY <2>1
<1>2. PICK m \in bad : \A j \in bad : m <= j
  BY <1>1, Smallest
<1>3. PICK t \in Seq(T) : Len(t) = m /\ ~Filters(t, T, A, B)
  BY <1>2
<1>6. m \in Nat /\ \A k \in Nat : k < m => ~Bad(k)
  BY <1>2
<1> HIDE DEF Bad, bad
<1>4. CASE m = 0
  <2>1. t = <<>>
    BY <1>3, <1>4
  <2>2. Filters(<<>>, T, A, B)
    BY EmptySet, OnlyEmpty DEF Filters
  <2> QED
    BY <1>3, <2>1, <2>2
<1>5. CASE m # 0
  <2>1. PICK u \in Seq(T), x \in T : t = Append(u, x) /\ Len(u) = m - 1
    BY <1>3, <1>5, LastOff
  <2>2. ~Bad(m - 1)
    BY <1>5, <1>6
  <2>3. Filters(u, T, A, B)
    BY <2>1, <2>2 DEF Bad
  <2> QED
    BY <1>3, <2>1, <2>3, FiltersStep
<1> QED
  BY <1>4, <1>5

-----------------------------------------------------------------------------
\* App.pets, the runtime's slots and the tray's rows.  Only a reload and a
\* closed surface change which pets run; every other handler rewrites records
\* so that a pet with a surface keeps one.

Surfaced(r, s) == r.surf = "none" <=> s.surf = "none"

\* The handlers that do not call sync_tray leave a row as it was, too.
Alive(r, s) == Surfaced(r, s) /\ s.mode = r.mode /\ s.visible = r.visible

\* A rewrite that leaves a settled pet where it is.
Placed(r, s) == /\ r.physics = 0 /\ ~r.pending
                /\ s.physics = 0 /\ s.spot = Free
                => r.spot = Free

Calm(r, s) == Alive(r, s) /\ Placed(r, s)

\* Moving a surface to where its view wants it, or to another output.
Steady(r, s) == /\ Alive(r, s) /\ s.render = r.render
                /\ s.physics = r.physics /\ s.pending = r.pending
                /\ s.spot = Free => r.spot = Free

LEMMA SteadyCalm ==
  ASSUME NEW r, NEW s, Steady(r, s)
  PROVE  Calm(r, s)
  BY DEF Steady, Calm, Placed

LEMMA SteadyTwice ==
  ASSUME NEW r, NEW s, NEW t, Steady(r, s), Steady(s, t)
  PROVE  Steady(r, t)
  BY DEF Steady, Alive, Surfaced

LEMMA MotionCalm ==
  ASSUME NEW r \in PetType
  PROVE  /\ Calm(r, r) /\ Calm(r, Cancel(r)) /\ Calm(r, Dropped(r))
         /\ \A far \in BOOLEAN : Calm(r, Dragged(r, far))
         /\ \A f \in Falls : Calm(r, StartPhysics(r, f))
         /\ Calm(r, [r EXCEPT !.bound = DeadOutput])
         /\ Calm(r, [r EXCEPT !.drag = "held", !.physics = NoPhysics, !.spot = Free])
         /\ r.surf \in {"waiting", "ready"} => Calm(r, [r EXCEPT !.surf = "ready"])
         /\ \A x : Calm(r, [r EXCEPT !.screen = x])
<1>1. /\ Calm(r, r) /\ Calm(r, Cancel(r)) /\ Calm(r, Dropped(r))
      /\ Calm(r, [r EXCEPT !.bound = DeadOutput])
  BY FallRange DEF Calm, Alive, Surfaced, Placed, Cancel, Dropped, PetType
<1>2. \A far \in BOOLEAN : Calm(r, Dragged(r, far))
  BY DEF Calm, Alive, Surfaced, Placed, Dragged, PetType
<1>3. ASSUME NEW f \in Falls
      PROVE  Calm(r, StartPhysics(r, f))
  <2>1. f # 0
    BY HostAssumption DEF Falls
  <2> QED
    BY <2>1 DEF Calm, Alive, Surfaced, Placed, StartPhysics, Cancel, PetType
<1>4. Calm(r, [r EXCEPT !.drag = "held", !.physics = NoPhysics, !.spot = Free])
  BY FallRange DEF Calm, Alive, Surfaced, Placed, PetType
<1>5. r.surf \in {"waiting", "ready"} => Calm(r, [r EXCEPT !.surf = "ready"])
  BY DEF Calm, Alive, Surfaced, Placed, PetType
<1>6. \A x : Calm(r, [r EXCEPT !.screen = x])
  BY DEF Calm, Alive, Surfaced, Placed, PetType
<1> QED
  BY <1>1, <1>2, <1>3, <1>4, <1>5, <1>6

LEMMA CommitSteady ==
  ASSUME NEW r \in PetType
  PROVE  Steady(r, Commit(r)) /\ Commit(r) \in PetType /\ Commit(r).spot = r.spot
  BY DEF Steady, Alive, Surfaced, Commit, PetType

LEMMA ApplyPropsSteady ==
  ASSUME NEW r \in PetType
  PROVE  Steady(r, ApplyProps(r)) /\ ApplyProps(r) \in PetType
<1> DEFINE s == [r EXCEPT !.spot = r.render.spot]
<1>1. r.render.spot \in Spots /\ Free \notin Spots
  BY HostAssumption DEF PetType, ViewType
<1>2. s \in PetType /\ Steady(r, s)
  BY <1>1 DEF Steady, Alive, Surfaced, PetType
<1>3. ApplyProps(r) = IF r.render.spot \in BadSpots THEN r ELSE Commit(s)
  BY DEF ApplyProps
<1> HIDE DEF s
<1>4. Commit(s) \in PetType /\ Steady(r, Commit(s))
  BY <1>2, CommitSteady, SteadyTwice
<1>5. Steady(r, r)
  BY DEF Steady, Alive, Surfaced
<1> QED
  BY <1>3, <1>4, <1>5

LEMMA RebindSteady ==
  ASSUME NEW r \in PetType, NEW o \in Binding, r.surf # "none"
  PROVE  Steady(r, Rebind(r, o)) /\ Rebind(r, o) \in PetType
<1> DEFINE a == ApplyProps(r)
           x == IF r.render.spot \in BadSpots THEN "stuck" ELSE "waiting"
           b == [a EXCEPT !.bound = o, !.screen = "none", !.surf = x]
<1>1. Steady(r, a) /\ a \in PetType
  BY ApplyPropsSteady
<1>2. Rebind(r, o) = b
  BY DEF Rebind
<1>3. x \in {"stuck", "waiting"}
  OBVIOUS
<1> HIDE DEF a, x
<1>4. /\ b \in PetType /\ b.surf # "none" /\ b.mode = a.mode /\ b.visible = a.visible
      /\ b.physics = a.physics /\ b.spot = a.spot /\ b.render = a.render
      /\ b.pending = a.pending
  BY <1>1, <1>3 DEF PetType, Binding
<1> HIDE DEF b
<1> QED
  BY <1>1, <1>2, <1>4 DEF Steady, Alive, Surfaced

LEMMA BoundSteady ==
  ASSUME NEW r \in PetType, NEW S \in SUBSET Outputs
  PROVE  Steady(r, Bound(r, S))
<1>1. CASE Unbound(r, S)
  <2>1. r.render.output \in Binding /\ r.surf # "none"
    BY <1>1 DEF Unbound, Binding
  <2> QED
    BY <1>1, <2>1, RebindSteady DEF Bound
<1>2. CASE ~Unbound(r, S)
  BY <1>2 DEF Bound, Steady, Alive, Surfaced
<1> QED
  BY <1>1, <1>2

\* A mode switch and a show or hide, which call sync_tray.
LEMMA SwitchSurfaced ==
  ASSUME NEW r \in PetType, NEW m \in Modes, NEW f \in Falls, NEW v \in BOOLEAN
  PROVE  /\ Surfaced(r, SetMode(r, m, f)) /\ Placed(r, SetMode(r, m, f))
         /\ Surfaced(r, SetVisible(r, v)) /\ Placed(r, SetVisible(r, v))
<1> DEFINE c == Cancel(r)
           s == [c EXCEPT !.mode = m]
<1>1. c \in PetType /\ Calm(r, c) /\ c.physics = NoPhysics
  BY CancelGood, MotionCalm DEF Good, Cancel, PetType
<1> HIDE DEF c
<1>2. /\ s \in PetType /\ Surfaced(r, s) /\ Placed(r, s) /\ s.physics = NoPhysics
      /\ s.surf = c.surf
  BY <1>1, FallRange DEF Calm, Alive, Surfaced, Placed, PetType
<1> HIDE DEF s
<1>3. Calm(s, StartPhysics(s, f)) /\ StartPhysics(s, f).physics = f /\ f # 0
  <2>1. f # 0
    BY HostAssumption DEF Falls
  <2>2. Calm(s, StartPhysics(s, f))
    BY <1>2, MotionCalm
  <2>3. StartPhysics(s, f).physics = f
    BY <1>2 DEF StartPhysics, Cancel, PetType
  <2> QED
    BY <2>1, <2>2, <2>3
<1>4. Surfaced(r, StartPhysics(s, f)) /\ Placed(r, StartPhysics(s, f))
  BY <1>2, <1>3 DEF Calm, Alive, Surfaced, Placed
<1>5. Calm(r, r)
  BY MotionCalm
<1>6. Surfaced(r, SetMode(r, m, f)) /\ Placed(r, SetMode(r, m, f))
  BY <1>2, <1>4, <1>5 DEF SetMode, Calm, Alive, s, c
<1>7. /\ Surfaced(r, [r EXCEPT !.visible = TRUE]) /\ Placed(r, [r EXCEPT !.visible = TRUE])
      /\ Surfaced(r, [c EXCEPT !.visible = FALSE]) /\ Placed(r, [c EXCEPT !.visible = FALSE])
  BY <1>1, FallRange DEF Calm, Alive, Surfaced, Placed, PetType
<1> QED
  BY <1>6, <1>7 DEF SetVisible, c

LEMMA TurnCalm ==
  ASSUME NEW r, Good(r)
  PROVE  /\ Calm(r, ApplyPosition(r)) /\ Calm(r, Step(r)) /\ Calm(r, ApplyPosition(Step(r)))
         /\ \A held : Calm(r, Present(r, held))
<1>1. ASSUME NEW q, q \in PetType PROVE Calm(q, ApplyPosition(q))
  <2> DEFINE s == [q EXCEPT !.pending = FALSE, !.spot = Free]
  <2>1. /\ s \in PetType /\ Alive(q, s) /\ s.surf = q.surf
        /\ q.pending => Placed(q, Commit(s))
    BY <1>1 DEF Alive, Surfaced, Placed, PetType
  <2> HIDE DEF s
  <2>2. Calm(s, Commit(s))
    BY <2>1, CommitSteady, SteadyCalm
  <2>3. q.pending => Calm(q, Commit(s))
    BY <2>1, <2>2 DEF Calm, Alive, Surfaced
  <2>4. Calm(q, q)
    BY <1>1, MotionCalm
  <2> QED
    BY <2>3, <2>4 DEF ApplyPosition, s
<1>2. Calm(r, Step(r)) /\ Step(r) \in PetType
  <2>1. r \in PetType /\ r.physics \in NoPhysics .. MaxFall /\ Step(r) \in PetType
    BY StepGood DEF Good, PetType
  <2>2. CASE r.physics <= 0
    BY <2>1, <2>2, MotionCalm DEF Step
  <2>3. CASE ~(r.physics <= 0)
    <3>1. r.physics # 0
      BY <2>1, <2>3 DEF NoPhysics
    <3>2. Alive(r, Step(r))
      BY <2>1, <2>3 DEF Step, Alive, Surfaced, PetType
    <3> QED
      BY <2>1, <3>1, <3>2 DEF Calm, Placed
  <2> QED
    BY <2>1, <2>2, <2>3
<1>3. Calm(Step(r), ApplyPosition(Step(r)))
  BY <1>1, <1>2
<1>4. Calm(r, ApplyPosition(Step(r)))
  <2>1. CASE r.physics = 0
    <3>1. Step(r) = r
      BY <2>1 DEF Step
    <3> QED
      BY <1>3, <3>1
  <2>2. CASE r.physics # 0
    BY <1>2, <1>3, <2>2 DEF Calm, Alive, Surfaced, Placed
  <2> QED
    BY <2>1, <2>2
<1>5. \A held : Calm(r, Present(r, held))
  BY MotionCalm DEF Present, Good
<1> QED
  BY <1>1, <1>2, <1>4, <1>5 DEF Good

\* Presenting changes neither where a pet is nor what the tray shows of it.
LEMMA PresentCalm ==
  ASSUME NEW r, NEW s \in PetType, Calm(r, s), NEW held
  PROVE  Calm(r, Present(s, held))
  BY DEF Present, Calm, Alive, Surfaced, Placed, PetType
\* A pet that stays through a reload keeps its surface and what the user chose
\* to show, and takes its slot's view and mode.
Renewed(r, s, v) == /\ Surfaced(r, s) /\ Placed(r, s) /\ s.visible = r.visible
                    /\ s.mode = v.mode /\ s.render = v

LEMMA ReapplyRenewed ==
  ASSUME NEW r, Good(r), r.surf # "none", NEW v \in ViewType, connected \subseteq Outputs
  PROVE  Renewed(r, Bound(Reapply(r, v), connected), v)
<1> DEFINE moved == \/ v.spot # r.render.spot \/ v.size # r.render.size
                    \/ v.layer # r.render.layer \/ v.mode # r.mode
           base  == IF moved THEN Cancel(r) ELSE r
           next  == [base EXCEPT !.render = v, !.mode = v.mode]
           props == ApplyProps(next)
           again == Rebind(props, Find(v.output, connected))
<1>1. base \in PetType /\ Calm(r, base)
  BY CancelGood, MotionCalm DEF Good
<1>2. Reapply(r, v) = IF v.output = r.render.output THEN props ELSE again
  BY DEF Reapply
<1> HIDE DEF base
<1>3. /\ next \in PetType /\ Surfaced(r, next) /\ Placed(r, next)
      /\ next.visible = r.visible /\ next.mode = v.mode /\ next.render = v
      /\ next.surf # "none"
  <2> DEFINE view == [base EXCEPT !.render = v]
  <2>1. /\ view \in PetType /\ view.render = v /\ view.surf = base.surf
        /\ view.visible = base.visible /\ view.spot = base.spot
        /\ view.physics = base.physics /\ view.pending = base.pending
    BY <1>1 DEF PetType
  <2>2. v.mode \in Modes
    BY DEF ViewType
  <2>3. next = [view EXCEPT !.mode = v.mode]
    OBVIOUS
  <2> HIDE DEF view, next
  <2>4. /\ next \in PetType /\ next.render = v /\ next.surf = base.surf
        /\ next.visible = base.visible /\ next.spot = base.spot
        /\ next.physics = base.physics /\ next.pending = base.pending
        /\ next.mode = v.mode
    BY <2>1, <2>2, <2>3 DEF PetType
  <2> QED
    BY <1>1, <2>4 DEF Calm, Alive, Surfaced, Placed
<1> HIDE DEF next
<1>4. Steady(next, props) /\ props \in PetType
  BY <1>3, ApplyPropsSteady
<1> HIDE DEF props
<1>5. props.surf # "none"
  BY <1>3, <1>4 DEF Steady, Alive, Surfaced
<1>6. Steady(props, again) /\ again \in PetType
  BY <1>4, <1>5, FindTyped, RebindSteady
<1> HIDE DEF again
<1>7. Reapply(r, v) \in PetType /\ Steady(next, Reapply(r, v))
  BY <1>2, <1>4, <1>6, SteadyTwice
<1>8. Steady(next, Bound(Reapply(r, v), connected))
  BY <1>7, BoundSteady, SteadyTwice
<1> HIDE DEF moved
<1> QED
  BY <1>3, <1>8 DEF Renewed, Steady, Alive, Surfaced, Placed

Sequences == slots \in Seq(Pets) /\ pets \in Seq(Pets) /\ stack \in Seq(Pets)

\* The handlers that leave the tray as it is, and those that call sync_tray.
Quietly  == /\ UNCHANGED <<slots, pets, tray>> /\ stack' \in Seq(Pets)
            /\ \A p \in Pets : Calm(pet[p], pet'[p])
Mirrored == /\ UNCHANGED <<slots, pets, stack>> /\ tray' = TrayOf(pets, pet')
            /\ \A p \in Pets : Surfaced(pet[p], pet'[p]) /\ Placed(pet[p], pet'[p])

LEMMA PetTyped ==
  ASSUME IInv
  PROVE  pet \in [Pets -> PetType] /\ \A p \in Pets : pet[p] \in PetType /\ Good(pet[p])
  BY PetGood DEF IInv, StateTyped, Good

LEMMA RunningInPets == Running \in SUBSET Pets
  BY DEF Running

LEMMA VisibilityMirrored ==
  ASSUME IInv, Visibility
  PROVE  Mirrored
<1>1. /\ pet \in [Pets -> PetType]
      /\ \A p \in Pets : Surfaced(pet[p], pet[p]) /\ Placed(pet[p], pet[p])
      /\ \A p \in Pets : pet[p].visible \in BOOLEAN
  BY PetTyped DEF Surfaced, Placed, PetType
<1>2. \A p \in Pets, v \in BOOLEAN : /\ Surfaced(pet[p], SetVisible(pet[p], v))
                                     /\ Placed(pet[p], SetVisible(pet[p], v))
  <2>1. ASSUME NEW p \in Pets, NEW v \in BOOLEAN
        PROVE  /\ Surfaced(pet[p], SetVisible(pet[p], v))
               /\ Placed(pet[p], SetVisible(pet[p], v))
    <3>1. pet[p] \in PetType /\ pet[p].mode \in Modes /\ 1 \in Falls
      BY PetTyped, HostAssumption DEF PetType, Falls
    <3> QED
      BY <3>1, SwitchSurfaced
  <2> QED
    BY <2>1
<1>3. UNCHANGED <<slots, pets, stack>> /\ tray' = TrayOf(pets, pet')
  BY DEF Visibility, ToggleVisible, TogglePetVisible, ControlSetVisible, Update
<1>4. ASSUME NEW S, NEW v \in BOOLEAN, pet' = On(S, LAMBDA r : SetVisible(r, v))
      PROVE  Mirrored
  BY <1>1, <1>2, <1>3, <1>4 DEF On, Mirrored
<1>5. CASE ToggleVisible
  <2> DEFINE show == \A p \in Running : ~pet[p].visible
  <2>1. show \in BOOLEAN /\ pet' = On(Running, LAMBDA r : SetVisible(r, show))
    BY <1>5 DEF ToggleVisible, Update
  <2> HIDE DEF show
  <2> QED
    BY <1>1, <1>2, <1>3, <2>1 DEF On, Mirrored
<1>6. ASSUME NEW p \in Pets, TogglePetVisible(p)
      PROVE  Mirrored
  <2>1. pet' = [pet EXCEPT ![p] = SetVisible(pet[p], ~pet[p].visible)]
    BY <1>6 DEF TogglePetVisible, Update
  <2>2. pet[p].visible \in BOOLEAN
    BY <1>1
  <2> QED
    BY <1>1, <1>2, <1>3, <2>1, <2>2 DEF Mirrored
<1>7. ASSUME NEW S \in SUBSET Pets, NEW v \in BOOLEAN, ControlSetVisible(S, v)
      PROVE  Mirrored
  BY <1>4, <1>7 DEF ControlSetVisible, Update
<1> QED
  BY <1>5, <1>6, <1>7 DEF Visibility

LEMMA ModeSwitchMirrored ==
  ASSUME IInv, ModeSwitch
  PROVE  Mirrored
<1>1. /\ pet \in [Pets -> PetType]
      /\ \A p \in Pets : Surfaced(pet[p], pet[p]) /\ Placed(pet[p], pet[p])
  BY PetTyped DEF Surfaced, Placed, PetType
<1>2. \A p \in Pets, m \in Modes, f \in Falls :
        Surfaced(pet[p], SetMode(pet[p], m, f)) /\ Placed(pet[p], SetMode(pet[p], m, f))
  BY PetTyped, SwitchSurfaced
<1>3. UNCHANGED <<slots, pets, stack>> /\ tray' = TrayOf(pets, pet')
  BY DEF ModeSwitch, SetMoveMode, SetPetMoveMode, Update
<1>4. ASSUME NEW m \in Modes, NEW f \in Falls, SetMoveMode(m, f)
      PROVE  Mirrored
  BY <1>1, <1>2, <1>3, <1>4 DEF SetMoveMode, Update, On, Mirrored
<1>5. ASSUME NEW p \in Pets, NEW m \in Modes, NEW f \in Falls, SetPetMoveMode(p, m, f)
      PROVE  Mirrored
  <2>1. pet' = [pet EXCEPT ![p] = SetMode(pet[p], m, f)]
    BY <1>5 DEF SetPetMoveMode, Update
  <2> QED
    BY <1>1, <1>2, <1>3, <2>1 DEF Mirrored
<1> QED
  BY <1>4, <1>5 DEF ModeSwitch

LEMMA LayerMirrored ==
  ASSUME IInv, NEW l \in Layers, SetLayer(l)
  PROVE  Mirrored
<1>1. /\ pet \in [Pets -> PetType]
      /\ \A p \in Pets : Surfaced(pet[p], pet[p]) /\ Placed(pet[p], pet[p])
  BY PetTyped DEF Surfaced, Placed, PetType
<1>2. ASSUME NEW p \in Pets
      PROVE  /\ Surfaced(pet[p], ApplyProps([pet[p] EXCEPT !.render.layer = l]))
             /\ Placed(pet[p], ApplyProps([pet[p] EXCEPT !.render.layer = l]))
  <2> DEFINE r == [pet[p] EXCEPT !.render.layer = l]
             v == [pet[p].render EXCEPT !.layer = l]
  <2>1. pet[p] \in PetType /\ v \in ViewType /\ r = [pet[p] EXCEPT !.render = v]
    BY PetTyped, ZenonT(30) DEF PetType, ViewType
  <2> HIDE DEF v, r
  <2>2. /\ r \in PetType /\ r.surf = pet[p].surf /\ r.physics = pet[p].physics
        /\ r.pending = pet[p].pending /\ r.spot = pet[p].spot
    BY <2>1 DEF PetType
  <2>3. Steady(r, ApplyProps(r))
    BY <2>2, ApplyPropsSteady
  <2>4. Surfaced(pet[p], ApplyProps(r)) /\ Placed(pet[p], ApplyProps(r))
    BY <2>2, <2>3 DEF Steady, Alive, Surfaced, Placed
  <2> QED
    BY <2>4 DEF r
<1>3. UNCHANGED <<slots, pets, stack>> /\ tray' = TrayOf(pets, pet')
  BY DEF SetLayer, Update
<1> QED
  BY <1>1, <1>2, <1>3 DEF SetLayer, Update, On, Mirrored

\* A placement or a size put on a pet that was taken out of any motion.
LEMMA PutCalm ==
  ASSUME NEW r \in PetType, NEW v \in ViewType
  PROVE  Calm(r, ApplyProps([Cancel(r) EXCEPT !.render = v]))
<1> DEFINE c == Cancel(r)
           s == [c EXCEPT !.render = v]
<1>1. c \in PetType /\ Calm(r, c) /\ c.physics = NoPhysics
  BY CancelGood, MotionCalm DEF Good, Cancel, PetType
<1> HIDE DEF c
<1>2. s \in PetType /\ Calm(r, s) /\ s.physics = NoPhysics
  BY <1>1, FallRange DEF Calm, Alive, Surfaced, Placed, PetType
<1> HIDE DEF s
<1>3. Steady(s, ApplyProps(s))
  BY <1>2, ApplyPropsSteady
<1>4. Calm(r, ApplyProps(s))
  BY <1>2, <1>3, FallRange DEF Steady, Calm, Alive, Surfaced, Placed
<1> QED
  BY <1>4 DEF s, c

LEMMA PlacementMirrored ==
  ASSUME IInv, NEW p \in Pets, NEW s \in Spots, SetPlacement(p, s)
  PROVE  Mirrored
<1> DEFINE c == Cancel(pet[p])
           v == [c.render EXCEPT !.spot = s]
<1>1. /\ pet \in [Pets -> PetType]
      /\ \A q \in Pets : Surfaced(pet[q], pet[q]) /\ Placed(pet[q], pet[q])
  BY PetTyped DEF Surfaced, Placed, PetType
<1>2. c \in PetType
  BY PetTyped, CancelGood DEF Good
<1>3. pet' = [pet EXCEPT ![p] = ApplyProps([c EXCEPT !.render.spot = s])]
  BY DEF SetPlacement, Update
<1>4. v \in ViewType /\ [c EXCEPT !.render.spot = s] = [c EXCEPT !.render = v]
  BY <1>2 DEF PetType, ViewType
<1> HIDE DEF v
<1>5. Calm(pet[p], ApplyProps([c EXCEPT !.render = v]))
  BY <1>4, PetTyped, PutCalm
<1> HIDE DEF c
<1> QED
  BY <1>1, <1>3, <1>4, <1>5 DEF SetPlacement, Update, Mirrored, Calm, Alive

LEMMA SizeQuiet ==
  ASSUME IInv, Sequences, NEW p \in Pets, NEW z \in Sizes, SetSize(p, z)
  PROVE  Quietly
<1> DEFINE c == Cancel(pet[p])
           v == [c.render EXCEPT !.size = z]
<1>1. pet \in [Pets -> PetType] /\ \A q \in Pets : Calm(pet[q], pet[q])
  BY PetTyped, MotionCalm
<1>2. c \in PetType
  BY PetTyped, CancelGood DEF Good
<1>3. pet' = [pet EXCEPT ![p] = ApplyProps([c EXCEPT !.render.size = z])]
  BY DEF SetSize
<1>4. v \in ViewType /\ [c EXCEPT !.render.size = z] = [c EXCEPT !.render = v]
  BY <1>2 DEF PetType, ViewType
<1> HIDE DEF v
<1>5. Calm(pet[p], ApplyProps([c EXCEPT !.render = v]))
  BY <1>4, PetTyped, PutCalm
<1> HIDE DEF c
<1> QED
  BY <1>1, <1>3, <1>4, <1>5 DEF SetSize, Sequences, Quietly

LEMMA PointerQuiet ==
  ASSUME IInv, Sequences, Pointer
  PROVE  Quietly
<1>1. pet \in [Pets -> PetType] /\ \A q \in Pets : pet[q] \in PetType /\ Calm(pet[q], pet[q])
  BY PetTyped, MotionCalm
<1>2. UNCHANGED <<slots, pets, tray, stack>>
  BY DEF Pointer, Press, Leave, Move, Release, PointerLost, PetEvent, Motion
<1>3. SUFFICES ASSUME NEW p \in Pets
               PROVE  Calm(pet[p], pet'[p])
  BY <1>2 DEF Quietly, Sequences
<1>4. /\ Calm(pet[p], Dropped(pet[p]))
      /\ \A far \in BOOLEAN : Calm(pet[p], Dragged(pet[p], far))
      /\ \A f \in Falls : Calm(pet[p], StartPhysics(pet[p], f))
      /\ Calm(pet[p], [pet[p] EXCEPT !.drag = "held", !.physics = NoPhysics, !.spot = Free])
  BY <1>1, MotionCalm
<1>5. ASSUME NEW q \in Pets, Press(q) PROVE Calm(pet[p], pet'[p])
  BY <1>1, <1>4, <1>5 DEF Press, Motion
<1>6. ASSUME NEW q \in Pets, Leave(q) PROVE Calm(pet[p], pet'[p])
  BY <1>1, <1>4, <1>6 DEF Leave, Motion
<1>7. ASSUME NEW q \in Pets, NEW far \in BOOLEAN, Move(q, far)
      PROVE  Calm(pet[p], pet'[p])
  BY <1>1, <1>4, <1>7 DEF Move, Motion
<1>8. ASSUME NEW q \in Pets, NEW f \in Falls, Release(q, f)
      PROVE  Calm(pet[p], pet'[p])
  BY <1>1, <1>4, <1>8 DEF Release, Motion
<1>9. CASE PointerLost
  BY <1>1, <1>4, <1>9 DEF PointerLost, Motion, On
<1>10. CASE PetEvent
  BY <1>1, <1>10 DEF PetEvent, Motion
<1> QED
  BY <1>5, <1>6, <1>7, <1>8, <1>9, <1>10 DEF Pointer

LEMMA TurnQuiet ==
  ASSUME IInv, Sequences, NEW ticked, NEW held, Iterate(ticked, held)
  PROVE  Quietly
<1> DEFINE steps == ~paused /\ ~ticked
           now(p) == ApplyPosition(IF steps THEN Step(pet[p]) ELSE pet[p])
           placed == [p \in Pets |-> now(p)]
           draw   == redraw \/ (~paused /\ ticked)
                     \/ (steps /\ \E p \in Running : placed[p].physics > 0)
<1>1. /\ pet' = IF draw THEN [p \in Pets |-> Present(placed[p], p \in held)] ELSE placed
      /\ UNCHANGED <<slots, pets, tray, stack>>
  BY DEF Iterate
<1>2. ASSUME NEW p \in Pets
      PROVE  now(p) \in PetType /\ Calm(pet[p], now(p))
  <2>1. Good(pet[p]) /\ Good(Step(pet[p]))
    BY PetTyped, StepGood
  <2>2. Good(now(p))
    BY <2>1, ApplyPositionGood
  <2>3. Calm(pet[p], now(p))
    BY <2>1, TurnCalm
  <2> QED
    BY <2>2, <2>3 DEF Good
<1> HIDE DEF now, draw
<1>3. \A p \in Pets : Calm(pet[p], Present(now(p), p \in held))
  BY <1>2, PresentCalm
<1>4. \A p \in Pets : pet'[p] = Present(now(p), p \in held) \/ pet'[p] = now(p)
  BY <1>1
<1> QED
  BY <1>1, <1>2, <1>3, <1>4 DEF Quietly, Sequences

LEMMA OnlyTyped ==
  ASSUME NEW T, NEW s \in Seq(T), NEW A
  PROVE  /\ Only(s, A) \in Seq(T) /\ Without(s, A) \in Seq(T)
         /\ ToSet(Only(s, A)) = ToSet(s) \cap A
         /\ ToSet(Without(s, A)) = ToSet(s) \ A
         /\ IsInjective(s) => IsInjective(Only(s, A)) /\ IsInjective(Without(s, A))
<1>1. Filters(s, T, A, A) /\ Filters(s, T, ToSet(s) \ A, A)
  BY OnlyFilters
<1> QED
  BY <1>1 DEF Filters, Without

LEMMA SetTyped ==
  ASSUME NEW T, NEW s \in Seq(T)
  PROVE  ToSet(s) \subseteq T
  BY DEF ToSet

LEMMA OutputQuiet ==
  ASSUME IInv, Sequences, NEW o \in Outputs, OutputGone(o) \/ NewOutput(o)
  PROVE  Quietly
<1>1. /\ pet \in [Pets -> PetType] /\ connected \subseteq Outputs
      /\ \A q \in Pets : /\ pet[q] \in PetType /\ Calm(pet[q], pet[q])
                         /\ Calm(pet[q], [pet[q] EXCEPT !.bound = DeadOutput])
  BY PetTyped, MotionCalm DEF IInv, StateTyped
<1>2. CASE OutputGone(o)
  BY <1>1, <1>2 DEF OutputGone, Quietly, Sequences
<1>3. CASE NewOutput(o)
  <2> DEFINE now    == connected \cup {o}
             rebind == {p \in Running : Unbound(pet[p], now)}
  <2>1. /\ UNCHANGED <<slots, pets, tray>>
        /\ pet' = [p \in Pets |-> Bound(pet[p], now)]
        /\ stack' = Without(stack, rebind) \o Only(pets, rebind)
    BY <1>3 DEF NewOutput
  <2>2. \A p \in Pets : Calm(pet[p], Bound(pet[p], now))
    BY <1>1, BoundSteady, SteadyCalm
  <2> HIDE DEF rebind
  <2>3. stack' \in Seq(Pets)
    BY <2>1, OnlyTyped DEF Sequences
  <2> QED
    BY <2>1, <2>2, <2>3 DEF Quietly
<1> QED
  BY <1>2, <1>3

\* Every step is one of the two kinds, a reload or a closed surface.
LEMMA NextKinds ==
  ASSUME IInv, Sequences, [Next]_vars
  PROVE  \/ Quietly \/ Mirrored
         \/ \E c \in Configs : Reload(c)
         \/ \E p \in Pets : Closed(p)
<1>1. pet \in [Pets -> PetType] /\ \A q \in Pets : pet[q] \in PetType /\ Calm(pet[q], pet[q])
  BY PetTyped, MotionCalm
<1>2. ASSUME UNCHANGED <<slots, pets, tray, stack, pet>>
      PROVE  Quietly
  BY <1>1, <1>2 DEF Quietly, Sequences
<1>3. CASE Visibility
  BY <1>3, VisibilityMirrored
<1>4. CASE ModeSwitch
  BY <1>4, ModeSwitchMirrored
<1>5. ASSUME NEW l \in Layers, SetLayer(l) PROVE Mirrored
  BY <1>5, LayerMirrored
<1>6. CASE Placement
  BY <1>6, PlacementMirrored, SizeQuiet DEF Placement
<1>7. ASSUME NEW b \in BOOLEAN, SetPaused(b) PROVE Quietly
  <2>1. \A p \in Pets : Calm(pet[p], Cancel(pet[p]))
    BY <1>1, MotionCalm
  <2> QED
    BY <1>1, <1>7, <2>1 DEF SetPaused, On, Quietly, Sequences
<1>8. ASSUME ControlQuit \/ QuitNow \/ ExitTurn \/ FullscreenChanged \/ UNCHANGED vars
      PROVE  Quietly
  BY <1>2, <1>8 DEF ControlQuit, QuitNow, ExitTurn, FullscreenChanged, vars
<1>9. CASE Pointer
  BY <1>9, PointerQuiet
<1>10. ASSUME NEW p \in Pets, Configure(p) PROVE Quietly
  <2>1. Calm(pet[p], [pet[p] EXCEPT !.surf = "ready"])
    BY <1>1, <1>10, MotionCalm DEF Configure
  <2> QED
    BY <1>1, <1>10, <2>1 DEF Configure, Quietly, Sequences
<1>11. ASSUME NEW o \in Outputs, OutputGone(o) \/ NewOutput(o) PROVE Quietly
  BY <1>11, OutputQuiet
<1>12. CASE LoopTurn
  BY <1>12, TurnQuiet DEF LoopTurn
<1> QED
  BY <1>3, <1>4, <1>5, <1>6, <1>7, <1>8, <1>9, <1>10, <1>11, <1>12 DEF Next

-----------------------------------------------------------------------------
\* The order of App.pets.  PetsFollowSlots alone is not inductive: a reload
\* sorts by slots, so a pet may run only while it is loaded, and a slot may
\* occur only once.
Ordered == Sequences /\ IsInjective(slots) /\ Running \subseteq Loaded /\ PetsFollowSlots

LEMMA RunningPets ==
  ASSUME Ordered
  PROVE  ToSet(pets) = Running
<1>1. slots \in Seq(Pets) /\ pets = Only(slots, Running) /\ Running \subseteq ToSet(slots)
  BY DEF Ordered, Sequences, PetsFollowSlots, Loaded
<1>2. ToSet(Only(slots, Running)) = ToSet(slots) \cap Running
  BY <1>1, OnlyTyped
<1>3. ToSet(pets) = ToSet(slots) \cap Running
  BY <1>1, <1>2
<1> QED
  BY <1>1, <1>3

\* Two sequences without duplicates that hold the same single element, or none.
LEMMA ShortSame ==
  ASSUME NEW T, NEW q \in Seq(T), NEW r \in Seq(T), ToSet(q) = ToSet(r),
         IsInjective(q), ~(Len(r) > 1)
  PROVE  q = r
<1>1. /\ Len(q) \in Nat /\ Len(r) \in Nat /\ DOMAIN q = 1 .. Len(q) /\ DOMAIN r = 1 .. Len(r)
  OBVIOUS
<1>2. \A i \in 1 .. Len(q) : q[i] \in ToSet(r)
  BY <1>1 DEF ToSet
<1>3. \A i \in 1 .. Len(q) : \E j \in 1 .. Len(r) : q[i] = r[j]
  BY <1>1, <1>2 DEF ToSet
<1>4. \A j \in 1 .. Len(r) : \E i \in 1 .. Len(q) : q[i] = r[j]
  <2>1. \A j \in 1 .. Len(r) : r[j] \in ToSet(q)
    BY <1>1 DEF ToSet
  <2> QED
    BY <1>1, <2>1 DEF ToSet
<1>5. \A i, j \in 1 .. Len(r) : i = j
  BY <1>1
<1>6. \A i, j \in 1 .. Len(q) : i = j
  BY <1>1, <1>3, <1>5 DEF IsInjective
<1>7. Len(q) <= 1
  <2>1. ASSUME Len(q) > 1
        PROVE  1 \in 1 .. Len(q) /\ 2 \in 1 .. Len(q)
    BY <1>1, <2>1
  <2> QED
    BY <1>1, <1>6, <2>1
<1>8. Len(q) = Len(r)
  <2>1. Len(q) >= 1 => Len(r) >= 1
    <3>1. ASSUME Len(q) >= 1
          PROVE  1 \in 1 .. Len(q)
      BY <1>1, <3>1
    <3>2. ASSUME NEW j \in 1 .. Len(r)
          PROVE  Len(r) >= 1
      BY <1>1
    <3> QED
      BY <1>3, <3>1, <3>2
  <2>2. Len(r) >= 1 => Len(q) >= 1
    <3>1. ASSUME Len(r) >= 1
          PROVE  1 \in 1 .. Len(r)
      BY <1>1, <3>1
    <3>2. ASSUME NEW j \in 1 .. Len(q)
          PROVE  Len(q) >= 1
      BY <1>1
    <3> QED
      BY <1>4, <3>1, <3>2
  <2>3. \A m, n \in Nat : m <= 1 /\ ~(n > 1) /\ (m >= 1 => n >= 1) /\ (n >= 1 => m >= 1)
                         => m = n
    OBVIOUS
  <2>4. Len(q) \in Nat /\ Len(r) \in Nat /\ ~(Len(r) > 1)
    BY <1>1
  <2> QED
    BY <1>7, <2>1, <2>2, <2>3, <2>4, Zenon
<1>9. \A i \in 1 .. Len(q) : q[i] = r[i]
  BY <1>1, <1>3, <1>5, <1>8
<1> QED
  BY <1>8, <1>9, SeqEqual

KeptBy(c, failed)    == Running \cap ToSet(ApplySlots(c, failed))
CreatedBy(c, failed) == Creatable(ApplySlots(c, failed), ApplyViews(c, failed)) \ Running

LEMMA ConfigSlots ==
  ASSUME NEW c \in Configs, NEW failed
  PROVE  /\ ApplySlots(c, failed) \in Seq(Pets) /\ IsInjective(ApplySlots(c, failed))
         /\ ToSet(ApplySlots(c, failed)) = ToSet(c.order) \ (failed \ Loaded)
<1>1. c.order \in Seq(Pets) /\ IsInjective(c.order)
  BY HostAssumption
<1> QED
  BY <1>1, OnlyTyped DEF ApplySlots

\* What a reload makes of each pet.
LEMMA ReloadPets ==
  ASSUME IInv, NEW c \in Configs, NEW failed, ApplyConfig(c, failed)
  PROVE  /\ \A p \in CreatedBy(c, failed) :
              \E o : pet'[p] = Fresh(slotView'[p], o)
         /\ \A p \in KeptBy(c, failed) : Renewed(pet[p], pet'[p], slotView'[p])
         /\ \A p \in Pets \ (CreatedBy(c, failed) \cup KeptBy(c, failed)) : pet'[p] = Gone
         /\ KeptBy(c, failed) \cup CreatedBy(c, failed) \subseteq ToSet(slots')
         /\ Running' = KeptBy(c, failed) \cup CreatedBy(c, failed)
<1> DEFINE v       == ApplyViews(c, failed)
           kept    == KeptBy(c, failed)
           created == CreatedBy(c, failed)
<1>1. /\ slotView' = v /\ slots' = ApplySlots(c, failed)
      /\ pet' = [p \in Pets |->
                   IF p \in created THEN Fresh(v[p], Find(v[p].output, connected))
                   ELSE IF p \in kept THEN Bound(Reapply(pet[p], v[p]), connected)
                   ELSE Gone]
  BY DEF ApplyConfig, KeptBy, CreatedBy
<1>2. v \in [Pets -> ViewType] /\ connected \subseteq Outputs
  BY ConfigViews, DefaultTyped DEF ApplyViews, IInv, StateTyped
<1>3. /\ kept \cup created \subseteq ToSet(ApplySlots(c, failed)) /\ kept \subseteq Running
      /\ created \cap Running = {} /\ kept \subseteq Pets /\ created \subseteq Pets
  <2>1. ToSet(ApplySlots(c, failed)) \subseteq Pets
    BY ConfigSlots, SetTyped
  <2>2. /\ kept = Running \cap ToSet(ApplySlots(c, failed))
        /\ created \subseteq ToSet(ApplySlots(c, failed)) /\ created \cap Running = {}
    BY DEF KeptBy, CreatedBy, Creatable
  <2> HIDE DEF kept, created
  <2> QED
    BY <2>1, <2>2
<1> HIDE DEF v, kept, created
<1>4. ASSUME NEW p \in created
      PROVE  pet'[p] = Fresh(v[p], Find(v[p].output, connected)) /\ pet'[p].surf # "none"
  <2>1. pet'[p] = Fresh(v[p], Find(v[p].output, connected))
    BY <1>1, <1>3
  <2>2. \A w, o : Fresh(w, o).surf = "waiting"
    BY DEF Fresh
  <2> QED
    BY <2>1, <2>2
<1>5. ASSUME NEW p \in kept
      PROVE  Renewed(pet[p], pet'[p], v[p]) /\ pet'[p].surf # "none"
  <2>1. p \in Pets /\ p \notin created /\ pet[p].surf # "none" /\ Good(pet[p]) /\ v[p] \in ViewType
    BY <1>2, <1>3, PetTyped DEF Running
  <2>2. pet'[p] = Bound(Reapply(pet[p], v[p]), connected)
    BY <1>1, <2>1
  <2>3. Renewed(pet[p], pet'[p], v[p])
    BY <1>2, <2>1, <2>2, ReapplyRenewed
  <2> QED
    BY <2>1, <2>3 DEF Renewed, Surfaced
<1>6. ASSUME NEW p \in Pets \ (created \cup kept)
      PROVE  pet'[p] = Gone /\ pet'[p].surf = "none"
  <2>1. pet'[p] = Gone
    BY <1>1
  <2>2. Gone.surf = "none"
    BY DEF Gone, Fresh
  <2> QED
    BY <2>1, <2>2
<1>7. Running' = kept \cup created
  BY <1>3, <1>4, <1>5, <1>6 DEF Running
<1> QED
  BY <1>1, <1>3, <1>4, <1>5, <1>6, <1>7 DEF v, kept, created

LEMMA AppendTyped ==
  ASSUME NEW T, NEW q \in Seq(T), NEW r \in Seq(T)
  PROVE  q \o r \in Seq(T)
  OBVIOUS

LEMMA ReloadOrdered ==
  ASSUME IInv, Ordered, NEW c \in Configs, Reload(c)
  PROVE  Ordered'
<1>1. PICK failed : ApplyConfig(c, failed)
  BY DEF Reload
<1> DEFINE s       == ApplySlots(c, failed)
           kept    == KeptBy(c, failed)
           created == CreatedBy(c, failed)
           short   == Only(pets, kept)
           rebound == {p \in kept :
                         \/ ApplyViews(c, failed)[p].output # pet[p].render.output
                         \/ Unbound(Reapply(pet[p], ApplyViews(c, failed)[p]), connected)}
<1>2. /\ slots' = s
      /\ pets' = SyncOrder(s, short, created)
      /\ stack' = Only(stack, kept \ rebound) \o Only(s, created) \o Only(s, rebound)
  BY <1>1 DEF ApplyConfig, KeptBy, CreatedBy
<1>3. s \in Seq(Pets) /\ IsInjective(s)
  BY ConfigSlots
<1>4. Running' = kept \cup created /\ kept \cup created \subseteq ToSet(slots')
  BY <1>1, ReloadPets
<1>5. ToSet(pets) = Running /\ Sequences
  BY RunningPets DEF Ordered
<1>6. kept \subseteq Running /\ kept \subseteq ToSet(s)
  BY DEF KeptBy
<1> HIDE DEF s, kept, created, rebound
<1>7. short \in Seq(Pets) /\ ToSet(short) = kept
  <2>1. pets \in Seq(Pets)
    BY <1>5 DEF Sequences
  <2>2. Only(pets, kept) \in Seq(Pets) /\ ToSet(Only(pets, kept)) = ToSet(pets) \cap kept
    BY <2>1, OnlyTyped
  <2>3. ToSet(pets) \cap kept = kept
    BY <1>5, <1>6
  <2> QED
    BY <2>2, <2>3
<1> HIDE DEF short
<1>8. SyncOrder(s, short, created) = Only(s, kept \cup created)
  <2>1. CASE created # {} \/ Len(short) > 1
    BY <1>7, <2>1 DEF SyncOrder
  <2>2. CASE created = {} /\ ~(Len(short) > 1)
    <3>1. /\ Only(s, kept) \in Seq(Pets) /\ IsInjective(Only(s, kept))
          /\ ToSet(Only(s, kept)) = ToSet(short)
      <4>1. /\ Only(s, kept) \in Seq(Pets) /\ IsInjective(Only(s, kept))
            /\ ToSet(Only(s, kept)) = ToSet(s) \cap kept
        BY <1>3, OnlyTyped
      <4>2. ToSet(s) \cap kept = kept
        BY <1>6
      <4> QED
        BY <1>7, <4>1, <4>2
    <3>2. Only(s, kept) = short
      BY <1>7, <2>2, <3>1, ShortSame
    <3>3. SyncOrder(s, short, created) = short /\ kept \cup created = kept
      BY <2>2 DEF SyncOrder
    <3> QED
      BY <3>2, <3>3
  <2> QED
    BY <2>1, <2>2
<1>9. Only(s, kept \cup created) \in Seq(Pets)
  BY <1>3, OnlyTyped
<1>10. stack' \in Seq(Pets)
  <2>1. /\ Only(stack, kept \ rebound) \in Seq(Pets)
        /\ Only(s, created) \in Seq(Pets) /\ Only(s, rebound) \in Seq(Pets)
    BY <1>3, <1>5, OnlyTyped DEF Sequences
  <2>2. Only(stack, kept \ rebound) \o Only(s, created) \in Seq(Pets)
    BY <2>1, AppendTyped
  <2> QED
    BY <1>2, <2>1, <2>2, AppendTyped
<1>11. pets' = Only(slots', Running')
  BY <1>2, <1>4, <1>8
<1> QED
  BY <1>2, <1>3, <1>4, <1>8, <1>9, <1>10, <1>11
     DEF Ordered, Sequences, PetsFollowSlots, Loaded

\* Filtering what was filtered, and filtering by sets that agree on s.
LEMMA OnlyTwice ==
  ASSUME NEW T, NEW s \in Seq(T), NEW A, NEW B
  PROVE  /\ Only(Only(s, A), B) = Only(s, A \cap B)
         /\ ToSet(s) \cap A = ToSet(s) \cap B => Only(s, A) = Only(s, B)
         /\ ToSet(s) \subseteq A => Only(s, A) = s
<1>1. Filters(s, T, A, B)
  BY OnlyFilters
<1> QED
  BY <1>1 DEF Filters

LEMMA ClosedOrdered ==
  ASSUME IInv, Ordered, NEW p \in Pets, Closed(p)
  PROVE  /\ Ordered' /\ Running' = Running \ {p} /\ pets' = Only(pets, Running')
<1>1. /\ UNCHANGED <<slots, tray>> /\ pets' = Without(pets, {p}) /\ stack' = Without(stack, {p})
      /\ pet' = [pet EXCEPT ![p] = Gone] /\ pet \in [Pets -> PetType]
  BY PetTyped DEF Closed
<1>2. Running' = Running \ {p}
  <2>1. Gone.surf = "none"
    BY DEF Gone, Fresh
  <2>2. pet'[p] = Gone /\ \A q \in Pets : q # p => pet'[q] = pet[q]
    BY <1>1
  <2> QED
    BY <2>1, <2>2 DEF Running
<1>3. ToSet(pets) = Running /\ Sequences
  BY RunningPets DEF Ordered
<1>4. pets' = Only(pets, Running')
  BY <1>1, <1>2, <1>3 DEF Without
<1>5. pets = Only(slots, Running) /\ slots \in Seq(Pets)
  BY DEF Ordered, PetsFollowSlots, Sequences
<1>6. Only(Only(slots, Running), Running') = Only(slots, Running \cap Running')
  BY <1>5, OnlyTwice
<1>7. Running \cap Running' = Running'
  BY <1>2
<1>8. pets' = Only(slots, Running')
  BY <1>4, <1>5, <1>6, <1>7
<1>9. pets' \in Seq(Pets) /\ stack' \in Seq(Pets)
  BY <1>1, <1>3, OnlyTyped DEF Sequences
<1> QED
  BY <1>1, <1>2, <1>4, <1>8, <1>9 DEF Ordered, Sequences, PetsFollowSlots, Loaded

LEMMA SurfacedRunning ==
  ASSUME \A p \in Pets : Surfaced(pet[p], pet'[p])
  PROVE  Running' = Running
  BY DEF Surfaced, Running

LEMMA NextOrdered ==
  ASSUME IInv, Ordered, [Next]_vars
  PROVE  Ordered'
<1>1. Sequences
  BY DEF Ordered
<1>2. CASE Quietly
  <2>1. Running' = Running
    BY <1>2, SurfacedRunning DEF Quietly, Calm, Alive
  <2> QED
    BY <1>2, <2>1 DEF Quietly, Ordered, Sequences, PetsFollowSlots, Loaded
<1>3. CASE Mirrored
  <2>1. Running' = Running
    BY <1>3, SurfacedRunning DEF Mirrored
  <2> QED
    BY <1>3, <2>1 DEF Mirrored, Ordered, Sequences, PetsFollowSlots, Loaded
<1> QED
  BY <1>1, <1>2, <1>3, NextKinds, ReloadOrdered, ClosedOrdered

LEMMA InitOrdered == Init => Ordered /\ tray.rows = TrayOf(pets, pet).rows
<1> SUFFICES ASSUME Init
             PROVE  Ordered /\ tray.rows = TrayOf(pets, pet).rows
  OBVIOUS
<1>1. PICK c \in Configs :
               \E failed \in SUBSET {p \in ToSet(c.order) : c.view[p].art \in Flaky} :
                 Start(c, failed, connected)
  BY DEF Init
<1>2. PICK failed : Start(c, failed, connected)
  BY <1>1
<1> DEFINE s  == Without(c.order, failed)
           up == Creatable(s, c.view)
           st == [p \in Pets |-> IF p \in up
                                 THEN Fresh(c.view[p], Find(c.view[p].output, connected))
                                 ELSE Gone]
<1>3. slots = s /\ pets = Only(s, up) /\ pet = st /\ stack = Only(s, up)
      /\ tray = TrayOf(Only(s, up), st)
  BY <1>2 DEF Start
<1>4. c.order \in Seq(Pets) /\ IsInjective(c.order)
  BY HostAssumption
<1>5. s \in Seq(Pets) /\ IsInjective(s)
  BY <1>4, OnlyTyped
<1>6. up \subseteq ToSet(s) /\ ToSet(s) \subseteq Pets
  BY <1>5 DEF Creatable, ToSet
<1>7. Gone.surf = "none" /\ \A v, o : Fresh(v, o).surf = "waiting"
  BY DEF Gone, Fresh
<1> HIDE DEF s, up
<1>8. Running = up
  BY <1>3, <1>6, <1>7 DEF Running
<1>9. Only(s, up) \in Seq(Pets)
  BY <1>5, OnlyTyped
<1> QED
  BY <1>3, <1>5, <1>6, <1>8, <1>9 DEF Ordered, Sequences, PetsFollowSlots, Loaded

-----------------------------------------------------------------------------
\* The tray's rows.
RowType == [id : Pets, mode : Modes, visible : BOOLEAN]
Row(st, p)  == [id |-> p, mode |-> st[p].mode, visible |-> st[p].visible]
Rows(s, st) == [i \in DOMAIN s |-> Row(st, s[i])]

LEMMA TrayRows ==
  ASSUME NEW s, NEW st
  PROVE  TrayOf(s, st).rows = Rows(s, st)
  BY DEF TrayOf, Rows, Row

LEMMA RowTyped ==
  ASSUME NEW st \in [Pets -> PetType], NEW p \in Pets
  PROVE  Row(st, p) \in RowType /\ Row(st, p).id = p
  BY DEF Row, RowType, PetType

LEMMA RowsTyped ==
  ASSUME NEW st \in [Pets -> PetType], NEW s \in Seq(Pets)
  PROVE  /\ Rows(s, st) \in Seq(RowType) /\ Len(Rows(s, st)) = Len(s)
         /\ \A row \in ToSet(Rows(s, st)) : row.id \in ToSet(s)
<1>1. Len(s) \in Nat /\ DOMAIN s = 1 .. Len(s) /\ \A i \in 1 .. Len(s) : s[i] \in Pets
  OBVIOUS
<1>2. \A i \in 1 .. Len(s) : Row(st, s[i]) \in RowType /\ Row(st, s[i]).id = s[i]
  BY <1>1, RowTyped
<1>3. Rows(s, st) = [i \in 1 .. Len(s) |-> Row(st, s[i])]
  BY <1>1 DEF Rows
<1> HIDE DEF Rows
<1>4. Rows(s, st) \in Seq(RowType) /\ Len(Rows(s, st)) = Len(s)
  BY <1>1, <1>2, <1>3
<1>5. \A row \in ToSet(Rows(s, st)) : row.id \in ToSet(s)
  BY <1>1, <1>2, <1>3 DEF ToSet
<1> QED
  BY <1>4, <1>5

\* The rows of the pets that stay are the rows that stay.
Commutes(s, st, R) ==
  Only(Rows(s, st), {row \in RowType : row.id \in R}) = Rows(Only(s, R), st)

LEMMA RowsAppend ==
  ASSUME NEW st \in [Pets -> PetType], NEW s \in Seq(Pets), NEW x \in Pets
  PROVE  Rows(Append(s, x), st) = Append(Rows(s, st), Row(st, x))
<1> DEFINE n == Len(s)
           a == Rows(Append(s, x), st)
           b == Append(Rows(s, st), Row(st, x))
<1>1. /\ n \in Nat /\ Append(s, x) \in Seq(Pets) /\ Len(Append(s, x)) = n + 1
      /\ DOMAIN s = 1 .. n /\ DOMAIN Append(s, x) = 1 .. n + 1 /\ Append(s, x)[n + 1] = x
      /\ \A i \in 1 .. n : Append(s, x)[i] = s[i]
  OBVIOUS
<1>2. /\ Rows(s, st) \in Seq(RowType) /\ Len(Rows(s, st)) = n
      /\ a \in Seq(RowType) /\ Len(a) = n + 1 /\ Row(st, x) \in RowType
  BY <1>1, RowsTyped, RowTyped
<1>3. /\ \A i \in 1 .. n + 1 : a[i] = Row(st, Append(s, x)[i])
      /\ \A i \in 1 .. n : Rows(s, st)[i] = Row(st, s[i])
  BY <1>1 DEF Rows
<1> HIDE DEF n, a
<1>4. b \in Seq(RowType) /\ Len(b) = n + 1 /\ b[n + 1] = Row(st, x)
  BY <1>1, <1>2
<1>5. \A i \in 1 .. n : b[i] = Rows(s, st)[i]
  BY <1>1, <1>2
<1>6. ASSUME NEW i \in 1 .. n + 1
      PROVE  a[i] = b[i]
  <2>1. CASE i = n + 1
    BY <1>1, <1>3, <1>4, <2>1
  <2>2. CASE i # n + 1
    <3>1. i \in 1 .. n
      BY <1>1, <2>2
    <3> QED
      BY <1>1, <1>3, <1>5, <3>1
  <2> QED
    BY <2>1, <2>2
<1> HIDE DEF b
<1>7. a = b
  BY <1>2, <1>4, <1>6, SeqEqual
<1> QED
  BY <1>7 DEF a, b

LEMMA CommutesStep ==
  ASSUME NEW st \in [Pets -> PetType], NEW s \in Seq(Pets), NEW x \in Pets, NEW R,
         Commutes(s, st, R)
  PROVE  Commutes(Append(s, x), st, R)
<1> DEFINE A == {row \in RowType : row.id \in R}
<1>1. Rows(s, st) \in Seq(RowType) /\ Row(st, x) \in RowType /\ Row(st, x).id = x
  BY RowsTyped, RowTyped
<1>2. Rows(Append(s, x), st) = Append(Rows(s, st), Row(st, x))
  BY RowsAppend
<1>3. Row(st, x) \in A <=> x \in R
  BY <1>1
<1>4. Only(Rows(s, st), A) = Rows(Only(s, R), st)
  BY DEF Commutes
<1> HIDE DEF A
<1>5. Only(Append(Rows(s, st), Row(st, x)), A)
        = IF Row(st, x) \in A THEN Append(Only(Rows(s, st), A), Row(st, x))
          ELSE Only(Rows(s, st), A)
  BY <1>1, OnlyAppend
<1>6. Only(Append(s, x), R) = IF x \in R THEN Append(Only(s, R), x) ELSE Only(s, R)
  BY OnlyAppend
<1>7. Only(s, R) \in Seq(Pets)
  BY OnlyTyped
<1>8. Rows(Append(Only(s, R), x), st) = Append(Rows(Only(s, R), st), Row(st, x))
  BY <1>7, RowsAppend
<1>9. Only(Rows(Append(s, x), st), A) = Rows(Only(Append(s, x), R), st)
  BY <1>2, <1>3, <1>4, <1>5, <1>6, <1>8
<1> QED
  BY <1>9 DEF Commutes, A

LEMMA RowsOnly ==
  ASSUME NEW st \in [Pets -> PetType], NEW s \in Seq(Pets), NEW R
  PROVE  Commutes(s, st, R)
<1> DEFINE Bad(n) == \E t \in Seq(Pets) : Len(t) = n /\ ~Commutes(t, st, R)
           bad == {n \in Nat : Bad(n)}
<1>1. SUFFICES ASSUME bad # {}
               PROVE  FALSE
  <2>1. Len(s) \in Nat
    OBVIOUS
  <2> QED
    BY <2>1
<1>2. PICK m \in bad : \A j \in bad : m <= j
  BY <1>1, Smallest
<1>3. PICK t \in Seq(Pets) : Len(t) = m /\ ~Commutes(t, st, R)
  BY <1>2
<1>6. m \in Nat /\ \A k \in Nat : k < m => ~Bad(k)
  BY <1>2
<1> HIDE DEF Bad, bad
<1>4. CASE m = 0
  <2>1. t = <<>>
    BY <1>3, <1>4
  <2>2. Rows(<<>>, st) = <<>>
    BY DEF Rows
  <2>3. Commutes(<<>>, st, R)
    BY <2>2, OnlyEmpty DEF Commutes
  <2> QED
    BY <1>3, <2>1, <2>3
<1>5. CASE m # 0
  <2>4. Len(t) = m /\ Len(t) # 0
    BY <1>3, <1>5
  <2>5. \E u \in Seq(Pets), x \in Pets : t = Append(u, x) /\ Len(u) = Len(t) - 1
    BY <2>4, LastOff, Zenon
  <2>1. PICK u \in Seq(Pets), x \in Pets : t = Append(u, x) /\ Len(u) = m - 1
    BY <2>4, <2>5
  <2>2. ~Bad(m - 1)
    BY <1>5, <1>6
  <2>3. Commutes(u, st, R)
    BY <2>1, <2>2 DEF Bad
  <2> QED
    BY <1>3, <2>1, <2>3, CommutesStep
<1> QED
  BY <1>4, <1>5

\* The rows of the running pets, as TrayRowsCurrent selects them.
Shown(rows, R) == Only(rows, {row \in ToSet(rows) : row.id \in R})

LEMMA ShownRows ==
  ASSUME NEW rows \in Seq(RowType), NEW R
  PROVE  Shown(rows, R) = Only(rows, {row \in RowType : row.id \in R})
<1> DEFINE A == {row \in ToSet(rows) : row.id \in R}
           B == {row \in RowType : row.id \in R}
<1>1. ToSet(rows) \subseteq RowType
  BY SetTyped
<1>2. ToSet(rows) \cap A = ToSet(rows) \cap B
  BY <1>1
<1>3. Shown(rows, R) = Only(rows, A)
  BY DEF Shown
<1> HIDE DEF A, B
<1>4. Only(rows, A) = Only(rows, B)
  <2>1. Filters(rows, RowType, A, B)
    BY OnlyFilters
  <2> QED
    BY <1>2, <2>1 DEF Filters
<1> QED
  BY <1>3, <1>4 DEF B

Listed == tray.rows \in Seq(RowType) /\ TrayRowsCurrent

\* Right after a call of sync_tray.
LEMMA SyncedListed ==
  ASSUME NEW st \in [Pets -> PetType], NEW ps \in Seq(Pets), NEW R, ToSet(ps) = R
  PROVE  /\ TrayOf(ps, st).rows \in Seq(RowType)
         /\ Shown(TrayOf(ps, st).rows, R) = TrayOf(ps, st).rows
<1>1. /\ Rows(ps, st) \in Seq(RowType)
      /\ \A row \in ToSet(Rows(ps, st)) : row.id \in R
  BY RowsTyped
<1>2. ToSet(Rows(ps, st)) \subseteq {row \in ToSet(Rows(ps, st)) : row.id \in R}
  BY <1>1
<1>3. Shown(Rows(ps, st), R) = Rows(ps, st)
  BY <1>1, <1>2, OnlyTwice DEF Shown
<1> QED
  BY <1>1, <1>3, TrayRows

LEMMA ListedShown ==
  Listed <=> tray.rows \in Seq(RowType) /\ Shown(tray.rows, Running) = Rows(pets, pet)
  BY TrayRows DEF Listed, TrayRowsCurrent, Shown

LEMMA ListedShownNext ==
  /\ tray'.rows \in Seq(RowType) /\ Shown(tray'.rows, Running') = TrayOf(pets', pet').rows
  => Listed'
  BY DEF Listed, TrayRowsCurrent, Shown

LEMMA ClosedListed ==
  ASSUME IInv, Ordered, Listed, NEW p \in Pets, Closed(p)
  PROVE  Listed'
<1> DEFINE R == Running \ {p}
           A == {row \in RowType : row.id \in R}
           B == {row \in RowType : row.id \in Running}
<1>1. /\ Running' = R /\ pets' = Only(pets, R) /\ tray' = tray
      /\ pet' = [pet EXCEPT ![p] = Gone] /\ pet \in [Pets -> PetType]
      /\ pets \in Seq(Pets) /\ ToSet(pets) = Running
  BY ClosedOrdered, RunningPets, PetTyped DEF Closed, Ordered, Sequences
<1>2. tray.rows \in Seq(RowType) /\ Shown(tray.rows, Running) = Rows(pets, pet)
  BY ListedShown
<1>3. Only(tray.rows, B) = Rows(pets, pet)
  BY <1>2, ShownRows
<1>4. Only(Only(tray.rows, B), A) = Only(tray.rows, B \cap A)
  BY <1>2, OnlyTwice
<1>5. B \cap A = A
  OBVIOUS
<1>6. Only(Rows(pets, pet), A) = Rows(Only(pets, R), pet)
  BY <1>1, RowsOnly DEF Commutes
<1>7. Only(tray.rows, A) = Rows(Only(pets, R), pet)
  BY <1>3, <1>4, <1>5, <1>6
<1>8. Shown(tray.rows, R) = Only(tray.rows, A)
  BY <1>2, ShownRows
<1>9. Rows(Only(pets, R), pet) = Rows(Only(pets, R), pet')
  <2>1. /\ Only(pets, R) \in Seq(Pets) /\ ToSet(Only(pets, R)) = ToSet(pets) \cap R
    BY <1>1, OnlyTyped
  <2>2. \A i \in DOMAIN Only(pets, R) : Only(pets, R)[i] \in ToSet(pets) \cap R
    BY <2>1 DEF ToSet
  <2>3. \A q \in R : q \in Pets /\ pet'[q] = pet[q]
    BY <1>1, RunningInPets
  <2>4. \A q \in R : Row(pet, q) = Row(pet', q)
    BY <2>3 DEF Row
  <2> QED
    BY <2>2, <2>4 DEF Rows
<1>10. tray'.rows \in Seq(RowType) /\ Shown(tray'.rows, Running') = TrayOf(pets', pet').rows
  BY <1>1, <1>2, <1>7, <1>8, <1>9, TrayRows
<1> QED
  BY <1>10, ListedShownNext

LEMMA NextListed ==
  ASSUME IInv, Ordered, Listed, [Next]_vars
  PROVE  Listed'
<1>1. /\ IInv' /\ Ordered' /\ Sequences
  BY NextIInv, NextOrdered DEF Ordered
<1>2. pet' \in [Pets -> PetType]
  BY <1>1 DEF IInv, StateTyped
<1>3. pets' \in Seq(Pets) /\ ToSet(pets') = Running'
  <2>1. /\ slots' \in Seq(Pets) /\ pets' \in Seq(Pets) /\ pets' = Only(slots', Running')
        /\ Running' \subseteq ToSet(slots')
    BY <1>1 DEF Ordered, Sequences, PetsFollowSlots, Loaded
  <2>2. ToSet(Only(slots', Running')) = ToSet(slots') \cap Running'
    BY <2>1, OnlyTyped
  <2> QED
    BY <2>1, <2>2
<1>4. ASSUME tray' = TrayOf(pets', pet')
      PROVE  Listed'
  <2>1. /\ TrayOf(pets', pet').rows \in Seq(RowType)
        /\ Shown(TrayOf(pets', pet').rows, Running') = TrayOf(pets', pet').rows
    BY <1>2, <1>3, SyncedListed
  <2> QED
    BY <1>4, <2>1, ListedShownNext
<1>5. CASE Quietly
  <2>1. Running' = Running /\ pets' = pets /\ tray' = tray
    BY <1>5, SurfacedRunning DEF Quietly, Calm, Alive
  <2>2. tray.rows \in Seq(RowType) /\ Shown(tray.rows, Running) = Rows(pets, pet)
    BY ListedShown
  <2>3. \A q \in Pets : Row(pet, q) = Row(pet', q)
    BY <1>5 DEF Quietly, Calm, Alive, Row
  <2>4. \A i \in DOMAIN pets : pets[i] \in Pets
    BY <1>1 DEF Sequences
  <2>5. Rows(pets, pet) = Rows(pets, pet')
    BY <2>3, <2>4 DEF Rows
  <2>6. /\ tray'.rows \in Seq(RowType)
        /\ Shown(tray'.rows, Running') = TrayOf(pets', pet').rows
    BY <2>1, <2>2, <2>5, TrayRows
  <2> QED
    BY <2>6, ListedShownNext
<1>6. CASE Mirrored
  BY <1>4, <1>6 DEF Mirrored
<1>7. ASSUME NEW c \in Configs, Reload(c)
      PROVE  Listed'
  BY <1>4, <1>7 DEF Reload, ApplyConfig
<1> QED
  BY <1>1, <1>5, <1>6, <1>7, NextKinds, ClosedListed

-----------------------------------------------------------------------------
Inductive == IInv /\ Ordered /\ Listed

LEMMA InitInductive == Init => Inductive
<1> SUFFICES ASSUME Init
             PROVE  Inductive
  OBVIOUS
<1>1. IInv /\ Ordered /\ tray.rows = TrayOf(pets, pet).rows
  BY InitIInv, InitOrdered
<1>2. pet \in [Pets -> PetType] /\ pets \in Seq(Pets) /\ ToSet(pets) = Running
  BY <1>1, PetTyped, RunningPets DEF Ordered, Sequences
<1>3. /\ TrayOf(pets, pet).rows \in Seq(RowType)
      /\ Shown(TrayOf(pets, pet).rows, Running) = TrayOf(pets, pet).rows
  BY <1>2, SyncedListed
<1>4. Listed
  BY <1>1, <1>3, TrayRows, ListedShown
<1> QED
  BY <1>1, <1>4 DEF Inductive

LEMMA NextInductive == Inductive /\ [Next]_vars => Inductive'
<1> SUFFICES ASSUME Inductive, [Next]_vars
             PROVE  Inductive'
  OBVIOUS
<1>1. IInv /\ Ordered /\ Listed
  BY DEF Inductive
<1> QED
  BY <1>1, NextIInv, NextOrdered, NextListed DEF Inductive

\* Every variable keeps its type: no handler leaves a record in a state
\* PetRuntime and PetSurface cannot be in, and only configured pets are ever
\* loaded, run or stacked.
THEOREM Typing == Spec => []TypeOK
<1>1. Inductive => TypeOK
  BY DEF Inductive, IInv, Ordered, Sequences, TypeOK
<1> QED
  BY <1>1, InitInductive, NextInductive, PTL DEF Spec

\* App.pets is exactly the slots that have a surface, in config order, after
\* any sequence of reloads, failed loads and closed surfaces (sync_surfaces
\* sorts only when a surface was created or several pets run, and that is
\* enough).
THEOREM PetsAreInOrder == Spec => []PetsFollowSlots
<1>1. Inductive => PetsFollowSlots
  BY DEF Inductive, Ordered
<1> QED
  BY <1>1, InitInductive, NextInductive, PTL DEF Spec

\* Whatever command, reload or close came last, the tray's row of every pet
\* that runs shows its visibility and mode: no path that changes either
\* forgets sync_tray.  Rows of closed surfaces may remain.
THEOREM TrayIsCurrent == Spec => []TrayRowsCurrent
<1>1. Inductive => TrayRowsCurrent
  BY DEF Inductive, Listed
<1> QED
  BY <1>1, InitInductive, NextInductive, PTL DEF Spec

\* A reload never stops a running pet the new config still names, and never
\* shows one the user hid: a running pet is loaded, and Runtime::apply keeps
\* the slot of a loaded pet that fails to load again.
THEOREM ReloadKeepsThem == Spec => ReloadKeepsPets
<1>1. ASSUME Inductive, [Next]_vars
      PROVE  [\A p \in Running :
                pet'[p].surf = "none" \/ pet'[p].visible # pet[p].visible =>
                  \A c \in Configs : p \in ToSet(c.order) => ~Reload(c)]_vars
  <2>1. SUFFICES ASSUME NEW p \in Running, NEW c \in Configs,
                        p \in ToSet(c.order), Reload(c)
                 PROVE  pet'[p].surf # "none" /\ pet'[p].visible = pet[p].visible
    OBVIOUS
  <2>2. PICK failed : ApplyConfig(c, failed)
    BY <2>1 DEF Reload
  <2>3. IInv /\ Running \subseteq Loaded
    BY <1>1 DEF Inductive, Ordered
  <2>4. p \in ToSet(ApplySlots(c, failed))
    BY <2>1, <2>3, ConfigSlots
  <2>5. p \in KeptBy(c, failed)
    BY <2>1, <2>4 DEF KeptBy
  <2>6. Renewed(pet[p], pet'[p], slotView'[p])
    BY <2>2, <2>3, <2>5, ReloadPets
  <2> QED
    BY <2>1, <2>6 DEF Renewed, Surfaced, Running
<1> QED
  BY <1>1, InitInductive, NextInductive, PTL DEF Spec, ReloadKeepsPets

\* After a reload every running pet is drawn and moved as its slot says: an
\* override from the tray does not outlive the reload, and a pet whose reload
\* failed keeps its old view.
THEOREM ReloadRestores == Spec => ReloadRestoresMode
<1>1. ASSUME Inductive, [Next]_vars
      PROVE  [\A p \in Pets :
                /\ pet'[p].surf # "none"
                /\ pet'[p].mode # slotView'[p].mode \/ pet'[p].render # slotView'[p]
                => \A c \in Configs : ~Reload(c)]_vars
  <2>1. SUFFICES ASSUME NEW p \in Pets, pet'[p].surf # "none",
                        NEW c \in Configs, Reload(c)
                 PROVE  pet'[p].mode = slotView'[p].mode /\ pet'[p].render = slotView'[p]
    OBVIOUS
  <2>2. PICK failed : ApplyConfig(c, failed)
    BY <2>1 DEF Reload
  <2>3. IInv
    BY <1>1 DEF Inductive
  <2>4. CASE p \in CreatedBy(c, failed)
    <3>1. PICK o : pet'[p] = Fresh(slotView'[p], o)
      BY <2>2, <2>3, <2>4, ReloadPets
    <3> QED
      BY <3>1 DEF Fresh
  <2>5. CASE p \in KeptBy(c, failed)
    BY <2>2, <2>3, <2>5, ReloadPets DEF Renewed
  <2>6. CASE p \in Pets \ (CreatedBy(c, failed) \cup KeptBy(c, failed))
    <3>1. pet'[p] = Gone
      BY <2>2, <2>3, <2>6, ReloadPets
    <3>2. Gone.surf = "none"
      BY DEF Gone, Fresh
    <3> QED
      BY <2>1, <3>1, <3>2
  <2> QED
    BY <2>4, <2>5, <2>6
<1> QED
  BY <1>1, InitInductive, NextInductive, PTL DEF Spec, ReloadRestoresMode

\* A pet that settled stays where it was put since: no handler and no turn of
\* the loop applies its last physics position again.
THEOREM SettledStay == Spec => SettledStaysPut
<1>1. ASSUME Inductive, [Next]_vars
      PROVE  [\A p \in Pets :
                /\ pet[p].physics = 0 /\ ~pet[p].pending
                /\ pet'[p].physics = 0 /\ pet'[p].spot = Free
                => pet[p].spot = Free]_vars
  <2>1. SUFFICES ASSUME NEW p \in Pets
                 PROVE  Placed(pet[p], pet'[p])
    BY DEF Placed
  <2>2. IInv /\ Sequences
    BY <1>1 DEF Inductive, Ordered
  <2>3. CASE Quietly
    BY <2>3 DEF Quietly, Calm
  <2>4. CASE Mirrored
    BY <2>4 DEF Mirrored
  <2>5. /\ \A v, o : Placed(pet[p], Fresh(v, o))
        /\ Placed(pet[p], Gone)
    BY FallRange DEF Placed, Fresh, Gone
  <2>6. ASSUME NEW c \in Configs, Reload(c)
        PROVE  Placed(pet[p], pet'[p])
    <3>1. PICK failed : ApplyConfig(c, failed)
      BY <2>6 DEF Reload
    <3>2. CASE p \in CreatedBy(c, failed)
      BY <2>2, <2>5, <3>1, <3>2, ReloadPets
    <3>3. CASE p \in KeptBy(c, failed)
      BY <2>2, <3>1, <3>3, ReloadPets DEF Renewed
    <3>4. CASE p \in Pets \ (CreatedBy(c, failed) \cup KeptBy(c, failed))
      BY <2>2, <2>5, <3>1, <3>4, ReloadPets
    <3> QED
      BY <3>2, <3>3, <3>4
  <2>7. ASSUME NEW q \in Pets, Closed(q)
        PROVE  Placed(pet[p], pet'[p])
    <3>1. pet' = [pet EXCEPT ![q] = Gone] /\ pet \in [Pets -> PetType]
      BY <2>2, <2>7, PetTyped DEF Closed
    <3>2. Placed(pet[p], pet[p])
      BY DEF Placed
    <3> QED
      BY <2>5, <3>1, <3>2
  <2> QED
    BY <1>1, <2>2, <2>3, <2>4, <2>6, <2>7, NextKinds
<1> QED
  BY <1>1, InitInductive, NextInductive, PTL DEF Spec, SettledStaysPut

-----------------------------------------------------------------------------
\* The process the host runs in, for every set of launches: acquire() comes
\* before the host's loop and drop() after it, and the two share no state.

\* Past open() a launch has a file, and past flock() it holds that file's lock.
\* Every lock has a living owner, who took it.
LocksHeld ==
  /\ \A p \in Launches : pc[p] \in {"opened"} \cup Holding =>
                        fd[p] \in Launches
  /\ \A p \in Launches : pc[p] \in Holding => holder[fd[p]] = p
  /\ \A f \in Launches : holder[f] # Unlocked => pc[holder[f]] \in Holding

\* As long as no exit overlaps a launch, everyone who may still lock or run
\* has the file that the path names.
SameFile ==
  \A p \in Launches : pc[p] \in {"opened", "locked", "running"} => fd[p] = path

PidWritten == \A p \in Launches : pc[p] = "running" => pid[path] = p

OneProcess == LaunchTypeOK /\ LocksHeld /\ SameFile /\ PidWritten

\* Two launches that hold the file the path names are one launch.
LEMMA OneHolder ==
  ASSUME LocksHeld, SameFile,
         NEW p \in Launches, NEW q \in Launches,
         pc[p] \in {"locked", "running"}, pc[q] \in {"locked", "running"}
  PROVE  p = q
BY DEF LocksHeld, SameFile, Holding

LEMMA OneProcessInit == LaunchInit => OneProcess
<1> SUFFICES ASSUME LaunchInit PROVE OneProcess
  OBVIOUS
<1>1. LaunchTypeOK
  BY DEF LaunchInit, LaunchTypeOK, Stages
<1>2. LocksHeld
  BY DEF LaunchInit, LocksHeld, Holding
<1>3. SameFile /\ PidWritten
  BY DEF LaunchInit, SameFile, PidWritten
<1> QED
  BY <1>1, <1>2, <1>3 DEF OneProcess

LEMMA LaunchTypeStep ==
  ASSUME LaunchTypeOK, [LaunchNext]_launchVars
  PROVE  LaunchTypeOK'
<1>1. ASSUME NEW p \in Launches, Open(p) PROVE LaunchTypeOK'
  BY <1>1 DEF LaunchTypeOK, Open, Goto, Stages
<1>2. ASSUME NEW p \in Launches, Lock(p) PROVE LaunchTypeOK'
  BY <1>2 DEF LaunchTypeOK, Lock, Goto, Stages
<1>3. ASSUME NEW p \in Launches, WritePid(p) PROVE LaunchTypeOK'
  BY <1>3 DEF LaunchTypeOK, WritePid, Goto, Unlock,
              Stages
<1>4. ASSUME NEW p \in Launches, RemoveFile(p) PROVE LaunchTypeOK'
  BY <1>4 DEF LaunchTypeOK, RemoveFile, Goto, Stages
<1>5. ASSUME NEW p \in Launches, ReleaseLock(p) PROVE LaunchTypeOK'
  BY <1>5 DEF LaunchTypeOK, ReleaseLock, Goto, Unlock, Stages
<1>6. ASSUME NEW p \in Launches, Die(p) PROVE LaunchTypeOK'
  BY <1>6 DEF LaunchTypeOK, Die, Goto, Unlock, Stages
<1>7. CASE UNCHANGED launchVars
  BY <1>7 DEF LaunchTypeOK, launchVars
<1> QED
  BY <1>1, <1>2, <1>3, <1>4, <1>5, <1>6, <1>7 DEF LaunchNext

\* A launch that lets go of its lock leaves every other lock alone.
LEMMA UnlockOthers ==
  ASSUME LaunchTypeOK, LocksHeld,
         NEW p \in Launches, NEW stage \in Stages \ Holding,
         stage # "opened", Goto(p, stage), Unlock(p), UNCHANGED fd
  PROVE  LocksHeld'
BY SingletonAssumption DEF LocksHeld, Goto, Unlock, LaunchTypeOK,
       Holding, Stages

LEMMA LocksStep ==
  ASSUME LaunchTypeOK, LocksHeld, [LaunchNext]_launchVars
  PROVE  LocksHeld'
<1> USE SingletonAssumption
<1>1. ASSUME NEW p \in Launches, Open(p) PROVE LocksHeld'
  <2>1. pc' = [pc EXCEPT ![p] = "opened"] /\ fd' = [fd EXCEPT ![p] = path']
        /\ holder' = holder /\ path' \in Launches
    BY <1>1 DEF Open, Goto, LaunchTypeOK
  <2>2. pc[p] = "new"
    BY <1>1 DEF Open
  <2> QED
    BY <2>1, <2>2 DEF LocksHeld, LaunchTypeOK, Holding
<1>2. ASSUME NEW p \in Launches, Lock(p) PROVE LocksHeld'
  BY <1>2 DEF LocksHeld, Lock, Goto, LaunchTypeOK, Holding
<1>3. ASSUME NEW p \in Launches, WritePid(p) PROVE LocksHeld'
  <2>1. CASE path = NoFile
    <3>1. Goto(p, "refused") /\ Unlock(p) /\ UNCHANGED fd
      BY <1>3, <2>1 DEF WritePid
    <3> QED
      BY <3>1, UnlockOthers DEF Stages, Holding
  <2>2. CASE path # NoFile
    BY <1>3, <2>2 DEF LocksHeld, WritePid, Goto, LaunchTypeOK,
                      Holding
  <2> QED
    BY <2>1, <2>2
<1>4. ASSUME NEW p \in Launches, RemoveFile(p) PROVE LocksHeld'
  BY <1>4 DEF LocksHeld, RemoveFile, Goto, LaunchTypeOK, Holding
<1>5. ASSUME NEW p \in Launches, ReleaseLock(p) PROVE LocksHeld'
  <2>1. Goto(p, "gone") /\ Unlock(p) /\ UNCHANGED fd
    BY <1>5 DEF ReleaseLock
  <2> QED
    BY <2>1, UnlockOthers DEF Stages, Holding
<1>6. ASSUME NEW p \in Launches, Die(p) PROVE LocksHeld'
  <2>1. Goto(p, "gone") /\ Unlock(p) /\ UNCHANGED fd
    BY <1>6 DEF Die
  <2> QED
    BY <2>1, UnlockOthers DEF Stages, Holding
<1>7. CASE UNCHANGED launchVars
  BY <1>7 DEF LocksHeld, launchVars
<1> QED
  BY <1>1, <1>2, <1>3, <1>4, <1>5, <1>6, <1>7 DEF LaunchNext

\* Only opening and removing change the path.  Opening changes it when there
\* is no file, and then nobody has one that counts; removing is done by the
\* only launch past flock(), while no launch is between open() and flock().
LEMMA FileStep ==
  ASSUME ~OverlapsExit, OneProcess, [LaunchNext]_launchVars
  PROVE  SameFile'
<1> USE SingletonAssumption DEF OneProcess
<1>1. ASSUME NEW p \in Launches, Open(p) PROVE SameFile'
  <2>1. \A q \in Launches : pc[q] \in {"opened", "locked", "running"} =>
          fd[q] = path /\ path # NoFile
    BY DEF SameFile, LocksHeld, Holding
  <2> QED
    BY <1>1, <2>1 DEF SameFile, Open, Goto, LaunchTypeOK
<1>2. ASSUME NEW p \in Launches, Lock(p) PROVE SameFile'
  BY <1>2 DEF SameFile, Lock, Goto, LaunchTypeOK
<1>3. ASSUME NEW p \in Launches, WritePid(p) PROVE SameFile'
  BY <1>3 DEF SameFile, WritePid, Goto, LaunchTypeOK
<1>4. ASSUME NEW p \in Launches, RemoveFile(p) PROVE SameFile'
  <2>1. \A q \in Launches \ {p} : pc[q] \notin {"opened", "locked", "running"}
    BY <1>4, OneHolder DEF RemoveFile
  <2> QED
    BY <1>4, <2>1 DEF SameFile, RemoveFile, Goto, LaunchTypeOK
<1>5. ASSUME NEW p \in Launches, ReleaseLock(p) PROVE SameFile'
  BY <1>5 DEF SameFile, ReleaseLock, Goto, LaunchTypeOK
<1>6. ASSUME NEW p \in Launches, Die(p) PROVE SameFile'
  BY <1>6 DEF SameFile, Die, Goto, LaunchTypeOK
<1>7. CASE UNCHANGED launchVars
  BY <1>7 DEF SameFile, launchVars
<1> QED
  BY <1>1, <1>2, <1>3, <1>4, <1>5, <1>6, <1>7 DEF LaunchNext

LEMMA PidStep ==
  ASSUME ~OverlapsExit, OneProcess, [LaunchNext]_launchVars
  PROVE  PidWritten'
<1> USE SingletonAssumption DEF OneProcess
<1>1. ASSUME NEW p \in Launches, Open(p) PROVE PidWritten'
  <2>1. \A q \in Launches : pc[q] = "running" => path # NoFile
    BY DEF SameFile, LocksHeld, Holding
  <2> QED
    BY <1>1, <2>1 DEF PidWritten, Open, Goto, LaunchTypeOK
<1>2. ASSUME NEW p \in Launches, Lock(p) PROVE PidWritten'
  BY <1>2 DEF PidWritten, Lock, Goto, LaunchTypeOK
<1>3. ASSUME NEW p \in Launches, WritePid(p) PROVE PidWritten'
  <2>1. \A q \in Launches \ {p} : pc[q] # "running"
    BY <1>3, OneHolder DEF WritePid
  <2> QED
    BY <1>3, <2>1 DEF PidWritten, WritePid, Goto, LaunchTypeOK
<1>4. ASSUME NEW p \in Launches, RemoveFile(p) PROVE PidWritten'
  <2>1. \A q \in Launches \ {p} : pc[q] # "running"
    BY <1>4, OneHolder DEF RemoveFile
  <2> QED
    BY <1>4, <2>1 DEF PidWritten, RemoveFile, Goto, LaunchTypeOK
<1>5. ASSUME NEW p \in Launches, ReleaseLock(p) PROVE PidWritten'
  BY <1>5 DEF PidWritten, ReleaseLock, Goto, LaunchTypeOK
<1>6. ASSUME NEW p \in Launches, Die(p) PROVE PidWritten'
  BY <1>6 DEF PidWritten, Die, Goto, LaunchTypeOK
<1>7. CASE UNCHANGED launchVars
  BY <1>7 DEF PidWritten, launchVars
<1> QED
  BY <1>1, <1>2, <1>3, <1>4, <1>5, <1>6, <1>7 DEF LaunchNext

LEMMA OneProcessStep ==
  ASSUME ~OverlapsExit, OneProcess, [LaunchNext]_launchVars
  PROVE  OneProcess'
BY LaunchTypeStep, LocksStep, FileStep, PidStep DEF OneProcess

LEMMA OneProcessKept ==
  ASSUME ~OverlapsExit
  PROVE  LaunchSpec => []OneProcess
<1>1. OneProcess /\ [LaunchNext]_launchVars => OneProcess'
  BY OneProcessStep
<1> QED
  BY <1>1, OneProcessInit, PTL DEF LaunchSpec

\* Whatever launches, exits and crashes come in whatever order, with or without
\* an exit between open and flock: the path names no file or one a launch
\* created, and a lock is free or some launch's.
THEOREM LaunchTyping == LaunchSpec => []LaunchTypeOK
<1>1. LaunchInit => LaunchTypeOK
  BY DEF LaunchInit, LaunchTypeOK, Stages
<1>2. LaunchTypeOK /\ [LaunchNext]_launchVars => LaunchTypeOK'
  BY LaunchTypeStep
<1> QED
  BY <1>1, <1>2, PTL DEF LaunchSpec

-----------------------------------------------------------------------------
\* However many times petweave is started, killed and quit, acquire() lets one
\* instance run at a time, provided no instance removes the pid file between
\* another's open() and flock().
THEOREM OneInstance ==
  ASSUME ~OverlapsExit
  PROVE  LaunchSpec => []MutualExclusion
<1>1. OneProcess => MutualExclusion
  BY OneHolder DEF OneProcess, MutualExclusion
<1> QED
  BY <1>1, OneProcessKept, PTL

\* Under the same proviso the pid file names the instance that runs, although
\* acquire() writes it through a second open of the path.
THEOREM PidFileIsRight ==
  ASSUME ~OverlapsExit
  PROVE  LaunchSpec => []PidNamesInstance
<1>1. OneProcess => PidNamesInstance
  BY SingletonAssumption DEF OneProcess, PidNamesInstance, SameFile,
         PidWritten, LocksHeld, Holding
<1> QED
  BY <1>1, OneProcessKept, PTL

\* Under the same proviso acquire() refuses a launch only beside a live
\* instance: no crash leaves a lock, or a file, that blocks the next launch.
THEOREM NoStaleLock ==
  ASSUME ~OverlapsExit
  PROVE  LaunchSpec => RefusedOnlyBesideAnother
<1> DEFINE Refuses(p) == pc[p] # "refused" /\ pc'[p] = "refused"
           Beside(p)  == \E q \in Launches \ {p} : pc[q] \in Holding
<1>1. ASSUME OneProcess, [LaunchNext]_launchVars, NEW p \in Launches, Refuses(p)
      PROVE  Beside(p)
  <2>1. Lock(p) \/ WritePid(p)
    BY <1>1 DEF LaunchNext, Open, Lock, WritePid,
                RemoveFile, ReleaseLock, Die, Goto,
                launchVars,
                OneProcess, LaunchTypeOK
  <2>2. CASE Lock(p)
    <3>1. pc[p] = "opened" /\ holder[fd[p]] # Unlocked
      BY <1>1, <2>2 DEF Lock, Goto, OneProcess, LaunchTypeOK
    <3>2. fd[p] \in Launches /\ holder[fd[p]] \in Launches
      BY <1>1, <3>1 DEF OneProcess, LocksHeld, LaunchTypeOK
    <3>3. pc[holder[fd[p]]] \in Holding
      BY <1>1, <3>1, <3>2 DEF OneProcess, LocksHeld
    <3> QED
      BY <3>1, <3>2, <3>3 DEF Holding
  <2>3. CASE WritePid(p)
    <3>1. path = NoFile /\ pc[p] = "locked"
      BY <1>1, <2>3 DEF WritePid, Goto, OneProcess, LaunchTypeOK
    <3>2. fd[p] = path /\ fd[p] \in Launches
      BY <1>1, <3>1 DEF OneProcess, SameFile, LocksHeld, Holding
    <3> QED
      BY <3>1, <3>2, SingletonAssumption
  <2> QED
    BY <2>1, <2>2, <2>3
<1>2. OneProcess /\ [LaunchNext]_launchVars
       => [\A p \in Launches : Refuses(p) => Beside(p)]_launchVars
  BY <1>1
<1> QED
  BY <1>2, OneProcessKept, PTL DEF LaunchSpec, RefusedOnlyBesideAnother
=============================================================================

---------------------------- MODULE CanvasProofs ----------------------------
(***************************************************************************)
(* Theorems about Canvas, for every screen, artwork, width, inherited      *)
(* placement and drag.                                                     *)
(*                                                                         *)
(* DragLands is arithmetic: rounding to pixels moves a position by half a  *)
(* pixel at most, and the margins that pin a corner put the box back where *)
(* they were taken from.  It needs that no margin of the screen is beyond  *)
(* the largest a configuration may hold (MarginsReach).                    *)
(*                                                                         *)
(* DesktopFollows needs the last word: while the page's last push stands   *)
(* (fresh = "sent"), the last placement on its way to the host, or else    *)
(* the host's own, says the same as the draft, and so does what the page   *)
(* believes to have sent.  A host that does not run the pet refuses, and   *)
(* learns the placement from the file; one that does refuses nothing,      *)
(* because no margin is beyond the largest.                                *)
(***************************************************************************)
EXTENDS Canvas, TLAPS

Optional(S) == {{}} \cup {{v} : v \in S}
Size == (Nat \ {0}) \X (Nat \ {0})
Margin == -MaxMargin .. MaxMargin
Placement == [anchor : SUBSET Edges, margins : [Edges -> Int]]
InRange == [anchor : SUBSET Edges, margins : [Edges -> Margin]]
Entry == [anchor : Optional(SUBSET Edges), margins : [Edges -> Optional(Margin)],
          width : Optional(Widths)]
SurfaceType == [placement : Placement, size : Size]
Message == [op : {"SetPlacement"}, placement : InRange] \cup [op : {"Reload", "ListPets"}]
Report == [op : {"PetsChanged", "PetMoved"}, rect : Optional(Int \X Int)]

Typed ==
  /\ draft \in Entry /\ file \in Entry /\ saved \in BOOLEAN
  /\ lastSent \in Optional(InRange)
  /\ client \in [up : BOOLEAN, rect : Optional(Int \X Int)]
  /\ toHost \in Seq(Message) /\ toClient \in Seq(Report)
  /\ host \in [up : BOOLEAN, pet : BOOLEAN, surface : SurfaceType]

\* Two placements that put a surface of any size at the same position.
Same(p, q) == p.anchor = q.anchor /\ \A e \in p.anchor : p.margins[e] = q.margins[e]

\* Of a host at s with the messages q on their way, the last word is r; there
\* may be none if the host does not run the pet.
Says(q, pet, s, r) ==
  \E k \in 0 .. Len(q) :
    /\ \A j \in k + 1 .. Len(q) : q[j].op # "SetPlacement"
    /\ k = 0 /\ pet => Same(s, r)
    /\ k # 0 => q[k].op = "SetPlacement" /\ Same(q[k].placement, r)

Sent ==
  /\ client.up => host.up
  /\ fresh = "sent" =>
       /\ host.up /\ Says(toHost, host.pet, host.surface.placement, Resolved(draft))
       /\ \A p \in lastSent : Same(p, Resolved(draft))

-----------------------------------------------------------------------------
\* Arithmetic.

\* An optional value.
LEMMA GetTyped ==
  ASSUME NEW S, NEW o \in Optional(S), NEW d \in S
  PROVE  Get(o, d) \in S
BY DEF Get, Optional

LEMMA GetOne ==
  ASSUME NEW v, NEW d
  PROVE  Get({v}, d) = v
BY DEF Get

\* Rounding moves a position by half a pixel at most.
LEMMA RoundNear ==
  ASSUME NEW v \in Int
  PROVE  Round(v) \in Int /\ 2 * Round(v) - v \in -1 .. 1
BY DEF Round

LEMMA RoundBetween ==
  ASSUME NEW v \in Int, NEW n \in Int, NEW m \in Int, 2 * n <= v, v <= 2 * m
  PROVE  n <= Round(v) /\ Round(v) <= m
BY DEF Round

LEMMA ClampFacts ==
  ASSUME NEW v \in Int, NEW low \in Int, NEW high \in Int, low <= high
  PROVE  /\ Clamp(v, low, high) \in low .. high
         /\ v \in low .. high => Clamp(v, low, high) = v
BY DEF Clamp, Most, Least

\* The screen and the sizes.
LEMMA ScreenTyped ==
  \A i \in 1 .. 2 : Screen[i] \in Nat /\ Screen[i] # 0
BY CanvasAssumption

LEMMA SizeTyped ==
  ASSUME NEW entry \in Entry
  PROVE  SurfaceSize(entry) \in Size
<1> DEFINE w == Get(entry.width, 0)
<1>1. w \in Nat
  <2>1. entry.width = {} \/ \E v \in Widths : entry.width = {v}
    BY DEF Entry, Optional
  <2>2. \A v \in Widths : v \in Nat
    BY CanvasAssumption
  <2> QED
    BY <2>1, <2>2, GetOne DEF Get
<1>2. Natural \in Size /\ Natural[1] \in Nat /\ Natural[1] # 0 /\ Natural[2] \in Nat
  BY CanvasAssumption DEF Size
<1> DEFINE a == Natural[1]  b == Natural[2]  h == (2 * w * b + a) \div (2 * a)
<1> HIDE DEF w, a, b
<1>3. a \in Nat /\ a # 0 /\ b \in Nat /\ w \in Nat
  BY <1>1, <1>2 DEF a, b
<1>4. 2 * w * b + a \in Nat
  BY <1>3
<1>5. h \in Int
  <2> DEFINE n == 2 * w * b + a  d == 2 * a
  <2>1. n \in Nat /\ d \in Nat /\ d > 0
    BY <1>3, <1>4
  <2> HIDE DEF n, d
  <2>2. n \div d \in Int
    BY <2>1
  <2> QED
    BY <2>2 DEF n, d
<1>6. SurfaceSize(entry) = IF w = 0 THEN Natural ELSE <<w, Most(1, h)>>
  BY DEF SurfaceSize, w, a, b
<1> HIDE DEF h
<1>7. Most(1, h) \in Nat \ {0}
  BY <1>5 DEF Most
<1> QED
  BY <1>2, <1>3, <1>6, <1>7 DEF Size

LEMMA PositionTyped ==
  ASSUME NEW p \in Placement, NEW size \in Size
  PROVE  SurfacePosition(p.anchor, p.margins, size) \in Int \X Int
<1>1. size[1] \in Int /\ size[2] \in Int /\ Screen[1] \in Int /\ Screen[2] \in Int
  BY ScreenTyped DEF Size
<1>2. \A e \in Edges : p.margins[e] \in Int
  BY DEF Placement
<1>3. {"left", "right", "top", "bottom"} \subseteq Edges
  BY DEF Edges
<1> QED
  BY <1>1, <1>2, <1>3 DEF SurfacePosition

LEMMA RangePlaces == InRange \subseteq Placement
<1>1. Margin \subseteq Int
  BY CanvasAssumption DEF Margin
<1> QED
  BY <1>1 DEF InRange, Placement

LEMMA ResolvedTyped ==
  ASSUME NEW entry \in Entry
  PROVE  Resolved(entry) \in InRange
<1>1. Defaults.anchor \in SUBSET Edges /\ \A e \in Edges : Defaults.margins[e] \in Margin
  BY CanvasAssumption DEF Margin
<1>2. Get(entry.anchor, Defaults.anchor) \in SUBSET Edges
  BY <1>1, GetTyped DEF Entry
<1>3. \A e \in Edges : Get(entry.margins[e], Defaults.margins[e]) \in Margin
  BY <1>1, GetTyped DEF Entry
<1> QED
  BY <1>2, <1>3 DEF Resolved, InRange

\* A position on an axis after snapping is on the screen, or at its edge when
\* the surface is larger.
LEMMA SnapAxisRange ==
  ASSUME NEW value \in Int, NEW i \in 1 .. 2, NEW size \in Size, NEW snap \in BOOLEAN
  PROVE  SnapAxis(value, i, size, snap) \in 0 .. Most(2 * (Screen[i] - size[i]), 0)
<1>1. Screen[i] \in Int /\ size[i] \in Int
  BY ScreenTyped DEF Size
<1> DEFINE max == Most(2 * (Screen[i] - size[i]), 0)
           at == Clamp(value, 0, max)
           lines == <<0, max, max \div 2>>
           near == {k \in 1..3 : Distance(lines[k], at) <= 2 * SnapDistance}
           best == CHOOSE k \in near : \A j \in near :
                     \/ Distance(lines[k], at) < Distance(lines[j], at)
                     \/ Distance(lines[k], at) = Distance(lines[j], at) /\ k <= j
           slot == ((at + Grid) \div (2 * Grid)) * 2 * Grid
           square == Clamp(slot, 0, max)
<1>2. max \in Nat
  BY <1>1 DEF Most
<1> HIDE DEF max
<1>3. at \in 0 .. max
  BY <1>2, ClampFacts
<1> HIDE DEF at
<1>4. lines[1] \in 0 .. max /\ lines[2] \in 0 .. max /\ lines[3] \in 0 .. max
  BY <1>2
<1>5. \A k \in 1 .. 3 : lines[k] \in 0 .. max
  BY <1>4
<1>6. slot \in Int
  <2> DEFINE n == at + Grid  d == 2 * Grid
  <2>1. n \in Int /\ d \in Nat /\ d > 0 /\ Grid \in Int
    BY <1>2, <1>3, CanvasAssumption
  <2> HIDE DEF n, d
  <2>2. n \div d \in Int
    BY <2>1
  <2> DEFINE m == n \div d
  <2> HIDE DEF m
  <2>3. m * 2 * Grid \in Int
    BY <2>1, <2>2 DEF m
  <2> QED
    BY <2>3 DEF m, n, d
<1> HIDE DEF slot, lines
<1>7. square \in 0 .. max
  BY <1>2, <1>6, ClampFacts
<1>8. near # {} => best \in near
  <2> DEFINE D(k) == Distance(lines[k], at)
  <2>1. \A k \in 1 .. 3 : D(k) \in Int
    BY <1>2, <1>3, <1>5 DEF Distance
  <2> HIDE DEF D
  <2>2. near # {} => \E k \in near : \A j \in near : D(k) < D(j) \/ (D(k) = D(j) /\ k <= j)
    <3> DEFINE Better(k, j) == D(k) < D(j) \/ (D(k) = D(j) /\ k <= j)
    <3>1. near \in SUBSET {1, 2, 3}
      OBVIOUS
    <3>2. /\ \A k, j \in 1 .. 3 : Better(k, j) \/ Better(j, k)
          /\ \A k, j, l \in 1 .. 3 : Better(k, j) /\ Better(j, l) => Better(k, l)
      BY <2>1
    <3> HIDE DEF near, Better
    <3>3. /\ Better(1, 1) /\ Better(2, 2) /\ Better(3, 3)
          /\ Better(1, 2) \/ Better(2, 1)
          /\ Better(1, 3) \/ Better(3, 1)
          /\ Better(2, 3) \/ Better(3, 2)
          /\ Better(1, 2) /\ Better(2, 3) => Better(1, 3)
          /\ Better(2, 1) /\ Better(1, 3) => Better(2, 3)
          /\ Better(1, 3) /\ Better(3, 2) => Better(1, 2)
          /\ Better(3, 1) /\ Better(1, 2) => Better(3, 2)
          /\ Better(2, 3) /\ Better(3, 1) => Better(2, 1)
          /\ Better(3, 2) /\ Better(2, 1) => Better(3, 1)
      BY <3>2
    <3>4. near # {} => \E k \in near : \A j \in near : Better(k, j)
      BY <3>1, <3>3
    <3> QED
      BY <3>4 DEF Better
  <2> QED
    BY <2>2 DEF D
<1> HIDE DEF best, square
<1>9. SnapAxis(value, i, size, snap) =
        CASE ~snap -> at
          [] snap /\ near # {} -> lines[best]
          [] snap /\ near = {} /\ Distance(square, at) <= 2 * SnapDistance -> square
          [] OTHER -> at
  BY DEF SnapAxis, max, at, lines, best, slot, square
<1>10. near # {} => lines[best] \in 0 .. max
  BY <1>5, <1>8
<1> HIDE DEF near
<1>11. SnapAxis(value, i, size, snap) \in {at, lines[best], square}
       /\ (near = {} => SnapAxis(value, i, size, snap) \in {at, square})
  BY <1>9
<1> QED
  BY <1>3, <1>7, <1>10, <1>11 DEF max

-----------------------------------------------------------------------------
\* The edits of an entry.

LEMMA StoredTyped ==
  ASSUME NEW a \in SUBSET Edges
  PROVE  StoredAnchor(a) \in Optional(SUBSET Edges)
BY DEF StoredAnchor, Optional

LEMMA UnsetTyped == Unset \in Entry
BY DEF Unset, Entry, Optional

LEMMA CornerTyped ==
  ASSUME NEW a
  PROVE  CornerAnchor(a) \in SUBSET Edges
BY DEF CornerAnchor, Edges

LEMMA FittedTyped ==
  ASSUME NEW a \in SUBSET Edges, NEW pos \in Int \X Int, NEW size \in Size,
         NEW margins \in [Edges -> Int]
  PROVE  Fitted(a, pos, size, margins) \in [Edges -> Int]
<1>1. /\ size[1] \in Int /\ size[2] \in Int /\ Screen[1] \in Int /\ Screen[2] \in Int
      /\ pos[1] \in Int /\ pos[2] \in Int
  BY ScreenTyped DEF Size
<1>2. /\ Round(pos[1]) \in Int /\ Round(pos[2]) \in Int
      /\ Round(2 * Screen[1] - pos[1] - 2 * size[1]) \in Int
      /\ Round(2 * Screen[2] - pos[2] - 2 * size[2]) \in Int
  BY <1>1, RoundNear
<1> QED
  BY <1>2 DEF Fitted

LEMMA PlacementTyped ==
  ASSUME NEW entry \in Entry, NEW pos \in Int \X Int
  PROVE  PlacementAt(entry, pos) \in InRange
<1> DEFINE p == Resolved(entry)
           corner == CornerAnchor(p.anchor)
           margins == Fitted(corner, pos, SurfaceSize(entry), p.margins)
<1>1. p \in Placement /\ SurfaceSize(entry) \in Size /\ corner \in SUBSET Edges
  BY ResolvedTyped, RangePlaces, SizeTyped, CornerTyped
<1>2. margins \in [Edges -> Int]
  BY <1>1, FittedTyped DEF Placement
<1> HIDE DEF margins, corner
<1>3. \A e \in Edges : Clamp(margins[e], -MaxMargin, MaxMargin) \in Margin
  <2> DEFINE l == -MaxMargin
  <2>1. MaxMargin \in Int /\ l \in Int /\ l <= MaxMargin
    BY CanvasAssumption
  <2> HIDE DEF l
  <2>2. \A e \in Edges : Clamp(margins[e], l, MaxMargin) \in l .. MaxMargin
    BY <1>2, <2>1, ClampFacts
  <2> QED
    BY <2>2 DEF l, Margin
<1>4. PlacementAt(entry, pos) =
        [anchor |-> corner, margins |-> [e \in Edges |-> Clamp(margins[e], -MaxMargin, MaxMargin)]]
  BY DEF PlacementAt, margins, corner
<1> QED
  BY <1>1, <1>3, <1>4 DEF InRange

LEMMA FreeTyped ==
  ASSUME NEW pos \in Int \X Int
  PROVE  FreePlacement(pos) \in Placement
<1>1. Round(pos[1]) \in Int /\ Round(pos[2]) \in Int
  BY RoundNear
<1> QED
  BY <1>1 DEF FreePlacement, Placement, Edges

\* What a drag writes resolves to the placement it pushes: the anchor, and the
\* margins of its edges.
LEMMA AppliedResolves ==
  ASSUME NEW entry \in Entry, NEW p \in InRange
  PROVE  LET d == ApplyPosition(entry, p)
         IN  /\ d \in Entry /\ d.width = entry.width
             /\ Same(p, Resolved(d))
<1> DEFINE m == [e \in Edges |-> IF e \in p.anchor THEN {p.margins[e]} ELSE {}]
           s == StoredAnchor(p.anchor)
           d == [entry EXCEPT !.anchor = s, !.margins = m]
<1>1. ApplyPosition(entry, p) = d
  BY DEF ApplyPosition
<1>2. p.anchor \in SUBSET Edges /\ \A e \in Edges : p.margins[e] \in Margin
  BY DEF InRange
<1>3. s \in Optional(SUBSET Edges) /\ m \in [Edges -> Optional(Margin)]
  BY <1>2, StoredTyped DEF Optional
<1>4. \A e \in p.anchor : m[e] = {p.margins[e]}
  BY <1>2
<1>5. Get(s, Defaults.anchor) = p.anchor
  BY DEF StoredAnchor, Get
<1> HIDE DEF m, s
<1>6. d \in Entry /\ d.width = entry.width /\ d.anchor = s /\ d.margins = m
  BY <1>3 DEF Entry
<1> HIDE DEF d
<1>7. Resolved(d).anchor = p.anchor
  BY <1>5, <1>6 DEF Resolved
<1>8. \A e \in p.anchor : Resolved(d).margins[e] = p.margins[e]
  <2>1. \A e \in p.anchor : Resolved(d).margins[e] = Get(m[e], Defaults.margins[e])
    BY <1>2, <1>6 DEF Resolved
  <2> QED
    BY <1>4, <2>1, GetOne
<1> QED
  BY <1>1, <1>6, <1>7, <1>8 DEF Same

\* The form and the presets.
LEMMA FormTyped ==
  ASSUME NEW entry \in Entry
  PROVE  /\ \A a \in Anchors : SetAnchor(entry, a) \in Entry
         /\ \A e \in Edges, v \in {{}} \cup {{m} : m \in Margins} : SetMargin(entry, e, v) \in Entry
         /\ BottomCentre(entry) \in Entry /\ ClearPlacement(entry) \in Entry
<1>1. ASSUME NEW a \in Anchors
      PROVE  SetAnchor(entry, a) \in Entry
  <2> DEFINE b == IF a = {} THEN {"bottom"} ELSE a
  <2>1. b \in SUBSET Edges
    BY CanvasAssumption DEF Edges
  <2> HIDE DEF b
  <2>2. StoredAnchor(b) \in Optional(SUBSET Edges)
    BY <2>1, StoredTyped
  <2>3. SetAnchor(entry, a) = [entry EXCEPT !.anchor = StoredAnchor(b)]
    BY DEF SetAnchor, b
  <2> QED
    BY <2>2, <2>3 DEF Entry
<1>2. ASSUME NEW e \in Edges, NEW v \in {{}} \cup {{m} : m \in Margins}
      PROVE  SetMargin(entry, e, v) \in Entry
  <2> DEFINE w == IF v = {Defaults.margins[e]} THEN {} ELSE v
             m == [entry.margins EXCEPT ![e] = w]
  <2>1. w \in Optional(Margin)
    BY CanvasAssumption DEF Optional, Margin
  <2> HIDE DEF w
  <2>2. m \in [Edges -> Optional(Margin)]
    BY <2>1 DEF Entry
  <2>3. SetMargin(entry, e, v) = [entry EXCEPT !.margins = m]
    BY DEF SetMargin, w, Entry
  <2> HIDE DEF m
  <2> QED
    BY <2>2, <2>3 DEF Entry
<1>3. BottomCentre(entry) \in Entry
  <2> DEFINE m == [e \in Edges |-> IF e = "bottom" /\ BottomCentreMargin # Defaults.margins[e]
                                   THEN {BottomCentreMargin} ELSE {}]
             s == StoredAnchor({"bottom"})
  <2>1. m \in [Edges -> Optional(Margin)]
    BY CanvasAssumption DEF Optional, Margin
  <2>2. s \in Optional(SUBSET Edges)
    BY StoredTyped DEF Edges
  <2>3. BottomCentre(entry) = [entry EXCEPT !.anchor = s, !.margins = m]
    BY DEF BottomCentre
  <2> HIDE DEF m, s
  <2> QED
    BY <2>1, <2>2, <2>3 DEF Entry
<1>4. ClearPlacement(entry) \in Entry
  BY UnsetTyped DEF ClearPlacement, Entry
<1> QED
  BY <1>1, <1>2, <1>3, <1>4

LEMMA WidthTyped ==
  ASSUME NEW entry \in Entry, NEW w \in {{}} \cup {{v} : v \in Widths}
  PROVE  [entry EXCEPT !.width = w] \in Entry
BY DEF Entry, Optional

-----------------------------------------------------------------------------
\* Where a drag puts the pet.

\* No margin the screen asks for is beyond the largest there is: the screen
\* fits into it, and so does what of a surface is off the screen.
MarginsReach ==
  \A i \in 1 .. 2 : /\ Screen[i] <= MaxMargin
                    /\ \A entry \in Entry : SurfaceSize(entry)[i] <= Screen[i] + MaxMargin

\* One axis, pinned to its first edge or to its last.
LEMMA AxisLands ==
  ASSUME NEW s \in Nat, NEW w \in Nat, NEW p \in 0 .. Most(2 * (s - w), 0),
         s <= MaxMargin, w <= s + MaxMargin
  PROVE  LET first == Clamp(Round(p), -MaxMargin, MaxMargin)
             last  == Clamp(Round(2 * s - p - 2 * w), -MaxMargin, MaxMargin)
         IN  /\ Distance(2 * first, p) <= 1
             /\ Distance(2 * (s - last - w), p) <= 1
             /\ 2 * (s - w) >= 0 => /\ 2 * first \in -1 .. 2 * (s - w) + 1
                                    /\ 2 * (s - last - w) \in -1 .. 2 * (s - w) + 1
<1>1. MaxMargin \in Nat /\ p \in Int
  BY CanvasAssumption DEF Most
<1> DEFINE a == Round(p)  u == 2 * s - p - 2 * w  b == Round(u)
<1>2. /\ p >= 0 /\ p <= 2 * MaxMargin /\ u \in Int /\ u >= -2 * MaxMargin /\ u <= 2 * MaxMargin
      /\ 2 * (s - w) >= 0 => p <= 2 * (s - w)
  BY <1>1 DEF Most
<1>3. a \in Int /\ 2 * a - p \in -1 .. 1 /\ b \in Int /\ 2 * b - u \in -1 .. 1
  BY <1>1, <1>2, RoundNear
<1>4. a \in -MaxMargin .. MaxMargin /\ b \in -MaxMargin .. MaxMargin
  <2> DEFINE l == -MaxMargin
  <2>1. l \in Int /\ MaxMargin \in Int /\ 2 * l <= u /\ 2 * l <= p
        /\ u <= 2 * MaxMargin /\ p <= 2 * MaxMargin
    BY <1>1, <1>2
  <2> HIDE DEF l, a, b, u
  <2>2. l <= Round(p) /\ Round(p) <= MaxMargin
    BY <1>1, <2>1, RoundBetween
  <2>3. l <= Round(u) /\ Round(u) <= MaxMargin
    BY <1>2, <2>1, RoundBetween
  <2>4. a \in l .. MaxMargin /\ b \in l .. MaxMargin
    BY <1>3, <2>1, <2>2, <2>3 DEF a, b
  <2> QED
    BY <2>4 DEF l
<1>5. u = 2 * s - p - 2 * w
  OBVIOUS
<1> HIDE DEF a, u, b
<1>6. Clamp(a, -MaxMargin, MaxMargin) = a /\ Clamp(b, -MaxMargin, MaxMargin) = b
  <2> DEFINE l == -MaxMargin
  <2>1. l \in Int /\ MaxMargin \in Int /\ l <= MaxMargin
        /\ a \in l .. MaxMargin /\ b \in l .. MaxMargin
    BY <1>1, <1>4
  <2> HIDE DEF l
  <2>2. Clamp(a, l, MaxMargin) = a /\ Clamp(b, l, MaxMargin) = b
    BY <1>3, <2>1, ClampFacts
  <2> QED
    BY <2>2 DEF l
<1>7. /\ Distance(2 * a, p) <= 1
      /\ Distance(2 * (s - b - w), p) <= 1
      /\ 2 * (s - w) >= 0 => /\ 2 * a \in -1 .. 2 * (s - w) + 1
                             /\ 2 * (s - b - w) \in -1 .. 2 * (s - w) + 1
  BY <1>1, <1>2, <1>3, <1>5 DEF Distance
<1> QED
  BY <1>6, <1>7 DEF a, u, b

LEMMA PlacementLands ==
  ASSUME MarginsReach, NEW entry \in Entry, NEW pos \in Int \X Int,
         \A i \in 1 .. 2 : pos[i] \in 0 .. Most(2 * (Screen[i] - SurfaceSize(entry)[i]), 0)
  PROVE  LET p == PlacementAt(entry, pos)
             at == SurfacePosition(p.anchor, p.margins, SurfaceSize(entry))
         IN  /\ Near(at, pos)
             /\ \A i \in 1 .. 2 : LET room == 2 * (Screen[i] - SurfaceSize(entry)[i])
                                  IN  room >= 0 => at[i] \in -1 .. room + 1
<1> DEFINE size == SurfaceSize(entry)
           r == Resolved(entry)
           corner == CornerAnchor(r.anchor)
           fit == Fitted(corner, pos, size, r.margins)
           clamped == [e \in Edges |-> Clamp(fit[e], -MaxMargin, MaxMargin)]
           at == SurfacePosition(corner, clamped, size)
           First(i) == Clamp(Round(pos[i]), -MaxMargin, MaxMargin)
           Last(i)  == Clamp(Round(2 * Screen[i] - pos[i] - 2 * size[i]), -MaxMargin, MaxMargin)
<1>1. PlacementAt(entry, pos).anchor = corner /\ PlacementAt(entry, pos).margins = clamped
  BY DEF PlacementAt
<1>2. \A i \in 1 .. 2 : size[i] \in Nat /\ Screen[i] \in Nat
  BY SizeTyped, ScreenTyped DEF Size
<1>3. \A i \in 1 .. 2 :
        /\ Distance(2 * First(i), pos[i]) <= 1
        /\ Distance(2 * (Screen[i] - Last(i) - size[i]), pos[i]) <= 1
        /\ 2 * (Screen[i] - size[i]) >= 0 =>
             /\ 2 * First(i) \in -1 .. 2 * (Screen[i] - size[i]) + 1
             /\ 2 * (Screen[i] - Last(i) - size[i]) \in -1 .. 2 * (Screen[i] - size[i]) + 1
  BY <1>2, AxisLands DEF MarginsReach
<1>4. /\ {"left", "right", "top", "bottom"} \subseteq Edges
      /\ \/ "left" \in corner /\ "right" \notin corner
         \/ "right" \in corner /\ "left" \notin corner
      /\ \/ "top" \in corner /\ "bottom" \notin corner
         \/ "bottom" \in corner /\ "top" \notin corner
  BY DEF CornerAnchor, Edges
<1> HIDE DEF corner
<1>5. /\ "left" \in corner => clamped["left"] = First(1)
      /\ "right" \in corner => clamped["right"] = Last(1)
      /\ "top" \in corner => clamped["top"] = First(2)
      /\ "bottom" \in corner => clamped["bottom"] = Last(2)
  BY <1>4 DEF Fitted
<1> HIDE DEF clamped, First, Last, size
<1>6. /\ at[1] = IF "left" \in corner THEN 2 * First(1) ELSE 2 * (Screen[1] - Last(1) - size[1])
      /\ at[2] = IF "top" \in corner THEN 2 * First(2) ELSE 2 * (Screen[2] - Last(2) - size[2])
  BY <1>4, <1>5 DEF SurfacePosition
<1> HIDE DEF at
<1>7. \A i \in 1 .. 2 : at[i] = 2 * First(i) \/ at[i] = 2 * (Screen[i] - Last(i) - size[i])
  BY <1>6
<1>8. Near(at, pos)
  BY <1>3, <1>7 DEF Near
<1>9. \A i \in 1 .. 2 : 2 * (Screen[i] - size[i]) >= 0 =>
                          at[i] \in -1 .. 2 * (Screen[i] - size[i]) + 1
  BY <1>3, <1>7
<1> QED
  BY <1>1, <1>8, <1>9 DEF at, size

-----------------------------------------------------------------------------
\* The last word.

LEMMA SameFacts ==
  ASSUME NEW p, NEW q, NEW r
  PROVE  /\ Same(p, p)
         /\ Same(p, q) => Same(q, p)
         /\ Same(p, q) /\ Same(q, r) => Same(p, r)
BY DEF Same

\* Placements that are the same put a surface at the same position.
LEMMA SamePosition ==
  ASSUME NEW p, NEW q, NEW size, Same(p, q)
  PROVE  SurfacePosition(p.anchor, p.margins, size) = SurfacePosition(q.anchor, q.margins, size)
BY DEF Same, SurfacePosition

LEMMA SaysSame ==
  ASSUME NEW q, NEW pet, NEW s, NEW r, NEW t, Says(q, pet, s, r), Same(r, t)
  PROVE  Says(q, pet, s, t)
BY SameFacts DEF Says

LEMMA SaysAppend ==
  ASSUME NEW q \in Seq(Message), NEW m \in Message, NEW pet, NEW s, NEW r,
         \/ m.op = "SetPlacement" /\ Same(m.placement, r)
         \/ m.op # "SetPlacement" /\ Says(q, pet, s, r)
  PROVE  Says(Append(q, m), pet, s, r)
<1> DEFINE n == Len(q)  t == Append(q, m)
<1>1. /\ n \in Nat /\ Len(t) = n + 1 /\ t[n + 1] = m
      /\ \A i \in 1 .. n : t[i] = q[i]
  OBVIOUS
<1> HIDE DEF n, t
<1>2. CASE m.op = "SetPlacement" /\ Same(m.placement, r)
  <2>1. n + 1 \in 0 .. n + 1 /\ n + 1 # 0 /\ (n + 1) + 1 .. n + 1 = {}
    BY <1>1
  <2> QED
    BY <1>1, <1>2, <2>1 DEF Says, t
<1>3. CASE m.op # "SetPlacement" /\ Says(q, pet, s, r)
  <2>1. PICK k \in 0 .. n :
          /\ \A j \in k + 1 .. n : q[j].op # "SetPlacement"
          /\ k = 0 /\ pet => Same(s, r)
          /\ k # 0 => q[k].op = "SetPlacement" /\ Same(q[k].placement, r)
    BY <1>3 DEF Says, n
  <2>2. k \in 0 .. n + 1 /\ (k # 0 => t[k] = q[k])
    BY <1>1
  <2>3. ASSUME NEW j \in k + 1 .. n + 1
        PROVE  t[j].op # "SetPlacement"
    <3>1. j = n + 1 \/ (j \in k + 1 .. n /\ t[j] = q[j])
      BY <1>1
    <3> QED
      BY <1>1, <1>3, <2>1, <3>1
  <2> QED
    BY <1>1, <2>1, <2>2, <2>3 DEF Says, t
<1> QED
  BY <1>2, <1>3

LEMMA SaysTail ==
  ASSUME NEW q \in Seq(Message), q # <<>>, NEW pet, NEW run, NEW s, NEW r, NEW t,
         Says(q, pet, s, r),
         \/ Head(q).op = "SetPlacement" /\ t = Head(q).placement
         \/ Head(q).op # "SetPlacement" /\ t = s /\ run = pet
         \/ ~run
         \/ Same(t, r)
         \/ \E i \in 2 .. Len(q) : q[i].op = "SetPlacement"
  PROVE  Says(Tail(q), run, t, r)
<1> DEFINE n == Len(q)  u == Tail(q)
<1>1. /\ n \in Nat /\ n > 0 /\ Len(u) = n - 1 /\ Head(q) = q[1]
      /\ \A i \in 1 .. n - 1 : u[i] = q[i + 1]
  OBVIOUS
<1> HIDE DEF n, u
<1>2. PICK k \in 0 .. n :
        /\ \A j \in k + 1 .. n : q[j].op # "SetPlacement"
        /\ k = 0 /\ pet => Same(s, r)
        /\ k # 0 => q[k].op = "SetPlacement" /\ Same(q[k].placement, r)
  BY DEF Says, n
<1>3. CASE k > 1
  <2>1. k - 1 \in 0 .. n - 1 /\ k - 1 # 0 /\ u[k - 1] = q[k]
    BY <1>1, <1>3
  <2>2. ASSUME NEW j \in (k - 1) + 1 .. n - 1
        PROVE  u[j].op # "SetPlacement"
    <3>1. u[j] = q[j + 1] /\ j + 1 \in k + 1 .. n
      BY <1>1, <1>3
    <3> QED
      BY <1>2, <3>1
  <2>3. u[k - 1].op = "SetPlacement" /\ Same(u[k - 1].placement, r)
    BY <1>2, <1>3, <2>1
  <2> DEFINE l == k - 1
  <2>4. l \in 0 .. Len(u) /\ l # 0 /\ \A j \in l + 1 .. Len(u) : u[j].op # "SetPlacement"
    BY <1>1, <2>1, <2>2
  <2> HIDE DEF l
  <2> QED
    BY <2>3, <2>4 DEF Says, u, l
<1>4. CASE k \in {0, 1}
  <2>1. ASSUME NEW j \in 1 .. n - 1
        PROVE  u[j].op # "SetPlacement"
    <3>1. u[j] = q[j + 1] /\ j + 1 \in k + 1 .. n
      BY <1>1, <1>4
    <3> QED
      BY <1>2, <3>1
  <2>2. ~ \E i \in 2 .. n : q[i].op = "SetPlacement"
    <3>1. \A i \in 2 .. n : i \in k + 1 .. n
      BY <1>1, <1>4
    <3> QED
      BY <1>2, <3>1
  <2>3. run => Same(t, r)
    <3>1. CASE k = 0
      <4>1. q[1].op # "SetPlacement" /\ (pet => Same(s, r))
        BY <1>1, <1>2, <3>1
      <4> QED
        BY <1>1, <2>2, <4>1 DEF n
    <3>2. CASE k = 1
      BY <1>1, <1>2, <2>2, <3>2 DEF n
    <3> QED
      BY <1>4, <3>1, <3>2
  <2>4. 0 \in 0 .. n - 1 /\ 0 + 1 = 1
    BY <1>1
  <2> QED
    BY <1>1, <2>1, <2>3, <2>4 DEF Says, u
<1> QED
  BY <1>2, <1>3, <1>4

LEMMA SaysNothing ==
  ASSUME NEW pet, NEW s, NEW r
  PROVE  Says(<<>>, pet, s, r) <=> (pet => Same(s, r))
<1>1. Len(<<>>) = 0 /\ 0 .. 0 = {0} /\ 0 + 1 .. 0 = {}
  OBVIOUS
<1> QED
  BY <1>1 DEF Says

\* A push.
LEMMA PushSays ==
  ASSUME Typed, Sent, NEW p \in InRange, Push(p), Same(p, Resolved(draft')),
         UNCHANGED <<client, host>>
  PROVE  /\ lastSent' \in Optional(InRange) /\ toHost' \in Seq(Message)
         /\ Sent'
<1> DEFINE m == [op |-> "SetPlacement", placement |-> p]
           new == lastSent # {p}
<1>1. /\ lastSent' = {p}
      /\ toHost' = IF new /\ client.up THEN Append(toHost, m) ELSE toHost
      /\ fresh' = CASE ~client.up -> "other" [] client.up /\ new -> "sent"
                    [] OTHER -> IF fresh = "sent" THEN "sent" ELSE "kept"
  BY DEF Push
<1>2. m \in Message /\ m.op = "SetPlacement" /\ m.placement = p
  BY DEF Message
<1>3. toHost \in Seq(Message) /\ (client.up => host.up)
  BY DEF Typed, Sent
<1> HIDE DEF m, new
<1>4. lastSent' \in Optional(InRange) /\ toHost' \in Seq(Message)
  BY <1>1, <1>2, <1>3 DEF Optional
<1>5. ASSUME fresh' = "sent"
      PROVE  host.up /\ Says(toHost', host.pet, host.surface.placement, Resolved(draft'))
  <2>1. CASE client.up /\ new
    <3>1. toHost' = Append(toHost, m)
      BY <1>1, <2>1
    <3> QED
      BY <1>2, <1>3, <2>1, <3>1, SaysAppend
  <2>2. CASE ~(client.up /\ new)
    <3>1. client.up /\ fresh = "sent" /\ lastSent = {p} /\ toHost' = toHost
      BY <1>1, <1>5, <2>2 DEF new
    <3>2. Says(toHost, host.pet, host.surface.placement, Resolved(draft)) /\ Same(p, Resolved(draft))
      BY <3>1 DEF Sent
    <3>3. Same(Resolved(draft), Resolved(draft'))
      BY <3>2, SameFacts
    <3> QED
      BY <1>3, <3>1, <3>2, <3>3, SaysSame
  <2> QED
    BY <2>1, <2>2
<1>6. Sent'
  BY <1>1, <1>3, <1>5 DEF Sent
<1> QED
  BY <1>4, <1>6

\* A drag of the box.
LEMMA DragBoxSound ==
  ASSUME Typed, Sent, DragBox
  PROVE  Typed' /\ Sent' /\ (MarginsReach => DragLands')
<1>1. PICK pos \in Aims, snap \in BOOLEAN :
        LET to == SnapMove(pos, SurfaceSize(draft), snap)
            placement == PlacementAt(draft, to)
        IN  draft' = ApplyPosition(draft, placement) /\ Push(placement) /\ aim' = {to}
  BY DEF DragBox
<1>2. UNCHANGED <<file, saved, client, toClient, host>>
  BY DEF DragBox
<1> DEFINE size == SurfaceSize(draft)
           to == SnapMove(pos, size, snap)
           p == PlacementAt(draft, to)
<1>3. draft \in Entry /\ size \in Size
  BY SizeTyped DEF Typed
<1>4. pos[1] \in Int /\ pos[2] \in Int /\ \A i \in 1 .. 2 : Screen[i] \in Int /\ size[i] \in Int
  BY <1>3, CanvasAssumption, ScreenTyped DEF Size
<1>5. /\ to[1] \in 0 .. Most(2 * (Screen[1] - size[1]), 0)
      /\ to[2] \in 0 .. Most(2 * (Screen[2] - size[2]), 0)
      /\ to = <<to[1], to[2]>>
  BY <1>3, <1>4, SnapAxisRange DEF SnapMove
<1>6. draft' = ApplyPosition(draft, p) /\ Push(p) /\ aim' = {to}
  BY <1>1
<1> HIDE DEF to, size
<1>7. to \in Int \X Int
  <2>1. Most(2 * (Screen[1] - size[1]), 0) \in Int /\ Most(2 * (Screen[2] - size[2]), 0) \in Int
    BY <1>4 DEF Most
  <2>2. to[1] \in Int /\ to[2] \in Int
    BY <1>5, <2>1
  <2> QED
    BY <1>5, <2>2
<1>8. p \in InRange
  BY <1>3, <1>7, PlacementTyped
<1>9. draft' \in Entry /\ draft'.width = draft.width /\ Same(p, Resolved(draft'))
  BY <1>3, <1>6, <1>8, AppliedResolves
<1>10. lastSent' \in Optional(InRange) /\ toHost' \in Seq(Message) /\ Sent'
  <2> HIDE DEF p
  <2> QED
    BY <1>2, <1>6, <1>8, <1>9, PushSays
<1>11. Typed'
  BY <1>2, <1>9, <1>10 DEF Typed
<1>12. ASSUME MarginsReach
       PROVE  DragLands'
  <2> DEFINE at == SurfacePosition(p.anchor, p.margins, size)
             r == Resolved(draft')
  <2>1. /\ Near(at, to)
        /\ \A i \in 1 .. 2 : 2 * (Screen[i] - size[i]) >= 0 =>
                               at[i] \in -1 .. 2 * (Screen[i] - size[i]) + 1
    <3>1. \A i \in 1 .. 2 : to[i] \in 0 .. Most(2 * (Screen[i] - SurfaceSize(draft)[i]), 0)
      BY <1>5 DEF size
    <3> QED
      BY <1>3, <1>7, <1>12, <3>1, PlacementLands DEF size
  <2>2. SurfaceSize(draft') = size
    BY <1>9 DEF SurfaceSize, size
  <2>3. PetRect(draft') = at
    <3>1. PetRect(draft') = SurfacePosition(r.anchor, r.margins, size)
      BY <2>2 DEF PetRect
    <3> HIDE DEF p, r
    <3> QED
      BY <1>9, <3>1, SamePosition DEF r
  <2>4. Get(aim', 0) = to
    BY <1>6, GetOne
  <2> HIDE DEF at, p
  <2>5. /\ Near(PetRect(draft'), Get(aim', 0))
        /\ \A i \in 1 .. 2 : 2 * (Screen[i] - SurfaceSize(draft')[i]) >= 0 =>
             PetRect(draft')[i] \in -1 .. 2 * (Screen[i] - SurfaceSize(draft')[i]) + 1
    BY <2>1, <2>2, <2>3, <2>4
  <2> QED
    BY <2>5 DEF DragLands
<1> QED
  BY <1>10, <1>11, <1>12

\* The form and the presets.
LEMMA FormSound ==
  ASSUME Typed, Sent, TickAnchor \/ TypeMargin \/ PresetBottomCentre \/ PresetReset
  PROVE  Typed' /\ Sent' /\ aim' = {}
<1>1. draft \in Entry
  BY DEF Typed
<1>2. \E entry \in Entry : EditForm(entry)
  <2>1. CASE TickAnchor
    BY <1>1, <2>1, FormTyped DEF TickAnchor
  <2>2. CASE TypeMargin
    BY <1>1, <2>2, FormTyped DEF TypeMargin
  <2>3. CASE PresetBottomCentre
    BY <1>1, <2>3, FormTyped DEF PresetBottomCentre
  <2>4. CASE PresetReset
    BY <1>1, <2>4, FormTyped DEF PresetReset
  <2> QED
    BY <2>1, <2>2, <2>3, <2>4
<1>3. PICK entry \in Entry : EditForm(entry)
  BY <1>2
<1>4. /\ draft' = entry /\ Push(Resolved(entry)) /\ aim' = {}
      /\ UNCHANGED <<file, saved, client, toClient, host>>
  BY <1>3 DEF EditForm
<1>5. Resolved(entry) \in InRange /\ Same(Resolved(entry), Resolved(draft'))
  BY <1>4, ResolvedTyped, SameFacts
<1>6. lastSent' \in Optional(InRange) /\ toHost' \in Seq(Message) /\ Sent'
  BY <1>4, <1>5, PushSays
<1> QED
  BY <1>4, <1>6 DEF Typed

LEMMA EditWidthSound ==
  ASSUME Typed, Sent, EditWidth
  PROVE  Typed' /\ Sent' /\ aim' = {}
<1>1. PICK w \in {{}} \cup {{v} : v \in Widths} : draft' = [draft EXCEPT !.width = w]
  BY DEF EditWidth
<1>2. UNCHANGED <<file, saved, lastSent, client, toHost, toClient, host, fresh>> /\ aim' = {}
  BY DEF EditWidth
<1>3. draft' \in Entry
  BY <1>1, WidthTyped DEF Typed
<1>4. Resolved(draft') = Resolved(draft)
  <2>1. draft'.anchor = draft.anchor /\ draft'.margins = draft.margins
    BY <1>1 DEF Typed, Entry
  <2> QED
    BY <2>1 DEF Resolved
<1> QED
  BY <1>2, <1>3, <1>4 DEF Typed, Sent

\* A request that places nothing leaves the last word.
LEMMA RequestSound ==
  ASSUME Typed, Sent, NEW m \in Message, m.op # "SetPlacement",
         toHost' \in {toHost, Append(toHost, m)}
  PROVE  /\ toHost' \in Seq(Message)
         /\ fresh = "sent" =>
              Says(toHost', host.pet, host.surface.placement, Resolved(draft))
<1>1. toHost \in Seq(Message)
  BY DEF Typed
<1>2. Append(toHost, m) \in Seq(Message)
  BY <1>1
<1>3. CASE toHost' = toHost
  BY <1>1, <1>3 DEF Sent
<1>4. CASE toHost' = Append(toHost, m)
  BY <1>1, <1>2, <1>4, SaysAppend DEF Sent
<1> QED
  BY <1>3, <1>4

LEMMA ReloadMessage ==
  /\ [op |-> "Reload"] \in Message /\ [op |-> "Reload"].op # "SetPlacement"
  /\ [op |-> "ListPets"] \in Message /\ [op |-> "ListPets"].op # "SetPlacement"
BY DEF Message

LEMMA SaveSound ==
  ASSUME Typed, Sent, Save
  PROVE  Typed' /\ Sent'
<1>1. /\ file' = draft /\ saved' = TRUE
      /\ toHost' \in {toHost, Append(toHost, [op |-> "Reload"])}
      /\ UNCHANGED <<draft, lastSent, client, toClient, host, fresh>>
  BY DEF Save, AskReload
<1>2. /\ toHost' \in Seq(Message)
      /\ fresh = "sent" => Says(toHost', host.pet, host.surface.placement, Resolved(draft))
  BY <1>1, ReloadMessage, RequestSound
<1>3. Typed'
  BY <1>1, <1>2 DEF Typed
<1>4. Sent'
  BY <1>1, <1>2 DEF Sent
<1> QED
  BY <1>3, <1>4

LEMMA ReloadFromDiskSound ==
  ASSUME Typed, Sent, ReloadFromDisk
  PROVE  Typed' /\ Sent' /\ aim' = {}
<1>1. /\ draft' = file /\ aim' = {} /\ fresh' = "other"
      /\ toHost' \in {toHost, Append(toHost, [op |-> "Reload"])}
      /\ UNCHANGED <<file, saved, lastSent, client, toClient, host>>
  BY DEF ReloadFromDisk, AskReload
<1>2. toHost' \in Seq(Message)
  BY <1>1, ReloadMessage, RequestSound
<1> QED
  BY <1>1, <1>2 DEF Typed, Sent

LEMMA RefreshSound ==
  ASSUME Typed, Sent, Refresh
  PROVE  Typed' /\ Sent'
<1>1. /\ toHost' = Append(toHost, [op |-> "ListPets"])
      /\ UNCHANGED <<draft, file, saved, lastSent, client, toClient, host, fresh>>
  BY DEF Refresh
<1>2. /\ toHost' \in Seq(Message)
      /\ fresh = "sent" => Says(toHost', host.pet, host.surface.placement, Resolved(draft))
  BY <1>1, ReloadMessage, RequestSound
<1>3. Typed'
  BY <1>1, <1>2 DEF Typed
<1>4. Sent'
  BY <1>1, <1>2 DEF Sent
<1> QED
  BY <1>3, <1>4

\* What the host broadcasts is a rectangle.
LEMMA RoundedTyped ==
  ASSUME NEW s \in SurfaceType
  PROVE  Rounded(s) \in Int \X Int
<1>1. SurfacePosition(s.placement.anchor, s.placement.margins, s.size) \in Int \X Int
  BY PositionTyped DEF SurfaceType
<1> QED
  BY <1>1, RoundNear DEF Rounded

LEMMA ToldTyped ==
  ASSUME Typed, NEW h \in [up : BOOLEAN, pet : BOOLEAN, surface : SurfaceType],
         NEW op \in {"PetsChanged", "PetMoved"}, Tell(op, h)
  PROVE  toClient' \in Seq(Report)
<1> DEFINE m == [op |-> op, rect |-> Told(h)]
<1>1. Told(h) \in Optional(Int \X Int)
  BY RoundedTyped DEF Told, Optional
<1>2. m \in Report
  BY <1>1 DEF Report
<1>3. toClient' \in {toClient, Append(toClient, m)}
  BY DEF Tell
<1>4. toClient \in Seq(Report)
  BY DEF Typed
<1> HIDE DEF m
<1> QED
  BY <1>2, <1>3, <1>4

LEMMA SurfaceTyped ==
  ASSUME NEW entry \in Entry
  PROVE  /\ Surface(entry) \in SurfaceType
         /\ Surface(entry).placement = Resolved(entry)
BY ResolvedTyped, RangePlaces, SizeTyped DEF Surface, SurfaceType

\* A placement that is pushed is in range: only a host that does not run the
\* pet refuses it.
LEMMA ControlSetPlacementSound ==
  ASSUME Typed, NEW p \in InRange, ControlSetPlacement(p)
  PROVE  /\ host' \in [up : BOOLEAN, pet : BOOLEAN, surface : SurfaceType]
         /\ toClient' \in Seq(Report)
         /\ host'.up = host.up /\ fresh' = fresh
         /\ host'.pet => host'.surface.placement = p
<1>1. Legal(p)
  BY DEF Legal, InRange, Margin
<1>2. host \in [up : BOOLEAN, pet : BOOLEAN, surface : SurfaceType]
  BY DEF Typed
<1>3. CASE ~host.pet /\ UNCHANGED <<host, toClient, fresh>>
  BY <1>3 DEF Typed
<1>4. CASE /\ host' = [host EXCEPT !.surface.placement = p]
           /\ Tell("PetsChanged", host') /\ UNCHANGED fresh
  <2>1. p \in Placement
    BY RangePlaces
  <2>2. /\ host' \in [up : BOOLEAN, pet : BOOLEAN, surface : SurfaceType]
        /\ host'.up = host.up /\ host'.surface.placement = p
    BY <1>2, <1>4, <2>1 DEF SurfaceType
  <2> QED
    BY <1>4, <2>2, ToldTyped
<1> QED
  BY <1>1, <1>3, <1>4 DEF ControlSetPlacement

LEMMA ControlReloadSound ==
  ASSUME Typed, ControlReload
  PROVE  /\ host' \in [up : BOOLEAN, pet : BOOLEAN, surface : SurfaceType]
         /\ toClient' \in Seq(Report)
         /\ host'.up = host.up /\ host'.surface.placement = Resolved(file)
         /\ fresh' = "sent" =>
              /\ fresh = "sent"
              /\ \/ Resolved(file) = Resolved(draft)
                 \/ \E i \in 2 .. Len(toHost) : toHost[i].op = "SetPlacement"
<1>1. /\ host' = [host EXCEPT !.pet = saved, !.surface = Surface(file)]
      /\ Tell("PetsChanged", host')
  BY DEF ControlReload
<1>2. /\ host' \in [up : BOOLEAN, pet : BOOLEAN, surface : SurfaceType]
      /\ host'.up = host.up /\ host'.surface.placement = Resolved(file)
  BY <1>1, SurfaceTyped DEF Typed
<1>3. toClient' \in Seq(Report)
  BY <1>1, <1>2, ToldTyped
<1> QED
  BY <1>2, <1>3 DEF ControlReload

LEMMA HandleControlSound ==
  ASSUME Typed, Sent, HandleControl
  PROVE  Typed' /\ Sent'
<1> DEFINE m == Head(toHost)
           later == \E i \in 2 .. Len(toHost) : toHost[i].op = "SetPlacement"
<1>1. /\ host.up /\ toHost # <<>> /\ toHost' = Tail(toHost)
      /\ UNCHANGED <<draft, file, saved, lastSent, client>>
      /\ \/ m.op = "SetPlacement" /\ ControlSetPlacement(m.placement)
         \/ m.op = "Reload" /\ ControlReload
         \/ m.op = "ListPets" /\ Tell("PetsChanged", host) /\ UNCHANGED <<host, fresh>>
  BY DEF HandleControl
<1>2. toHost \in Seq(Message)
  BY DEF Typed
<1>3. m \in Message /\ toHost' \in Seq(Message)
  BY <1>1, <1>2
<1> HIDE DEF m, later
<1>4. /\ host' \in [up : BOOLEAN, pet : BOOLEAN, surface : SurfaceType]
      /\ toClient' \in Seq(Report)
      /\ host'.up
      /\ fresh' = "sent" =>
           /\ fresh = "sent"
           /\ \/ m.op = "SetPlacement" /\ (host'.pet => host'.surface.placement = m.placement)
              \/ Same(host'.surface.placement, Resolved(draft))
              \/ later
              \/ m.op # "SetPlacement" /\ host' = host
  <2>1. CASE m.op = "SetPlacement" /\ ControlSetPlacement(m.placement)
    <3>1. m.placement \in InRange
      BY <1>3, <2>1 DEF Message
    <3> QED
      BY <1>1, <2>1, <3>1, ControlSetPlacementSound
  <2>2. CASE m.op = "Reload" /\ ControlReload
    BY <1>1, <2>2, ControlReloadSound, SameFacts DEF later
  <2>3. CASE m.op = "ListPets" /\ Tell("PetsChanged", host) /\ UNCHANGED <<host, fresh>>
    BY <1>1, <2>3, ToldTyped DEF Typed
  <2> QED
    BY <1>1, <2>1, <2>2, <2>3
<1>5. Typed'
  BY <1>1, <1>3, <1>4 DEF Typed
<1>6. ASSUME fresh' = "sent"
      PROVE  Says(toHost', host'.pet, host'.surface.placement, Resolved(draft))
  <2>1. Says(toHost, host.pet, host.surface.placement, Resolved(draft))
    BY <1>4, <1>6 DEF Sent
  <2> QED
    BY <1>1, <1>2, <1>4, <1>6, <2>1, SaysTail DEF m, later
<1>7. Sent'
  BY <1>1, <1>4, <1>6 DEF Sent
<1> QED
  BY <1>5, <1>7

LEMMA DesktopDragSound ==
  ASSUME Typed, Sent, DesktopDrag
  PROVE  Typed' /\ Sent'
<1>1. PICK pos \in Aims : host' = [host EXCEPT !.surface.placement = FreePlacement(pos)]
  BY DEF DesktopDrag
<1>2. /\ host.up /\ fresh' = "other" /\ UNCHANGED <<draft, file, saved, lastSent, client, toHost>>
      /\ Tell("PetMoved", host') \/ UNCHANGED toClient
  BY DEF DesktopDrag
<1>3. FreePlacement(pos) \in Placement
  BY CanvasAssumption, FreeTyped
<1>4. host' \in [up : BOOLEAN, pet : BOOLEAN, surface : SurfaceType] /\ host'.up
  BY <1>1, <1>2, <1>3 DEF Typed, SurfaceType
<1>5. toClient' \in Seq(Report)
  BY <1>2, <1>4, ToldTyped DEF Typed
<1> QED
  BY <1>2, <1>4, <1>5 DEF Typed, Sent

\* The link breaks, with the host or without it.
LEMMA LoseLinkSound ==
  ASSUME Typed, Sent, NEW up \in BOOLEAN, LoseLink(up)
  PROVE  Typed' /\ Sent'
<1>1. PICK n \in 0 .. Len(toHost) : toHost' = IF up THEN SubSeq(toHost, 1, n) ELSE <<>>
  BY DEF LoseLink
<1>2. /\ client.up /\ client' = [client EXCEPT !.up = FALSE] /\ toClient' = <<>>
      /\ host' = [host EXCEPT !.up = up]
      /\ fresh' = IF up /\ toHost = <<>> THEN fresh ELSE "other"
      /\ UNCHANGED <<draft, file, saved, lastSent>>
  BY DEF LoseLink
<1>3. toHost' \in Seq(Message) /\ (toHost = <<>> => toHost' = <<>>)
  <2>1. CASE up
    <3>1. toHost \in Seq(Message) /\ toHost' = SubSeq(toHost, 1, n)
      BY <1>1, <2>1 DEF Typed
    <3>2. toHost' \in Seq(Message)
      BY <1>1, <3>1
    <3>3. toHost = <<>> => toHost' = <<>>
      BY <1>1, <3>1
    <3> QED
      BY <3>2, <3>3
  <2>2. CASE ~up
    BY <1>1, <2>2
  <2> QED
    BY <2>1, <2>2
<1>4. /\ client' \in [up : BOOLEAN, rect : Optional(Int \X Int)] /\ ~client'.up
      /\ host' \in [up : BOOLEAN, pet : BOOLEAN, surface : SurfaceType] /\ host'.up = up
      /\ host'.pet = host.pet /\ host'.surface = host.surface
  BY <1>2 DEF Typed
<1>5. Typed'
  BY <1>2, <1>3, <1>4 DEF Typed
<1>6. Sent'
  BY <1>2, <1>3, <1>4 DEF Sent
<1> QED
  BY <1>5, <1>6

LEMMA HostStartsSound ==
  ASSUME Typed, Sent, HostStarts
  PROVE  Typed' /\ Sent'
<1>1. /\ ~host.up /\ host' = [up |-> TRUE, pet |-> saved, surface |-> Surface(file)]
      /\ UNCHANGED <<draft, file, saved, lastSent, client, toHost, toClient, fresh>>
  BY DEF HostStarts
<1>2. host' \in [up : BOOLEAN, pet : BOOLEAN, surface : SurfaceType] /\ host'.up
  BY <1>1, SurfaceTyped DEF Typed
<1> QED
  BY <1>1, <1>2 DEF Typed, Sent

LEMMA ConnectSound ==
  ASSUME Typed, Sent, Connect
  PROVE  Typed' /\ Sent'
<1>1. /\ host.up /\ client' = [client EXCEPT !.up = TRUE]
      /\ toHost' = Append(toHost, [op |-> "ListPets"])
      /\ UNCHANGED <<draft, file, saved, lastSent, toClient, host, fresh>>
  BY DEF Connect
<1>2. /\ toHost' \in Seq(Message)
      /\ fresh = "sent" => Says(toHost', host.pet, host.surface.placement, Resolved(draft))
  BY <1>1, ReloadMessage, RequestSound
<1>3. client' \in [up : BOOLEAN, rect : Optional(Int \X Int)]
  BY <1>1 DEF Typed
<1>4. Typed'
  BY <1>1, <1>2, <1>3 DEF Typed
<1>5. Sent'
  BY <1>1, <1>2 DEF Sent
<1> QED
  BY <1>4, <1>5

LEMMA ReceiveSound ==
  ASSUME Typed, Sent, Receive
  PROVE  Typed' /\ Sent'
<1> DEFINE m == Head(toClient)
<1>1. /\ client.up /\ toClient # <<>> /\ toClient' = Tail(toClient)
      /\ client' \in {client, [client EXCEPT !.rect = m.rect]}
      /\ UNCHANGED <<draft, file, saved, lastSent, toHost, host, fresh>>
  BY DEF Receive
<1>2. toClient' \in Seq(Report) /\ m \in Report
  BY <1>1 DEF Typed
<1> HIDE DEF m
<1>3. m.rect \in Optional(Int \X Int)
  BY <1>2 DEF Report
<1>4. client' \in [up : BOOLEAN, rect : Optional(Int \X Int)] /\ client'.up = client.up
  BY <1>1, <1>3 DEF Typed
<1> QED
  BY <1>1, <1>2, <1>4 DEF Typed, Sent

-----------------------------------------------------------------------------
\* The invariant.

IInv == Typed /\ Sent /\ (MarginsReach => DragLands)

LEMMA InitSound ==
  ASSUME Init
  PROVE  IInv
<1>1. /\ draft = Unset /\ file = Unset /\ saved \in BOOLEAN /\ lastSent = {} /\ client = [up |-> FALSE, rect |-> {}]
      /\ toHost = <<>> /\ toClient = <<>> /\ host = [up |-> TRUE, pet |-> saved, surface |-> Surface(Unset)]
      /\ aim = {} /\ fresh = "other"
  BY DEF Init
<1>2. Surface(Unset) \in SurfaceType /\ Unset \in Entry
  BY UnsetTyped, SurfaceTyped
<1>3. Typed
  BY <1>1, <1>2 DEF Typed, Optional
<1> QED
  BY <1>1, <1>3 DEF IInv, Sent, DragLands

\* A step that leaves the drag and the draft leaves where the pet is.
LEMMA DragStays ==
  ASSUME UNCHANGED <<draft, aim>>, DragLands
  PROVE  DragLands'
BY DEF DragLands

LEMMA NextSound ==
  ASSUME IInv, [Next]_vars
  PROVE  IInv'
<1>0. Typed /\ Sent /\ (MarginsReach => DragLands)
  BY DEF IInv
<1>1. CASE DragBox
  BY <1>0, <1>1, DragBoxSound DEF IInv
<1>2. CASE TickAnchor \/ TypeMargin \/ PresetBottomCentre \/ PresetReset \/ EditWidth
             \/ ReloadFromDisk
  <2>1. Typed' /\ Sent' /\ aim' = {}
    BY <1>0, <1>2, FormSound, EditWidthSound, ReloadFromDiskSound
  <2> QED
    BY <2>1 DEF IInv, DragLands
<1>3. CASE Save \/ Refresh \/ HandleControl \/ DesktopDrag \/ Disconnect \/ HostQuits \/ HostStarts
             \/ Connect \/ Receive
  <2>1. Typed' /\ Sent'
    BY <1>0, <1>3, SaveSound, RefreshSound, HandleControlSound, DesktopDragSound, LoseLinkSound,
       HostStartsSound, ConnectSound, ReceiveSound DEF Disconnect, HostQuits
  <2>2. UNCHANGED <<draft, aim>>
    BY <1>3 DEF Save, Refresh, HandleControl, DesktopDrag, Disconnect, HostQuits, LoseLink,
                HostStarts, Connect, Receive
  <2> QED
    BY <1>0, <2>1, <2>2, DragStays DEF IInv
<1>4. CASE GrabBox \/ DropBox \/ UNCHANGED vars
  <2>1. UNCHANGED <<draft, file, saved, lastSent, client, toHost, toClient, host, aim, fresh>>
    BY <1>4 DEF GrabBox, DropBox, vars
  <2> QED
    BY <1>0, <2>1, DragStays DEF IInv, Typed, Sent
<1> QED
  BY <1>1, <1>2, <1>3, <1>4 DEF Next

\* Whatever is edited, dragged, saved, lost and restarted, the last word on the
\* placement is the draft's for as long as the page's push stands (canvas.rs
\* should_send, app.rs control_set_placement and apply_config).
THEOREM CanvasInvariant == Spec => []IInv
<1>1. Init => IInv
  BY InitSound
<1>2. IInv /\ [Next]_vars => IInv'
  BY NextSound
<1> QED
  BY <1>1, <1>2, PTL DEF Spec

\* A canvas drag puts the pet where it pointed, to half a pixel (canvas.rs
\* snap_move, margins_for_position, apply_position), if the margins reach.
THEOREM DragLandsHolds == ASSUME MarginsReach PROVE Spec => []DragLands
<1>1. IInv => DragLands
  BY DEF IInv
<1> QED
  BY <1>1, CanvasInvariant, PTL

\* Once the host has handled everything, the placement the page sent last is the
\* one on the desktop, whatever was saved and reloaded since.
THEOREM DesktopFollowsHolds == Spec => []DesktopFollows
<1>1. ASSUME IInv
      PROVE  DesktopFollows
  <2> SUFFICES ASSUME fresh = "sent", host.pet, toHost = <<>>
               PROVE  HostRect = SurfacePosition(Resolved(draft).anchor, Resolved(draft).margins,
                                                 host.surface.size)
    BY DEF DesktopFollows
  <2>1. Same(host.surface.placement, Resolved(draft))
    BY <1>1, SaysNothing DEF IInv, Sent
  <2> QED
    BY <2>1, SamePosition DEF HostRect
<1> QED
  BY <1>1, CanvasInvariant, PTL
=============================================================================

------------------------------- MODULE Canvas -------------------------------
(***************************************************************************)
(* Placing one pet: the layout page of the settings window (canvas.rs,     *)
(* ui/layout.rs, app.rs), the placement arithmetic it shares with the host *)
(* (placement.rs, pet.rs), and the host that moves the surface.            *)
(*                                                                         *)
(* Coordinates are in half pixels, so the middle of an odd gap is a        *)
(* coordinate; sizes and margins are in pixels, rounded as f64::round      *)
(* does.  An optional setting is a set of at most one value.               *)
(***************************************************************************)
EXTENDS Integers, Sequences, FiniteSets

CONSTANTS
  Screen,    \* the output: <<width, height>>
  Natural,   \* the artwork's own size
  Widths,    \* widths a user may configure
  Defaults,  \* [render]: [anchor, margins]
  Aims,      \* where a drag on the canvas or on the desktop points, in half pixels
  Anchors,   \* sides ticked in the form
  Margins,   \* values typed in the form
  Grid, SnapDistance, BottomCentreMargin, MaxMargin,
  OtherFalls, \* another pet of the host may be falling meanwhile
  MaxEdits,  \* bound on the edits made in the window
  MaxMoves   \* bound on drags on the desktop, lost connections and host starts

Edges == {"top", "right", "bottom", "left"}

ASSUME CanvasAssumption ==
  /\ Screen \in (Nat \ {0}) \X (Nat \ {0}) /\ Natural \in (Nat \ {0}) \X (Nat \ {0})
  /\ Widths \subseteq Nat \ {0}
  /\ MaxMargin \in Nat
  \* validate and opt_i32_row keep every margin in this range
  /\ Defaults \in [anchor : (SUBSET Edges) \ {{}}, margins : [Edges -> -MaxMargin..MaxMargin]]
  /\ Margins \subseteq -MaxMargin..MaxMargin /\ BottomCentreMargin \in -MaxMargin..MaxMargin
  /\ Aims \subseteq Int \X Int
  /\ Anchors \subseteq SUBSET Edges
  /\ Grid \in Nat \ {0} /\ SnapDistance \in Nat
  /\ OtherFalls \in BOOLEAN

VARIABLES
  draft,     \* the pet's entry in the window
  file,      \* the same entry in the saved configuration
  saved,     \* it is there: the pet was not added since the last save
  lastSent,  \* the placement the canvas believes the host has (last_sent)
  drag,      \* a box of the canvas is held
  client,    \* the window's link: connected, and the rectangle it last heard of
  toHost, toClient,
  host,      \* up, runs the pet, and the surface: anchor, margins, size
  aim,       \* history: where the last canvas drag put the pet, while the draft says so
  fresh,     \* history: the last word on the placement: "sent" by the layout page,
             \* "kept" (the page thought it was sent before), or "other"
  edits, moves

vars == <<draft, file, saved, lastSent, drag, client, toHost, toClient, host, aim, fresh, edits, moves>>

-----------------------------------------------------------------------------
\* Arithmetic.

Get(o, default) == IF o = {} THEN default ELSE CHOOSE v \in o : TRUE
Least(a, b) == IF a < b THEN a ELSE b
Most(a, b) == IF a < b THEN b ELSE a
Clamp(v, low, high) == Most(low, Least(v, high))
Distance(a, b) == IF a < b THEN b - a ELSE a - b

\* f64::round of v half pixels: halves go away from zero.
Round(v) == IF v >= 0 THEN (v + 1) \div 2 ELSE -((1 - v) \div 2)

\* The size of a surface whose entry asks for a width, or for none.
SurfaceSize(entry) ==
  LET w == Get(entry.width, 0)
  IN IF w = 0 THEN Natural
     ELSE <<w, Most(1, (2 * w * Natural[2] + Natural[1]) \div (2 * Natural[1]))>>

\* Where anchor and margins put a surface: opposite edges count as the first
\* one, no edge as the middle.
SurfacePosition(anchor, margins, size) ==
  LET along(first, last, i) ==
        CASE first \in anchor -> 2 * margins[first]
          [] first \notin anchor /\ last \in anchor -> 2 * (Screen[i] - margins[last] - size[i])
          [] OTHER -> Screen[i] - size[i]
  IN <<along("left", "right", 1), along("top", "bottom", 2)>>

\* Margins that put a surface anchored at anchor at (x, y); the margins of
\* other edges stay.
Fitted(anchor, pos, size, margins) ==
  [e \in Edges |->
     CASE e = "top" /\ e \in anchor -> Round(pos[2])
       [] e = "left" /\ e \in anchor -> Round(pos[1])
       [] e = "right" /\ e \in anchor /\ "left" \notin anchor -> Round(2 * Screen[1] - pos[1] - 2 * size[1])
       [] e = "bottom" /\ e \in anchor /\ "top" \notin anchor -> Round(2 * Screen[2] - pos[2] - 2 * size[2])
       [] OTHER -> margins[e]]

FreePlacement(pos) ==
  [anchor |-> {"top", "left"},
   margins |-> [e \in Edges |-> IF e = "top" THEN Round(pos[2])
                                ELSE IF e = "left" THEN Round(pos[1]) ELSE 0]]

\* One axis of a drag: edges and the middle first, the nearest of them and
\* the first of equals; then the grid.
SnapAxis(value, i, size, snap) ==
  LET max == Most(2 * (Screen[i] - size[i]), 0)
      at == Clamp(value, 0, max)
      lines == <<0, max, max \div 2>>
      near == {k \in 1..3 : Distance(lines[k], at) <= 2 * SnapDistance}
      best == CHOOSE k \in near : \A j \in near :
                \/ Distance(lines[k], at) < Distance(lines[j], at)
                \/ Distance(lines[k], at) = Distance(lines[j], at) /\ k <= j
      square == Clamp(((at + Grid) \div (2 * Grid)) * 2 * Grid, 0, max)
  IN CASE ~snap -> at
       [] snap /\ near # {} -> lines[best]
       [] snap /\ near = {} /\ Distance(square, at) <= 2 * SnapDistance -> square
       [] OTHER -> at

SnapMove(pos, size, snap) == <<SnapAxis(pos[1], 1, size, snap), SnapAxis(pos[2], 2, size, snap)>>

\* Mutant: the drag keeps an edge-only anchor.
CornerAnchorKept(anchor) == anchor

\* The corner that keeps the sides a pet has, so that both axes are pinned.
CornerAnchor(anchor) ==
  {IF "bottom" \in anchor /\ "top" \notin anchor THEN "bottom" ELSE "top",
   IF "right" \in anchor /\ "left" \notin anchor THEN "right" ELSE "left"}

-----------------------------------------------------------------------------
\* A pet's entry: what it does not set it inherits from [render].

Unset == [anchor |-> {}, margins |-> [e \in Edges |-> {}], width |-> {}]

Resolved(entry) ==
  [anchor |-> Get(entry.anchor, Defaults.anchor),
   margins |-> [e \in Edges |-> Get(entry.margins[e], Defaults.margins[e])]]

PetRect(entry) ==
  LET p == Resolved(entry) IN SurfacePosition(p.anchor, p.margins, SurfaceSize(entry))

StoredAnchor(anchor) == IF anchor = Defaults.anchor THEN {} ELSE {anchor}

PlacementAt(entry, pos) ==
  LET p == Resolved(entry)
      corner == CornerAnchor(p.anchor)
      margins == Fitted(corner, pos, SurfaceSize(entry), p.margins)
  IN [anchor |-> corner,
      margins |-> [e \in Edges |-> Clamp(margins[e], -MaxMargin, MaxMargin)]]

\* Mutant: the drag writes the margins and leaves the anchor to the form.
ApplyPositionKeepingAnchor(entry, placement) ==
  [entry EXCEPT !.margins = [e \in Edges |-> IF e \in placement.anchor
                                             THEN {placement.margins[e]} ELSE {}]]

ApplyPosition(entry, placement) ==
  [entry EXCEPT !.anchor = StoredAnchor(placement.anchor),
                !.margins = [e \in Edges |-> IF e \in placement.anchor
                                             THEN {placement.margins[e]} ELSE {}]]

BottomCentre(entry) ==
  [entry EXCEPT !.anchor = StoredAnchor({"bottom"}),
                !.margins = [e \in Edges |-> IF e = "bottom" /\ BottomCentreMargin # Defaults.margins[e]
                                             THEN {BottomCentreMargin} ELSE {}]]

ClearPlacement(entry) == [Unset EXCEPT !.width = entry.width]

SetAnchor(entry, anchor) ==
  [entry EXCEPT !.anchor = StoredAnchor(IF anchor = {} THEN {"bottom"} ELSE anchor)]

SetMargin(entry, e, value) ==
  [entry EXCEPT !.margins[e] = IF value = {Defaults.margins[e]} THEN {} ELSE value]

-----------------------------------------------------------------------------
\* The layout page.

Surface(entry) == [placement |-> Resolved(entry), size |-> SurfaceSize(entry)]
HostRect == SurfacePosition(host.surface.placement.anchor, host.surface.placement.margins, host.surface.size)

Init ==
  /\ draft = Unset /\ file = Unset /\ saved \in BOOLEAN /\ lastSent = {} /\ drag = FALSE
  /\ client = [up |-> FALSE, rect |-> {}]
  /\ toHost = <<>> /\ toClient = <<>>
  /\ host = [up |-> TRUE, pet |-> saved, surface |-> Surface(Unset)]
  /\ aim = {} /\ fresh = "other"
  /\ edits = 0 /\ moves = 0

\* push_placement: should_send records the placement before the client looks
\* whether it can send.
Push(placement) ==
  LET new == lastSent # {placement}
  IN /\ lastSent' = {placement}
     /\ toHost' = IF new /\ client.up THEN Append(toHost, [op |-> "SetPlacement", placement |-> placement])
                                      ELSE toHost
     /\ fresh' = CASE ~client.up -> "other" [] client.up /\ new -> "sent"
                   [] OTHER -> IF fresh = "sent" THEN "sent" ELSE "kept"

GrabBox == drag = FALSE /\ drag' = TRUE
           /\ UNCHANGED <<draft, file, saved, lastSent, client, toHost, toClient, host, aim, fresh, edits, moves>>
DropBox == drag = TRUE /\ drag' = FALSE
           /\ UNCHANGED <<draft, file, saved, lastSent, client, toHost, toClient, host, aim, fresh, edits, moves>>

Edit == edits < MaxEdits /\ edits' = edits + 1

DragBox ==
  /\ Edit /\ drag
  /\ \E pos \in Aims, snap \in BOOLEAN :
       LET to == SnapMove(pos, SurfaceSize(draft), snap)
           placement == PlacementAt(draft, to)
       IN /\ draft' = ApplyPosition(draft, placement)
          /\ Push(placement)
          /\ aim' = {to}
  /\ UNCHANGED <<drag, file, saved, client, toClient, host, moves>>

\* The form and the presets edit the entry and resend the placement.
EditForm(entry) ==
  /\ Edit /\ ~drag /\ entry # draft
  /\ draft' = entry
  /\ Push(Resolved(entry))
  /\ aim' = {}
  /\ UNCHANGED <<drag, file, saved, client, toClient, host, moves>>

TickAnchor == \E a \in Anchors : EditForm(SetAnchor(draft, a))
TypeMargin == \E e \in Edges, v \in {{}} \cup {{m} : m \in Margins} : EditForm(SetMargin(draft, e, v))
PresetBottomCentre == EditForm(BottomCentre(draft))
PresetReset == EditForm(ClearPlacement(draft))

\* The parameters page: the size goes to the host with the next save only.
EditWidth ==
  /\ Edit /\ ~drag
  /\ \E w \in {{}} \cup {{v} : v \in Widths} : w # draft.width /\ draft' = [draft EXCEPT !.width = w]
  /\ aim' = {}
  /\ UNCHANGED <<file, saved, lastSent, drag, client, toHost, toClient, host, fresh, moves>>

AskReload == IF client.up THEN Append(toHost, [op |-> "Reload"]) ELSE toHost

Save ==
  /\ ~drag /\ (draft # file \/ ~saved)
  /\ file' = draft /\ saved' = TRUE
  /\ toHost' = AskReload
  /\ UNCHANGED <<draft, lastSent, drag, client, toClient, host, aim, fresh, edits, moves>>

\* The draft is dropped for the file; what the canvas believes to have sent
\* stays.  A pet the file does not have would leave the page.
ReloadFromDisk ==
  /\ Edit /\ ~drag /\ saved
  /\ draft' = file
  /\ toHost' = AskReload
  /\ aim' = {} /\ fresh' = "other"
  /\ UNCHANGED <<file, saved, lastSent, drag, client, toClient, host, moves>>

\* Mutant: the page asks only while it knows of no rectangle, and trusts the
\* one it has from then on.
RefreshUnknown ==
  /\ client.up /\ client.rect = {} /\ toHost = <<>> /\ toClient = <<>>
  /\ toHost' = <<[op |-> "ListPets"]>>
  /\ UNCHANGED <<draft, file, saved, lastSent, drag, client, toClient, host, aim, fresh, edits, moves>>

\* The layout page asks again every 2 s.  A bound: what was sent before has
\* been answered by then, which takes the host a turn or two.
Refresh ==
  /\ client.up /\ toHost = <<>> /\ toClient = <<>>
  /\ toHost' = <<[op |-> "ListPets"]>>
  /\ UNCHANGED <<draft, file, saved, lastSent, drag, client, toClient, host, aim, fresh, edits, moves>>

-----------------------------------------------------------------------------
\* The host.

Rounded(surface) ==
  LET p == SurfacePosition(surface.placement.anchor, surface.placement.margins, surface.size)
  IN <<Round(p[1]), Round(p[2])>>

\* What the host at h tells: a running pet's rectangle, rounded to pixels.
Told(h) == IF h.pet THEN {Rounded(h.surface)} ELSE {}
Tell(op, h) ==
  toClient' = IF client.up THEN Append(toClient, [op |-> op, rect |-> Told(h)]) ELSE toClient

Legal(placement) == \A e \in Edges : placement.margins[e] \in -MaxMargin..MaxMargin

ControlSetPlacement(placement) ==
  /\ UNCHANGED fresh
  /\ \/ ~(host.pet /\ Legal(placement)) /\ UNCHANGED <<host, toClient>>
     \/ /\ host.pet /\ Legal(placement)
        /\ host' = [host EXCEPT !.surface.placement = placement]
        /\ Tell("PetsChanged", host')

ControlReload ==
  /\ host' = [host EXCEPT !.pet = saved, !.surface = Surface(file)]
  /\ Tell("PetsChanged", host')
  \* the file says something else than the page's last word, which is not on
  \* its way either
  /\ fresh' = IF /\ Resolved(file) # Resolved(draft)
                 /\ \A i \in 2..Len(toHost) : toHost[i].op # "SetPlacement"
              THEN "other" ELSE fresh

HandleControl ==
  /\ host.up /\ toHost # <<>>
  /\ toHost' = Tail(toHost)
  /\ LET m == Head(toHost)
     IN \/ m.op = "SetPlacement" /\ ControlSetPlacement(m.placement)
        \/ m.op = "Reload" /\ ControlReload
        \/ m.op = "ListPets" /\ Tell("PetsChanged", host) /\ UNCHANGED <<host, fresh>>
  /\ UNCHANGED <<draft, file, saved, lastSent, drag, client, aim, edits, moves>>

\* The user drags the pet itself: from the press on it floats free.  While
\* another pet is still falling, a position within 50 ms of the last one sent
\* is not sent (notify_moved), and nothing follows when the button is released
\* there.
DesktopDrag ==
  /\ host.up /\ host.pet /\ moves < MaxMoves /\ moves' = moves + 1
  /\ \E pos \in Aims : host' = [host EXCEPT !.surface.placement = FreePlacement(pos)]
  /\ Tell("PetMoved", host') \/ (OtherFalls /\ UNCHANGED toClient)
  /\ fresh' = "other"
  /\ UNCHANGED <<draft, file, saved, lastSent, drag, client, toHost, aim, edits>>

\* The link breaks, or the host ends; the host may have read some requests.
\* The window keeps the rectangle it last heard of.
LoseLink(up) ==
  /\ client.up /\ moves < MaxMoves /\ moves' = moves + 1
  /\ client' = [client EXCEPT !.up = FALSE]
  /\ toClient' = <<>>
  /\ \E n \in 0..Len(toHost) : toHost' = IF up THEN SubSeq(toHost, 1, n) ELSE <<>>
  /\ host' = [host EXCEPT !.up = up]
  /\ fresh' = IF up /\ toHost = <<>> THEN fresh ELSE "other"
  /\ UNCHANGED <<draft, file, saved, lastSent, drag, aim, edits>>
Disconnect == LoseLink(TRUE)
HostQuits == LoseLink(FALSE)

HostStarts ==
  /\ ~host.up
  /\ host' = [up |-> TRUE, pet |-> saved, surface |-> Surface(file)]
  /\ UNCHANGED <<draft, file, saved, lastSent, drag, client, toHost, toClient, aim, fresh, edits, moves>>

Connect ==
  /\ host.up /\ ~client.up
  /\ client' = [client EXCEPT !.up = TRUE]
  /\ toHost' = Append(toHost, [op |-> "ListPets"])
  /\ UNCHANGED <<draft, file, saved, lastSent, drag, toClient, host, aim, fresh, edits, moves>>

\* A move of a pet the window has not heard of is ignored.
Receive ==
  /\ client.up /\ toClient # <<>>
  /\ LET m == Head(toClient)
     IN client' = IF m.op = "PetMoved" /\ client.rect = {} THEN client
                  ELSE [client EXCEPT !.rect = m.rect]
  /\ toClient' = Tail(toClient)
  /\ UNCHANGED <<draft, file, saved, lastSent, drag, toHost, host, aim, fresh, edits, moves>>

Next ==
  \/ GrabBox \/ DropBox \/ DragBox
  \/ TickAnchor \/ TypeMargin \/ PresetBottomCentre \/ PresetReset \/ EditWidth \/ Save
  \/ ReloadFromDisk \/ Refresh
  \/ HandleControl \/ DesktopDrag \/ Disconnect \/ HostQuits \/ HostStarts
  \/ Connect \/ Receive

Spec == Init /\ [][Next]_vars

\* The host's loop runs, the window polls its link in every frame, and on the
\* layout page it draws frames and refreshes by itself.
FairSpec == Spec /\ WF_vars(HandleControl) /\ WF_vars(Receive) /\ WF_vars(Refresh)

-----------------------------------------------------------------------------
\* Properties.

Near(p, q) == \A i \in 1..2 : Distance(p[i], q[i]) <= 1

\* What a canvas drag writes into the draft puts the pet where the drag did,
\* to half a pixel, and inside the screen wherever it fits: whichever sides
\* the pet was anchored to, whatever it inherits and however it snapped
\* (snap_move, corner_anchor, margins_for_position, apply_position).
DragLands ==
  aim # {} =>
    /\ Near(PetRect(draft), Get(aim, 0))
    /\ \A i \in 1..2 : LET room == 2 * (Screen[i] - SurfaceSize(draft)[i])
                       IN room >= 0 => PetRect(draft)[i] \in -1..room + 1

\* Once the host has handled everything, a placement the layout page sent is
\* the placement on the desktop, saves and reloads since then included: what
\* is pushed live (four margins) and what is written (those of the anchored
\* edges) say the same (push_placement, control_set_placement, apply_config).
DesktopFollows ==
  fresh = "sent" /\ client.up /\ host.up /\ host.pet /\ toHost = <<>> =>
    LET p == Resolved(draft)
    IN HostRect = SurfacePosition(p.anchor, p.margins, host.surface.size)

\* The same for every edit made while connected, also where the page thought
\* the host had the placement already.
DesktopFollowsEveryEdit ==
  fresh \in {"sent", "kept"} /\ client.up /\ host.up /\ host.pet /\ toHost = <<>> =>
    LET p == Resolved(draft)
    IN HostRect = SurfacePosition(p.anchor, p.margins, host.surface.size)

\* "plus one final event once every pet has settled" (app.rs notify_moved): a
\* connected window with nothing on the way knows where the pet is.
CanvasFollowsDesktop ==
  client.up /\ host.up /\ toHost = <<>> /\ toClient = <<>> => client.rect = Told(host)

\* A window that stays connected, on its layout page, ends up with the
\* rectangle the host has for the pet, or with none for a pet that does not
\* run: whatever was dragged without a word, refused, lost on the way or
\* remembered from an earlier connection (refresh_control, apply_event,
\* notify_moved).
ShowsInTheEnd == <>[](client.up) => <>[](client.rect = Told(host))

\* What the canvas draws: the host's rectangle when it reported one, else the
\* draft's.
Shown == IF client.rect = {} THEN PetRect(draft)
         ELSE <<2 * Get(client.rect, 0)[1], 2 * Get(client.rect, 0)[2]>>

\* Offline, the canvas draws what the draft says.
OfflineShowsDraft == ~client.up /\ ~host.up => Near(Shown, PetRect(draft))

=============================================================================

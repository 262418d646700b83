------------------------------- MODULE Mirror -------------------------------
(***************************************************************************)
(* What the control channel promises its clients about the pets: each sees *)
(* states the host really went through, and never an older one after a     *)
(* newer one, across reconnects and host restarts (docs/GUI_ROADMAP.md     *)
(* section 6; crates/petweave-settings/src/client.rs keeps the copy).      *)
(* ControlChannel implements it.                                           *)
(***************************************************************************)
EXTENDS Naturals

CONSTANT Clients

VARIABLES
  world,  \* the number of states the pets went through
  seen    \* the newest of them each client knows

Init == world = 1 /\ seen = [g \in Clients |-> 0]

Publish == world' = world + 1 /\ UNCHANGED seen

Learn(g) ==
  /\ \E v \in seen[g] + 1 .. world : seen' = [seen EXCEPT ![g] = v]
  /\ UNCHANGED world

Next == Publish \/ \E g \in Clients : Learn(g)

Spec == Init /\ [][Next]_<<world, seen>>
=============================================================================

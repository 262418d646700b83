------------------------------- MODULE MCPets -------------------------------
(* Packages for Pets: one per way the code treats keys and time.           *)
EXTENDS Pets

Plain == [kind |-> "sprite", press |-> FALSE, alternate |-> FALSE, force |-> FALSE,
          ownKeys |-> FALSE, ownPixels |-> FALSE,
          poses |-> {"left", "right", "both", "click"}, long |-> {"both"}, loops |-> {},
          hands |-> TRUE, mirror |-> FALSE, scheduled |-> FALSE, naps |-> FALSE,
          script |-> {}, codes |-> {1, 2}, inputs |-> 3, mishaps |-> {"click", "slow"}]
Press == [Plain EXCEPT !.press = TRUE, !.poses = {"left", "right", "click"},
                       !.codes = {1, 2, 3}, !.inputs = 4, !.mishaps = {}]
Bongo == [Plain EXCEPT !.kind = "bongo", !.mishaps = {"pause", "slow"}]
Lua   == [Press EXCEPT !.kind = "lua", !.codes = {1}, !.inputs = 3,
                       !.mishaps = {"click", "pause", "slow"}]

MCLeftKeys == {1}
MCHotkeys  == {3}
MCPackages ==
  { Plain, [Plain EXCEPT !.poses = {"left", "click"}, !.long = {Rest}, !.loops = {Rest}],
    Press, [Press EXCEPT !.alternate = TRUE, !.force = TRUE, !.inputs = 3, !.mishaps = {"unplug"}],
    [Press EXCEPT !.alternate = TRUE, !.codes = {1, 2}, !.mishaps = {"click", "pause"}],
    Bongo, [Bongo EXCEPT !.hands = FALSE, !.mirror = TRUE, !.naps = TRUE],
    [Bongo EXCEPT !.scheduled = TRUE],
    [Lua EXCEPT !.ownKeys = TRUE, !.ownPixels = TRUE, !.script = {"pose", "hop"}],
    [Lua EXCEPT !.ownKeys = TRUE, !.ownPixels = TRUE, !.script = {"hop", "speak"}],
    [Lua EXCEPT !.ownPixels = TRUE, !.script = {"hop", "speak"}],
    [Lua EXCEPT !.script = {"chat", "hop"}] }
=============================================================================

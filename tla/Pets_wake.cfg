SPECIFICATION FairSpec
CONSTANTS
  LeftKeys <- MCLeftKeys
  Hotkeys <- MCHotkeys
  Packages <- MCPackages
  Strokes = 2
  Nap = 3
  Hops = 3
  Bubble = 2
  MaxQueue = 2
INVARIANTS KeysBalance ScreenCurrent PendingWakes
PROPERTIES ReactionsEnd BoardsAreRead

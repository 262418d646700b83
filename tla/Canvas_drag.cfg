SPECIFICATION FairSpec
CONSTANTS
  Screen <- MCScreen
  Natural <- MCNatural
  Widths = {41}
  Defaults <- MCDefaults
  Aims <- MCAims
  Anchors <- MCAnchors
  Margins <- MCMargins
  Grid = 8
  SnapDistance = 6
  BottomCentreMargin = 16
  MaxMargin = 8192
  OtherFalls = TRUE
  MaxEdits = 2
  MaxMoves = 1
INVARIANTS DragLands DesktopFollows
PROPERTIES ShowsInTheEnd

SPECIFICATION Spec
CONSTANTS
  sit = sit
  jump = jump
  Pictures <- MCPictures
  Sizes = {2, 3}
  Scales = {1, 2}
  Blank = Blank
  MaxAnswers = 1
  Faults = {}
SYMMETRY MCSymmetry
INVARIANTS RegionFollowsPicture SizeSettles SharpInTheEnd

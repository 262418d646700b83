SPECIFICATION LaunchSpec
CONSTANTS
  Launches = {p1, p2, p3}
  OverlapsExit = TRUE
INVARIANT MutualExclusion
SYMMETRY Symmetric
CHECK_DEADLOCK FALSE

SPECIFICATION LaunchSpec
CONSTANTS
  Launches = {p1, p2, p3, p4}
  OverlapsExit = FALSE
INVARIANTS MutualExclusion PidNamesInstance
PROPERTIES RefusedOnlyBesideAnother
SYMMETRY Symmetric
CHECK_DEADLOCK FALSE

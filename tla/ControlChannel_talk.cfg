SPECIFICATION FairSpec
CONSTANTS
  Clients = {g1}
  Scripts = {s1}
  Conns = {k1, k2}
  Noise = {"bad", "blank", "long", "Quit"}
  Mishaps = {"close", "mismatch", "quit"}
  MaxVer = 2
  MaxId = 4
INVARIANTS PendingUnderway QuietViewIsCurrent
PROPERTIES ImplementsMirror RequestsAnswered GoneClientsForgotten
CHECK_DEADLOCK FALSE

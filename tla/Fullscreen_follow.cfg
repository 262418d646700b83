SPECIFICATION FairSpec
CONSTANTS
  Windows = {w1, w2}
  Outputs = {"o1", "o2"}
  Hard = {}
  MaxLag = 2
INVARIANTS TypeOK HiddenWhileCovered
PROPERTY HidesInTheEnd
CHECK_DEADLOCK FALSE

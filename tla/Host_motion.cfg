SPECIFICATION FairSpec
CONSTANTS
  Pets = {p1}
  Views <- MotionViews
  Configs <- MotionConfigs
  Spots = {"left"}
  BadSpots = {}
  Sizes = {1}
  Modes = {"drag", "physics", "fixed"}
  Layers = {"top", "overlay"}
  Outputs = {"o1"}
  Removable = {}
  Flaky = {"dog"}
  AlwaysTicking = {}
  Skips = FALSE
  MaxFall = 2
  Inputs = {"reload", "visible", "mode", "layer", "placement", "pause", "quit", "pointer", "close", "fullscreen"}
CHECK_DEADLOCK FALSE
INVARIANTS TypeOK MotionDiscipline
PROPERTIES SettledStaysPut ReloadRestoresMode FallSettles

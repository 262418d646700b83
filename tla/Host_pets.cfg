SPECIFICATION Spec
CONSTANTS
  Pets = {p1, p2}
  Views <- PetsViews
  Configs <- PetsConfigs
  Spots = {"left", "lefft"}
  BadSpots = {"lefft"}
  Sizes = {1}
  Modes = {"fixed", "drag"}
  Layers = {"top", "overlay"}
  Outputs = {"o1"}
  Removable = {"o1"}
  Flaky = {"dog"}
  AlwaysTicking = {}
  Skips = FALSE
  MaxFall = 1
  Inputs = {"reload", "visible", "close", "fullscreen", "outputs"}
INVARIANTS PetsFollowSlots TrayRowsCurrent ScreenFollowsState
PROPERTIES ReloadKeepsPets

SPECIFICATION Spec
CONSTANTS
  Nothing = Nothing
  cat = cat
  dog = dog
  Names = {cat, dog}
  Installed = {cat}
  Sources <- MCSources
  Edits <- MCEdits
  i1 = i1
  i2 = i2
  Installers <- MCInstallers
  Removers = {u1}
  Builders = {b1}
  Builds <- MCBuilds
  Faults = {"io", "kill"}
  MaxFaults = 2
SYMMETRY MCSymmetry
INVARIANTS NothingLost 
PROPERTY OnlyUnneededIsDeleted
CHECK_DEADLOCK FALSE

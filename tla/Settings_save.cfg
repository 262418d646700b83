SPECIFICATION Spec
CONSTANTS
  Words = {"", "fixed", "default", "tall", "drag", "old", "one", "two"}
  Files <- MCFiles
  MaxPets = 3
  MaxEdits = 2
  MaxOutside = 3
  Faults = {}
INVARIANTS RefusalNeedsAlias FileIsWhole HostFollowsFile
PROPERTIES OverwritesWhatItSaw KeepsWhatWasNotEdited ClosesWithConsent
CHECK_DEADLOCK FALSE

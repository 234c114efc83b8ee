SPECIFICATION Spec
CONSTANTS
  Fetchers = {f1, f2}
  Sizes <- SmallAndLarge
  MaxRows = 2
  MaxBytes = 2
  MaxFetches = 3
  MaxEdits = 1
  MaxFaults = 1
CHECK_DEADLOCK FALSE
INVARIANTS
  ShownVersionIsStored
PROPERTIES
  BusyEnds

SPECIFICATION Spec
CONSTANTS
  Fetchers = {f1}
  Sizes <- SmallAndLarge
  MaxRows = 2
  MaxBytes = 2
  MaxFetches = 2
  MaxEdits = 1
  MaxFaults = 0
CHECK_DEADLOCK FALSE
INVARIANTS
  FetcherHasTheLastWord

SPECIFICATION Spec
CONSTANTS
  NSteps = 2
  Tables <- TwoTables
  MaxEdits = 1
  MaxFaults = 1
CHECK_DEADLOCK FALSE
INVARIANTS
  RowMatchesFile
  DoneMeansFresh
PROPERTIES
  DownloadsWorkInTheEnd

SPECIFICATION ClientSpec
CONSTANTS
  FirstTabs <- TwoTabs
  TabOf <- ThreeSteps
  FirstSteps = {1}
  Markdowns = {1, 2}
  MaxBlocks = 3
  MaxEdits = 3
  MaxLag = 1
  MaxSeen = 2
CHECK_DEADLOCK FALSE
INVARIANTS
  ReportIsSound
  NoCommandIsRefused
  ClientKeepsUp
PROPERTIES
  ImplementsUndoHistory

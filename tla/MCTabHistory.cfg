SPECIFICATION Spec
CONSTANTS
  u1 = u1
  u2 = u2
  Users = {u1}
  NFirstTabs = 2
  MaxTabs = 3
  MaxEdits = 4
CHECK_DEADLOCK FALSE
INVARIANTS
  ChainIsLinked
  TabsAreInOrder
  PurgesAreSafeAndComplete
PROPERTY
  ImplementsUndoHistory

SPECIFICATION Spec
CONSTANTS
  FetchSteps = {2}
  FirstSteps <- StepsOfThreeTabs
  FirstReads <- SomeFirstReads
  Reads <- SomeReads
  Names <- TwoNames
  MaxTabs = 4
  MaxSteps = 5
  MaxEdits = 2
CHECK_DEADLOCK FALSE
INVARIANTS
  StepsAreInOrder
  FreshResultsAreTrueOtherwise
  StaleStepsAreQueued
PROPERTIES
  ImplementsUndoHistory

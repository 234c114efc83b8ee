SPECIFICATION Spec
CONSTANTS
  FetchSteps = {}
  FirstSteps <- StepsOfThreeTabs
  FirstReads <- SomeFirstReads
  Reads <- SomeReads
  Names <- TwoNames
  MaxTabs = 4
  MaxSteps = 5
  MaxEdits = 1
CHECK_DEADLOCK FALSE
INVARIANTS
  FreshResultsAreTrue

SPECIFICATION Spec
CONSTANTS
  r1 = r1
  r2 = r2
  Renderers = {r1, r2}
  Cron = cron
  NSteps = 2
  MaxEdits = 3
  MaxVisits = 1
  MaxFaults = 1
  FaultKinds = {"kill", "db_error", "render_bug"}
CHECK_DEADLOCK FALSE
SYMMETRY Symmetry
CONSTRAINT ThreeEditsWithoutTrouble
INVARIANTS
  AlwaysQueuedUnlessBroken
PROPERTIES
  OnlyFreshResultsAreCached
  NoRequeueMeansFresh

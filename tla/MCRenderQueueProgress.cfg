SPECIFICATION FairSpec
CONSTANTS
  r1 = r1
  r2 = r2
  Renderers = {r1, r2}
  Cron = cron
  NSteps = 1
  MaxEdits = 2
  MaxVisits = 0
  MaxFaults = 1
  FaultKinds = {"kill", "db_error", "render_bug"}
CHECK_DEADLOCK FALSE
PROPERTIES
  QueuedRenderGetsDone
  QueueDrains

SPECIFICATION PartSpec
CONSTANTS
  Specs <- MCSpecs
  Values <- MCValues
  Contexts <- MCContexts
  Allowed = {"google"}
  Versions = {1, 2, 3}
  Broken = {2}
  MaxImports = 3
  MaxParamEdits = 2
  Lengths = {2, 3, 4}
  Limit <- MCLimit
  PipeSize = 2
  NWaits = 2
  MaxExcess = 3
  Size <- MCSize
  ByProgram = {2}
  MaxRows = 2
  MaxBytes = 2
  MaxFileChanges = 3
  MaxDeaths = 1
  Queues = {"render"}
  Publishers = {1, 2, 3}
  Target <- MCTarget
  Attempts = 2
  MaxOutages = 2
  Checkouts = {1, 2}
  ActivePlans = 1
  LastStage = 3
  MaxFailures = 1
  Params = {"p", "q"}
  Kinds <- MCKinds
  MaxLogins = 2
  MaxSecretChanges = 2
  request1 = request1
  request2 = request2
  Requests <- MCRequests
  MaxKeys = 2
  MaxWorkflows = 2
  MaxVisits = 4
  MaxCrashes = 1
CHECK_DEADLOCK FALSE
SYMMETRY Symmetry
INVARIANTS
  RendersBeginKnowingTheirTabs
  ParamsAreCleanOrFixable
  ParamsFitTheirVersion
  ChildrenAreHeardOut
  ResultsSurviveTheirWay
  ChosenFileExists
  ReconnectsAreWhole
  SubscriptionsFollowStripe
  SecretsFitTheirParams
  VisitorsGetTheirCopy
  PageAgreesInTheEnd

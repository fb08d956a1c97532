SPECIFICATION FairSpec
CONSTANTS
  None <- NoStep
  Definitions <- AllWorkflows
  MaxChains = 2
  MaxEvents = 2
INVARIANTS
  TypeOK
  RunningIsBeingRun
  QuietMeansSaved
  RerunsAreAccountedFor
  StopsOnlyAtUndefinedSteps
PROPERTIES
  ActivitiesEnd

SPECIFICATION Spec
CONSTANTS
  None <- NoStep
  Definitions <- AssetWorkflow
  MaxChains = 1
  MaxEvents = 0
INVARIANTS
  ApprovedBeforeGoingOn

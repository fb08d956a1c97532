SPECIFICATION Spec
CONSTANTS
  t1 = t1  t2 = t2  t3 = t3
  Tasks <- ThreeTasks
  Service = Service
  Controller = Controller
  Instances <- BothInstances
  Reloaded = Reloaded
  None = None
  Types <- AllTypes
  MaxFaults = 1
  MaxRestarts = 1
SYMMETRY TaskSymmetry
INVARIANTS TypeOK UpdatesAreKept FoundWhileOpen 
PROPERTIES VerdictStands

SPECIFICATION Spec
CONSTANTS
  t1 = t1  t2 = t2  t3 = t3
  Tasks <- OneTask
  Service = Service
  Controller = Controller
  Instances <- BothInstances
  Reloaded = Reloaded
  None = None
  Types <- TransferOnly
  MaxFaults = 0
  MaxRestarts = 1
PROPERTIES RestartsResume

SPECIFICATION Spec
CONSTANTS
  Worker = {1, 2, 3, 4}
  Client = {c1, c2}
  MaxUnitStarts = 2
  MaxKills = 1
  NoWorker = NoWorker
INVARIANTS
  LifecycleTypeOK
  PidNamesServer
  StopWaits
  LossExplained
PROPERTIES
  RestartsLeaveWorker
  CommandsReturn
CHECK_DEADLOCK FALSE

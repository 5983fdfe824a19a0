SPECIFICATION Spec
CONSTANTS
  p1 = p1
  p2 = p2
  core = core
  aux = aux
  Procs = {p1, p2}
  Targets = {core, aux}
  NoDb = NoDb
  NoProc = NoProc
  Retention = 1
  MaxRestores = 2
  MaxFaults = 2
  MinRunTime = 1
  ClockSteps = FALSE
  MaxTime = 2
  MaxSuffix = 1
INVARIANTS
  RecoverableTarget
  BackupsInOrder
PROPERTIES
  ImplementsCutover

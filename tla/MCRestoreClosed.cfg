SPECIFICATION FairSpec
CONSTANTS
  p1 = p1
  p2 = p2
  core = core
  aux = aux
  Procs = {p1, p2}
  Targets = {core}
  NoDb = NoDb
  NoProc = NoProc
  Retention = 1
  MaxRestores = 2
  MaxFaults = 1
  MinRunTime = 1
  ClockSteps = FALSE
  MaxTime = 2
  MaxSuffix = 1
PROPERTIES
  ClosedTargetReopens

SPECIFICATION ReapingSpec
CONSTANTS
  Procs = {p1, p2}
  Targets = {core}
  NoDb = NoDb
  NoProc = NoProc
  Retention = 1
  MaxRestores = 3
  MaxFaults = 0
  MinRunTime = 1
  ClockSteps = FALSE
  MaxTime = 3
  MaxSuffix = 1
INVARIANTS
  MutualExclusion

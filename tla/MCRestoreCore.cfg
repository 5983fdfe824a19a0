SPECIFICATION FairSpec
CONSTANTS
  p1 = p1
  p2 = p2
  core = core
  aux = aux
  Procs = {p1, p2}
  Targets = {core}
  NoDb = NoDb
  NoProc = NoProc
  Retention = 1
  MaxRestores = 3
  MaxFaults = 2
  MinRunTime = 0
  ClockSteps = TRUE
  MaxTime = 2
  MaxSuffix = 2
INVARIANTS
  TypeOK
  MutualExclusion
  CompleteTarget
  BackupsSealed
  NoSwapStuck
  BackupBound
  StagingIsMine
PROPERTIES
  TargetComesBack
  StagingCollected

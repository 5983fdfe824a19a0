SPECIFICATION Spec
CHECK_DEADLOCK FALSE
CONSTANTS
  Tables <- MCTables
  Columns <- MCColumns
  NoColumn = NoColumn
  ProbePages = 2
  MarginPct = 110
  MaxInt = 32767
  Shapes <- MCShapes
  Sources <- MCSources
  FirstRows = {2, 3, 4}
  Configs <- MCConfigs
  Member = {"users"}
  BypassRls = FALSE
  Hidden = {"orders"}
  Identity = {"orders"}
  MaxPages = 4
  MaxChanges = 1
  MaxInserts = 1
INVARIANTS
  TypeOK
  RulesApplied
  RowsWhole
  Agrees
  
  
  SequencesAbove
  TailSized

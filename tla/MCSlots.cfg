SPECIFICATION Spec
CONSTANTS
  Names = {feed, audit}
  Absent = Absent
  MaxSwaps = 2
  MaxFaults = 1
INVARIANTS
  TypeOK
  OrphansInactive
  RebindComplete

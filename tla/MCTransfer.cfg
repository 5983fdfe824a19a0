SPECIFICATION FairSpec
CONSTANTS
  Tables = {users, logs, cache}
  Skipped = {cache}
  Owned = {}
  Nothing = Nothing
  Exporters = {e1}
  Copiers = {c1}
  Rewritten = {users}
  Restores = {r1}
  Loaders = {l1}
  MaxTime = 1
  MaxStarts = 2
  MaxWrites = 1
  MaxFaults = 1
INVARIANTS
  TypeOK
  PublishedWhole
  OneInstant
  LoadedWhole
PROPERTIES
  CopyEnds
  LoadEnds

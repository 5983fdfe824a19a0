SPECIFICATION Spec
CONSTANTS
  r1 = r1
  r2 = r2
  s1 = s1
  s2 = s2
  Runs = {r1, r2}
  Databases = {s1, s2}
  DatabaseOf <- OwnStaging
  Roles = {owner, root, rdsadmin}
  Superusers = {root}
  Reserved = {root, rdsadmin}
  Nobody = Nobody
  MaxFaults = 0
INVARIANTS
  PrivilegesLast

\* Two migrators, one execution of each release, two reports.
SPECIFICATION SchemaSpec
CONSTANTS
  r1 = r1
  r2 = r2
  m1 = m1
  m2 = m2
  old = old
  new = new
  Reports = {r1, r2}
  Migrators = {m1, m2}
  Old = {old}
  New = {new}
  AttemptLimit = 2
  MaxRuns = 2
SYMMETRY Symmetric
INVARIANT UpgradeKeepsReports
CHECK_DEADLOCK FALSE

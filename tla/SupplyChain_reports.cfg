\* One run over each way to get the reports.
SPECIFICATION SupplySpec
CONSTANTS
  root = root
  absent = absent
  f1 = f1
  f2 = f2
  lockfile = lockfile
  manifest = manifest
  db = db
  index = index
  r1 = r1
  r2 = r2
  r3 = r3
  p1 = p1
  p2 = p2
  p3 = p3
  p4 = p4
  q1 = q1
  cve1 = cve1
  cve2 = cve2
  a = a
  b = b
  Root <- root
  Absent <- absent
  Modes = {"managed", "imported", "database", "offline", "diff"}
  Files <- TheFiles
  MaxWrites = 2
  Assets = {db, index}
  Profiles <- TheProfiles
  Inventories <- TheInventories
  MatchLists <- TheMatchLists
  Answers <- TheAnswers
  LockFiles = {lockfile, manifest}
  Repositories <- TheRepositories
  Locks <- TheLocks
  Policies <- ThePolicies
  Bindings <- TheBindings
  Bundles <- TheBundles
  MaxReplaced = 2
  Horizon = 3
INVARIANTS ResultComplete ResultIdentified
CHECK_DEADLOCK FALSE

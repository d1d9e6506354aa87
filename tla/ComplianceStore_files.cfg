SPECIFICATION Spec
CONSTANTS
  RunOrder <- TwoRuns
  FileOrder <- Alphabetical
  Documents <- TwoDocuments
  Signing = TRUE
  MaxOps = 2
  MaxDamage = 1
INVARIANTS PublishedWhole ReadSound ListComplete FailureExplained
CONSTRAINT Bounds
CHECK_DEADLOCK FALSE

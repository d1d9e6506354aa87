SPECIFICATION LeaseSpec
CONSTANTS
  Runners = {r1, r2}
  StaleAfter = 3
  Lag = 1
  Attempts = 5
  Horizon = 2
  NoRecord = NoRecord
CHECK_DEADLOCK FALSE
SYMMETRY Symmetry
INVARIANTS
  MutualExclusion

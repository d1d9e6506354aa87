SPECIFICATION FairSpec
CONSTANTS
  Runners = {r1, r2}
  StaleAfter = 3
  Lag = 1
  Attempts = 3
  Horizon = 5
  NoRecord = NoRecord
CHECK_DEADLOCK FALSE
INVARIANTS
  LeaseTypeOK
  OneOwnerInTurn
  LeaseHeld
  SomeoneWins
PROPERTIES
  TakesOver

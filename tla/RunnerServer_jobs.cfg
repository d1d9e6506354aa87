SPECIFICATION Spec
CONSTANTS
  Calls = {c1, c2}
  Runs = {r1, r2}
  MaxConcurrency = 1
  Steps = 1
  MaxRestarts = 2
  NoCall = NoCall
CHECK_DEADLOCK FALSE
SYMMETRY Symmetry
INVARIANTS
  SlotsCounted
  NoStrayWorkers
  ScansOwnInput
  CompletedIsClean
PROPERTIES
  HandlersAdvance

SPECIFICATION FairSpec
CONSTANTS
  m1 = m1  m2 = m2  b1 = b1  b2 = b2
  Procs = {p1, p2}
  Msgs = {m1, m2}
  Bodies = {b1, b2}
  Batches <- TwoScans
  MaxAttempts = 2
  RetryDelay = 1
  BatchSize = 1
  Horizon = 1
  MaxFaults = 1
  NoMsg = NoMsg  NoBody = NoBody
INVARIANTS
  DeliveredWasReceived
  OneContentPerMessage
  AttemptsBounded
  OncePerDrain
PROPERTIES
  Settles
  DeliveredIsFinal
  ContractSpec

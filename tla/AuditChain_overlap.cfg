SPECIFICATION Spec
CONSTANTS
  Writers = {w1, w2, w3}
  MaxEvents = 4
  MaxEdits = 2
CHECK_DEADLOCK FALSE
SYMMETRY Symmetry
INVARIANTS
  VerifiedIsSerial
  SerialVerifies
  RewritingShows
  ContinuesEarlier
  KeptEventsStay

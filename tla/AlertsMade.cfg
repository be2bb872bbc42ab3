SPECIFICATION Spec
CONSTANTS
  b1 = b1
  b2 = b2
  p1 = p1
  p2 = p2
  Batches = {b1, b2}
  Pairs = {p1, p2}
  NoPair = none
  Old = {}
  MaxCancels = 1
  MaxLosses = 1
  Faults = {"unready", "ui", "lost", "dies"}
INVARIANT OneAlert
INVARIANT DoneHasAlert
INVARIANT CompletedIsComplete
INVARIANT CancelStops
PROPERTY BatchEnds
CHECK_DEADLOCK FALSE

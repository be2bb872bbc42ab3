SPECIFICATION Spec
CONSTANTS
  p1 = p1
  p2 = p2
  p3 = p3
  p4 = p4
  w1 = w1
  w2 = w2
  Pairs = {p1, p2, p3, p4}
  Times <- Once
  Workers = {w1, w2}
  MaxRetries = 2
  MaxExecutions = 2
  Faults = {"torn_write"}
INVARIANT AllHandled
INVARIANT EventMatchesFile
INVARIANT OnePlace
PROPERTY WorkKept
CHECK_DEADLOCK FALSE

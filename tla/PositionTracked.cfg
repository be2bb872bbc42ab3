SPECIFICATION FairSpec
CONSTANTS
  a1 = a1
  a2 = a2
  p1 = p1
  p2 = p2
  c1 = c1
  NoTarget = NoTarget
  Accounts = {a1, a2}
  Procs = {p1, p2}
  Clerks = {c1}
  Primary = a1
  Rank <- Listed
  Foreign = {}
  Entering = {a2}
  MaxExits = 2
  Faults = {"deals", "lost_reply"}
INVARIANT OpenIsTracked
PROPERTY ClosedStaysClosed
PROPERTY NoGhosts
CHECK_DEADLOCK FALSE

SPECIFICATION FairSpec
CONSTANTS
  entry = entry
  exit = exit
  garbage = garbage
  noschema = noschema
  c1 = c1
  c2 = c2
  Nobody = Nobody
  Messages = {entry, exit, noschema}
  Malformed = {}
  Invalid = {noschema}
  ExitOf <- EntryAndExit
  Admins = {c1, c2}
  MaxRetries = 1
  MaxClock = 1
  Faults = {"push", "ambiguous", "error", "dead", "conn", "crash"}
INVARIANT NothingLost
INVARIANT OneCopy
INVARIANT EntryFirst
PROPERTY QueueDrains
CHECK_DEADLOCK FALSE

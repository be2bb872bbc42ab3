SPECIFICATION Spec
CONSTANTS
  dflt = dflt
  a1 = a1
  Accounts = {dflt, a1}
  Default = dflt
  HeldOver = {a1}
  Start = 2
  LimitPct = 50
  Budget = 1
  Risk = 1
  MaxSignals = 2
  MaxDays = 1
  MaxClicks = 1
  Faults = {"redis", "raises", "breaker"}
INVARIANT KillHolds
INVARIANT NoPhantomKill
INVARIANT BudgetHolds
CHECK_DEADLOCK FALSE

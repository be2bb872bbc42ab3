SPECIFICATION Spec
CONSTANTS
  k1 = k1
  r1 = r1
  r2 = r2
  d1 = d1
  d2 = d2
  a1 = a1
  a2 = a2
  NoAccount = NoAccount
  NoAlert = NoAlert
  NoKey = NoKey
  NoOrder = NoOrder
  PaperOrder = PaperOrder
  Keys = {k1}
  Receipts = {r1, r2}
  Deliveries = {d1, d2}
  Accounts = {a1, a2}
  KeyOf <- SentTwice
  RcptOf <- EachOnce
  First = a1
  Workers = 2
  MaxAttempts = 1
  Faults = {"redis", "ttl", "db_read"}
INVARIANT ExitFindsOrder
INVARIANT SkippedOnlyIfHandled
PROPERTY OpenStaysOpen
CHECK_DEADLOCK FALSE

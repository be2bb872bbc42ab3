SPECIFICATION FairSpec
CONSTANTS
  k1 = k1
  r1 = r1
  r2 = r2
  d1 = d1
  d2 = d2
  a1 = a1
  a2 = a2
  NoAccount = NoAccount
  NoAlert = NoAlert
  NoKey = NoKey
  NoOrder = NoOrder
  PaperOrder = PaperOrder
  Keys = {k1}
  Receipts = {r1, r2}
  Deliveries = {d1, d2}
  Accounts = {a1}
  KeyOf <- SentTwice
  RcptOf <- EachOnce
  First = a1
  Workers = 2
  MaxAttempts = 2
  Faults = {"redis", "db_read", "db_write", "ttl", "notify", "crash", "old_pending"}
INVARIANT OneOrderPerAccount
INVARIANT OrderHasRow
CHECK_DEADLOCK FALSE
PROPERTY ImplementsLedger
PROPERTY RowsSettle

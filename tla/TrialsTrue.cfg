SPECIFICATION FairSearchSpec
CONSTANTS
  gold = gold
  cable = cable
  s1 = s1
  s2 = s2
  Found = Found
  Baseline = Baseline
  None = None
  PairList <- GoldThenCable
  Settings = {s1, s2}
  Value <- Scores
  Gate = 2
  BacktestRange = "preset"
  Trials = 2
  MaxFailures = 1
  MaxAttempts = 2
  MaxCrashes = 1
  TrialFaults = {"late", "stuck", "dialog", "unread", "blind", "range", "hang", "slow", "crash", "torn", "full"}
INVARIANT TrialIsOwn
INVARIANT BestIsPublished
PROPERTY ImplementsPairsInTurn
PROPERTY SearchEnds
CHECK_DEADLOCK FALSE

SPECIFICATION FairSpec
CONSTANTS
  t1 = t1
  t2 = t2
  Trails = {t1, t2}
  Dist <- Distances
  StartAt <- Thresholds
  Entry = 3
  FirstStop = 1
  Trigger = 5
  PineStop = 3
  Buffer = 0
  MaxPrice = 5
  MaxHuman = 2
  Faults = {"refused", "lost_reply", "refused_200", "no_price"}
INVARIANT TrailFollows
INVARIANT BeFiresOnce
PROPERTY BeFires
CHECK_DEADLOCK FALSE

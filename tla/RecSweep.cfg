SPECIFICATION FairSpec
CONSTANTS
  Users = {1, 2}
  Cands = {"a", "b"}
  Fits <- UnevenFits
  Sweepers = {sweep}
  Apps = {app}
  sweep = sweep
  app = app
  PageSize = 2
  MaxPages = 1
  Faults = {"lookup", "insert", "finish", "sweep"}
  Moves = {"cand", "able", "decide"}
  MaxEvents = 1
INVARIANTS
  RecSafety
  NobodyPassedOver
PROPERTIES
  EveryTargetTried

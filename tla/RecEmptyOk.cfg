SPECIFICATION Spec
CONSTANTS
  Users = {1, 2}
  Cands = {"a", "b"}
  Fits <- UnevenFits
  Sweepers = {sweep}
  Apps = {app}
  sweep = sweep
  app = app
  PageSize = 2
  MaxPages = 1
  Faults = {"insert"}
  Moves = {}
  MaxEvents = 0
INVARIANTS
  OkMeansCard

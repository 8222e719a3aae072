SPECIFICATION StatusSpec
CONSTANTS
  Edges = {c1, c2}
  c1 = c1
  c2 = c2
  Ops = {"ban", "unban", "delete", "reactivate"}
  Grace = 2
  Days = 2
PROPERTIES
  FlagClearedOnlyByUnban

SPECIFICATION FairSpec
CONSTANTS
  Edges = {c1}
  c1 = c1
  Ops = {"delete"}
  Grace = 1
  Days = 0
  Workers = {w1}
  w1 = w1
  Faces = {f1}
  f1 = f1
  InitFaces = {}
  Callers = {"batch"}
  Faults = {"crash", "lease"}
  Extras = {}
PROPERTIES
  EveryJobEnds

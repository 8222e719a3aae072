SPECIFICATION PurgeSpec
CONSTANTS
  Edges = {c1}
  c1 = c1
  Ops = {"delete"}
  Grace = 1
  Days = 0
  Workers = {w1, w2}
  w1 = w1
  w2 = w2
  w3 = w3
  Faces = {f1}
  f1 = f1
  InitFaces = {f1}
  Callers = {"batch", "now"}
  Faults = {"fail", "lease", "crash"}
  Extras = {"skip"}
SYMMETRY WorkerSymmetry
INVARIANTS
  ErasedInv
  GoneInv
PROPERTIES
  DoneStaysDone
CHECK_DEADLOCK FALSE

SPECIFICATION VerificationSpec
CONSTANTS
  \* FaceVerification
  Rows = {1, 2}
  Sessions = {i1, i2}
  Calls = {c1, c2}
  Kinds = {"start", "sync", "hook", "approve", "reject", "repair"}
  Verdicts <- FinalVerdicts
  MaxEvents = 2
  Cleaned = {1}
  MaxAsks = 4
  MaxTries = 1
  MaxFaults = 1
  Faults = {"create", "decision", "image", "rpc", "kill", "storage", "delete"}
  Legacy = TRUE
  \* IdentitySessions
  u1 = u1
  u2 = u2
  u3 = u3
  p1 = p1
  p2 = p2
  ph1 = ph1
  ph2 = ph2
  s1 = s1
  s2 = s2
  c1 = c1
  c2 = c2
  i1 = i1
  i2 = i2
  Nobody = Nobody
  Users = {u1, u2, u3}
  Persons = {p1, p2}
  Phones = {ph1, ph2}
  Screens = {s1, s2}
  Sids = {i1, i2}
  Slots = {c1, c2}
  Owners <- OneOwner
  MaxAttempts = 1
  Ttl = 2
  RecoveryTtl = 1
  Lease = 0
  MaxNow = 1
  MaxRare = 1
SYMMETRY VerificationSymmetry
INVARIANTS
  FlagIsBacked
  IdentityInv
PROPERTIES
  ApprovalKept
  SessionsAndMoves
CHECK_DEADLOCK FALSE

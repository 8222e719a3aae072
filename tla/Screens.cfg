SPECIFICATION PartsSpec
CONSTANTS
  \* AccountStatus
  e1 = e1
  e2 = e2
  Edges = {e1, e2}
  Ops <- AllOps
  Grace = 2
  Days = 2
  \* AccountPurge
  a1 = a1
  a2 = a2
  g1 = g1
  \* Onboarding
  Nothing = Nothing
  MaxFaults = 5
  \* FaceScreen
  MaxSessions = 2
  Patience = 2
  SyncAt <- Schedule
  MaxSlips = 2
  \* PushOutbox
  m1 = m1
  daily = daily
  d1 = d1
  d2 = d2
  w1 = w1
  w2 = w2
  Messages = {m1}
  Daily = daily
  Tokens = {d1, d2}
  Senders = {w1, w2}
  MaxAttempts = 2
  ChunkSize = 3
  MaxBreaks = 1
INVARIANTS
  BanReachesIdentity
  HomeInv
  FaceScreenInv
  OutboxInv
PROPERTIES
  AccountsEnd
  EntryEnds
  EventsClose
CHECK_DEADLOCK FALSE

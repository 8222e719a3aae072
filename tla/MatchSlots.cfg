SPECIFICATION IntroSpec
CONSTANTS
  \* MatchTx
  Users = {1, 2, 3}
  Sess = {s1, s2}
  s1 = s1
  s2 = s2
  Limit = 1
  Introduced <- EveryCard
  Jobs <- SlotJobs
  MaxMsgs = 1
  \* Matchmaking
  MaxSaves = 1
  MaxOpenings = 1
  \* TodayScreen
  MaxTalks = 1
  MaxCards = 2
  MaxFetches = 1
  MaxLost = 1
SYMMETRY SessSymmetry
INVARIANTS
  SlotLimit
  AcceptedHasLike
  NoLostMatch
  MatchingInv
  TodayInv

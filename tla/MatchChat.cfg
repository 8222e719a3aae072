SPECIFICATION FairSpec
CONSTANTS
  Users = {1, 2}
  Sess = {s1, s2}
  s1 = s1
  s2 = s2
  Limit = 1
  Introduced <- EveryCard
  Jobs <- ChatJobs
  MaxMsgs = 1
INVARIANTS
  IInv
PROPERTIES
  HowMatchesEnd
  StoresOnlyWhileOpen
  RegistrySpec
  EveryRequestEnds

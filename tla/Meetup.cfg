SPECIFICATION FairSpec
CONSTANTS
  A = a
  B = b
  a = a
  b = b
  Sess = {s1, s2}
  s1 = s1
  s2 = s2
  Jobs <- MeetupJobs
  Moderated = {b}
  Inherited = {"none", "scheduled"}
INVARIANTS
  MeetupInv
  ConfirmedOnce
PROPERTIES
  MeetupRegistrySpec
  SavesEnd

SPECIFICATION GatesSpec
CONSTANTS
  \* BetaInvites
  u1 = u1
  u2 = u2
  r1 = r1
  r2 = r2
  i1 = i1
  i2 = i2
  h1 = h1
  h2 = h2
  Users = {u1, u2}
  Codes = {i1, i2}
  Cohorts = {h1, h2}
  CohortOf <- CohortsOfCodes
  Calls = {r1, r2}
  NoOne = NoOne
  MaxUses = 1
  Capacity = 1
  MaxActs = 3
  \* SmsOtp
  k1 = k1
  k2 = k2
  Hooks = {k1, k2}
  Cooldown = 1
  Window = 3
  MaxPerHour = 2
  MaxTime = 4
  MaxHiccups = 1
  \* AdminLogin
  f1 = f1
  f2 = f2
  Forms = {f1, f2}
  MaxFailures = 2
  LockTime = 1
  MaxHours = 2
  MaxSignIns = 1
  MaxEnrolls = 2
  MaxSkips = 1
  \* AdminMembers
  o1 = o1
  o2 = o2
  t1 = t1
  t2 = t2
  s1 = s1
  Operators = {o1, o2}
  Orders = {t1, t2}
  Cookies = {s1}
  Nobody = Nobody
  MaxNow = 2
  MaxOrders = 4
  \* ChatClient
  Cids = {c1}
  c1 = c1
  MaxTries = 2
  MaxTheirs = 1
  MaxInstant = 1
  Margin = 1
  Page = 1
  Cap = 2
  MaxFetch = 1
  Fails = TRUE
  MaxRare = 1
  \* ProfileEdit
  d1 = d1
  Devices = {d1}
  AgeTexts = {0, 19, 80}
  HeightTexts = {129, 130}
  Places = {1}
  Conditions = {"age_range", "regions", "smoking"}
  MaxInputs = 1
  MaxSubmits = 2
  MaxReads = 1
  MaxBroken = 1
  \* MeetupScreen
  DateOptions = {1}
  MaxMeetupSaves = 2
  MaxOpens = 0
  MaxEvents = 2
SYMMETRY GateSymmetry
INVARIANTS
  InvitesInv
  OtpInv
  AdminLoginInv
  EndedStayOut
  ChatInv
  FormsInv
PROPERTIES
  NothingVanishes
  AdmissionKept
  CountedOwnersRemain
CHECK_DEADLOCK FALSE

SPECIFICATION FairSpec
CONSTANTS
  None = None
  j1 = j1
  j2 = j2
  j3 = j3
  w1 = w1
  w2 = w2
  org = org
  user = user
  inst = inst
  Jobs = {j1, j2, j3}
  Workers = {w1, w2}
  Payers = {org}
  Personal = {}
  Sources = {}
  Plans = {"team"}
  Kind <- MixedKinds
  Payer <- ScansPaid
  Source <- Independent
  Concurrency <- OneEach
  SoloDaily = 1
  TeamDaily = 1
  SoloConcurrent = 1
  TeamConcurrent = 2
  MaxAttempts = 1
  MaxDay = 1
  MaxClaims = 1
INVARIANT WithinConcurrency
PROPERTIES RunningEnds PayableSettles ChargeWithinAllowance
CHECK_DEADLOCK FALSE

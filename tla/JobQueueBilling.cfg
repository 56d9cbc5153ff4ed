SPECIFICATION Spec
CONSTANTS
  None = None
  j1 = j1
  j2 = j2
  j3 = j3
  w1 = w1
  w2 = w2
  org = org
  user = user
  inst = inst
  Jobs = {j1}
  Workers = {w1, w2}
  Payers = {org}
  Personal = {}
  Sources = {inst}
  Plans = {"none", "solo", "team"}
  Kind <- AllScans
  Payer <- OnePayer
  Source <- FirstLinked
  Concurrency <- TwoEach
  SoloDaily = 1
  TeamDaily = 2
  SoloConcurrent = 1
  TeamConcurrent = 2
  MaxAttempts = 2
  MaxDay = 3
  MaxClaims = 2
INVARIANTS TypeOK LedgerExact
PROPERTIES RefundSparesScanned KeepsPromise
CHECK_DEADLOCK FALSE

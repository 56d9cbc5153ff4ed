SPECIFICATION UploadSpec
CONSTANTS
  None = None
  j1 = j1
  j2 = j2
  w1 = w1
  w2 = w2
  org = org
  inst = inst
  Jobs = {j1}
  Workers = {w1, w2}
  Payers = {org}
  Personal = {}
  Sources = {inst}
  Plans = {"none", "team"}
  Kind <- AllUploads
  Payer <- OnePayer
  Source <- Linked
  Concurrency <- TwoEach
  SoloDaily = 1
  TeamDaily = 2
  SoloConcurrent = 1
  TeamConcurrent = 2
  MaxAttempts = 2
  MaxDay = 1
  MaxClaims = 2
INVARIANTS UploadTypeOK PaidEvidence NoUploadLeftBehind
PROPERTIES UploadFinal PublishedWithAccess Spec
CHECK_DEADLOCK FALSE

SPECIFICATION Spec
CONSTANTS
  r1 = r1
  r2 = r2
  w1 = w1
  w2 = w2
  Repos = {r1, r2}
  Workspaces = {w1, w2}
  Personal = {w2}
  MaxEvents = 4
  MaxInbox = 2
INVARIANTS ConnectionTypeOK NothingLeftInInbox SourcesSettle
PROPERTIES OwnerKept
SYMMETRY RepoSymmetry
CHECK_DEADLOCK FALSE

SPECIFICATION Spec
CONSTANTS
  c1 = c1
  c2 = c2
  w1 = w1
  Kinds = {"npm"}
  Checkers = {c1}
  Workers = {w1}
  MaxVersion = 1
  MaxChanges = 1
  MaxJobs = 1
  MaxAttempts = 2
CONSTRAINT ChecksAfterAlert
PROPERTIES SavedTokenScans
CHECK_DEADLOCK FALSE

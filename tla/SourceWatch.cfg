SPECIFICATION Spec
CONSTANTS
  c1 = c1
  c2 = c2
  w1 = w1
  Kinds = {"npm", "web"}
  Checkers = {c1, c2}
  Workers = {w1}
  MaxVersion = 2
  MaxChanges = 2
  MaxJobs = 2
  MaxAttempts = 2
SYMMETRY WatchSymmetry
INVARIANTS WatchTypeOK PublicationFenced 
CHECK_DEADLOCK FALSE

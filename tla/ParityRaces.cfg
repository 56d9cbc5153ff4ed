SPECIFICATION Spec
CONSTANTS
  o1 = o1
  o2 = o2
  w1 = w1
  w2 = w2
  h1 = h1
  h2 = h2
  h3 = h3
  Observations = {o1, o2}
  Workers = {w1, w2}
  Handlers = {h1, h2, h3}
  Process <- Places
  MaxAttempts = 2
  MaxFaults = 1
INVARIANTS ParityTypeOK OneUnderWay
PROPERTIES PublishedUnderAuthority PendingEnds
CHECK_DEADLOCK FALSE

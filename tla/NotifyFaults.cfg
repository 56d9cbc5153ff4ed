SPECIFICATION FairSpec
CONSTANTS
  slack = slack
  email = email
  a1 = a1
  t1 = t1
  s1 = s1
  s2 = s2
  Dests = {slack}
  Alerts = {a1}
  Tests = {t1}
  Senders = {s1, s2}
  MaxAttempts = 2
  MaxVersion = 2
  MaxFaults = 1
INVARIANTS TypeOK AcceptedAccounted OpenSendCurrent ClaimsBounded
PROPERTIES NoticesFinish

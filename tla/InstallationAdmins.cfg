SPECIFICATION Spec
CONSTANTS
  u1 = u1
  u2 = u2
  u3 = u3
  Users = {u1, u2}
  MaxRequests = 2
  MaxInvites = 1
INVARIANTS InstallationKeepsAdmin
CHECK_DEADLOCK FALSE

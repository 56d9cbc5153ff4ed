SPECIFICATION Spec
CONSTANTS
  u1 = u1
  u2 = u2
  u3 = u3
  Users = {u1, u2, u3}
  MaxRequests = 2
  MaxInvites = 1
SYMMETRY UserSymmetry
INVARIANTS MemberTypeOK LastOwnerKept RevokedStaysOut
CHECK_DEADLOCK FALSE

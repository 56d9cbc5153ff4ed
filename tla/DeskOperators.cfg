SPECIFICATION Spec
CONSTANTS
  p1 = p1
  p2 = p2
  o1 = o1
  o2 = o2
  Prospects = {p1, p2}
  Kin <- OneOwner
  Checks = {"reproduced"}
  Operators = {o1, o2}
SYMMETRY DeskSymmetry
INVARIANTS DeskTypeOK VerifiedHasHash KinOutreachLinked
CHECK_DEADLOCK FALSE

SPECIFICATION Spec
CONSTANTS
  s1 = s1
  s2 = s2
  Subs = {s1, s2}
  Kinds = {"personal", "installation"}
  MaxEvents = 4
  MaxFailures = 1
INVARIANTS StripeTypeOK PlanFollowsSubscription EndedStaysEnded
PROPERTIES ReplacesEnded
SYMMETRY SubSymmetry
CHECK_DEADLOCK FALSE

SPECIFICATION Spec
CONSTANTS
  Requests = {r1, r2, r3}
  Payments = {p1}
  PlanCredits <- Personal
  Kinds = {"TEXT_TO_IMAGE", "TEXT_TO_MODEL"}
  Cost <- Pricing
  DefaultCredits = 30
  MaxDeliveries = 3
  MaxFailures = 1
SYMMETRY Symmetry
INVARIANTS TypeOK CapturedIsCredited BalanceIsAccounted OverdraftIsBounded
PROPERTY FailedIsFinal
CHECK_DEADLOCK FALSE

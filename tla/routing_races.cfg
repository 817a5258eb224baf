SPECIFICATION RoutingSpec
CONSTANTS
  Requests = {r1, r2}
  MaxPayments = 3
  None = None
SYMMETRY Symmetry
INVARIANTS CallsFollowTheirChoice FirstNotificationFinds
CHECK_DEADLOCK FALSE

SPECIFICATION FulfilmentSpec
CONSTANTS
  Requests = {r1, r2, r3}
  Orders = {o1}
  DeliveryStaff = {d1, d2}
  Nobody = Nobody
SYMMETRY Symmetry
INVARIANTS FulfilmentTypeOK ChecksStillHold TaskMirrorsOrder AssignedHasTask OnlyFirstTaskMoves
PROPERTY ImplementsLifecycle

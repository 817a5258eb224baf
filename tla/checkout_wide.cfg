SPECIFICATION Spec
CONSTANTS
  r1 = r1  r2 = r2  c1 = c1  c2 = c2  s1 = s1  s2 = s2  o1 = o1  o2 = o2
  Requests = {r1, r2}
  Skus = {s1, s2}
  Orders = {o1, o2}
  Customers = {c1, c2}
  Owner <- TwoOwners
  Method <- BothMethods
  InitialStock <- OneOfEach
  MaxQuantity = 1
  MaxDeliveries = 2
  MaxFailures = 1
  MaxEdits = 1
SYMMETRY Symmetry
INVARIANTS StockNonNegative PaidWasDeducted RestockedOnce
CHECK_DEADLOCK FALSE

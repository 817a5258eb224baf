SPECIFICATION Spec
CONSTANTS
  Requests = {r1, r2}
  Emails = {e1, e2}
  StaffCodes = {f1, f2}
  Roles = {"STAFF", "CONSULTANT_STAFF"}
  Customers = {u1}
  Guests = {g1}
  MaxStaff = 2
  MaxPasswords = 3
  MaxBookings = 2
SYMMETRY Symmetry
INVARIANTS StaffCanLogIn DeactivatedIsLeftAlone BookingLedger
CHECK_DEADLOCK FALSE

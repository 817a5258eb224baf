SPECIFICATION Spec
CONSTANTS
  Requests = {r1, r2}
  Emails = {e1, e2}
  Passwords = {w1, w2}
  GoogleUsers = {g1}
  Codes = {c1}
  None = None
  MaxAccounts = 2
  MaxOtps = 2
SYMMETRY Symmetry
INVARIANTS AuthTypeOK EveryAccountIsReachable OtpTokensFollowPassword MailedCodeIsAccepted
CHECK_DEADLOCK FALSE

\* A login in flight while the password is changed.
CONSTANTS
  r1 = r1
  r2 = r2
  r3 = r3
  p1 = p1
  p2 = p2
  None = None
  Request = {r1, r2}
  Name = {"ada"}
  Password = {p1, p2}
  Api = {1, 2}
  Op <- EveryOp
  MAX_ALLOWED_ATTEMPTS = 1
  MaxId = 1
  MaxToken = 2
  MaxCount = 6
SYMMETRY SlotsAndPasswords
SPECIFICATION Spec
INVARIANTS SessionsRevoked

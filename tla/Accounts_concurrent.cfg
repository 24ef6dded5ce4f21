\* Two requests of every kind in flight, both APIs, one name.
CONSTANTS
  r1 = r1
  r2 = r2
  r3 = r3
  p1 = p1
  p2 = p2
  None = None
  Request = {r1, r2}
  Name = {"ada"}
  Password = {p1, p2}
  Api = {1, 2}
  Op <- EveryOp
  MAX_ALLOWED_ATTEMPTS = 2
  MaxId = 2
  MaxToken = 2
  MaxCount = 4
SYMMETRY SlotsAndPasswords
SPECIFICATION Spec
INVARIANTS SessionsFollowPassword OneAccountPerName AttemptsBounded NoticesBounded
PROPERTIES DeletedForGood PasswordChangesAreAskedFor

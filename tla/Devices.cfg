\* Two calls in flight, two users of one browser, one device.
CONSTANTS
  t1 = t1
  t2 = t2
  t3 = t3
  ada = ada
  ben = ben
  d1 = d1
  d2 = d2
  p1 = p1
  p2 = p2
  k1 = k1
  k2 = k2
  None = None
  NoPassword = NoPassword
  Task = {t1, t2}
  User = {ada, ben}
  Device = {d1}
  Password = {p1, p2}
  OwnPassword = {k1}
SYMMETRY CallsAndNames
SPECIFICATION UndisturbedSpec
CHECK_DEADLOCK FALSE
INVARIANTS TypeOK LockLeavesNothing KeptAsShown SecretsFollowList OwnDevicesOnly AutomaticGuessesBounded

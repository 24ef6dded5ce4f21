\* Two requests in flight, two commands, two push services, one restart and one refused save.
CONSTANTS
  r1 = r1
  r2 = r2
  ntfy = ntfy
  fcm = fcm
  None = None
  Request = {r1, r2}
  Url = {ntfy, fcm}
  MaxCommand = 2
  MaxRestart = 1
  MaxRefusal = 1
SYMMETRY Slots
SPECIFICATION UndisturbedSpec
INVARIANTS GaugesTrue NoWakeUpWasted
PROPERTIES StepsOfMailbox
CHECK_DEADLOCK FALSE

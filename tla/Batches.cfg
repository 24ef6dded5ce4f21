\* Two handlers of one device, points sent again, every call may fail.  All stops when the points are used up and nothing fails any more.
CONSTANTS
  h1 = h1
  h2 = h2
  h3 = h3
  None = None
  Handler = {h1, h2}
  MaxPoint = 3
  Malformed = {2}
  ShareWith = TRUE
SPECIFICATION Spec
INVARIANTS DroppedIsConfirmed ClaimsAreConfirmed MutexFollowsHandler
CHECK_DEADLOCK FALSE

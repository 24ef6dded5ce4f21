\* One handler, one of two points fails, and no family.
CONSTANTS
  h1 = h1
  h2 = h2
  h3 = h3
  None = None
  Handler = {h1}
  MaxPoint = 2
  Malformed = {}
  ShareWith = FALSE
SPECIFICATION Spec
INVARIANTS NothingLost

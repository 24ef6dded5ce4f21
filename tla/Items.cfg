\* Two requests in flight, both API versions, one location kept.
CONSTANTS
  r1 = r1
  r2 = r2
  r3 = r3
  Request = {r1, r2}
  maxSavedLoc = 1
  MaxBatch = 2
  MaxId = 3
  MaxDrift = 3
SYMMETRY Slots
SPECIFICATION BoundedSpec
CHECK_DEADLOCK FALSE
INVARIANTS NoOrphans LimitKept NewestKept GaugesTrue

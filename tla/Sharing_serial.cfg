\* One request at a time: two members, a third account after a deletion, restarts.
CONSTANTS
  r1 = r1
  r2 = r2
  k1 = k1
  k2 = k2
  ada = ada
  tomas = tomas
  NoKey = NoKey
  None = None
  Everyone = Everyone
  Request = {r1}
  Name = {ada, tomas}
  Key = {k1, k2}
  maxFamilyItems = 2
  maxClockAhead = 1
  MaxId = 3
  MaxTime = 2
SPECIFICATION Spec
INVARIANTS AloneNeverStale
PROPERTIES ImplementsBoard

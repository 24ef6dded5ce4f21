\* Two requests in flight, of one account or of two, and a third account.
CONSTANTS
  r1 = r1
  r2 = r2
  k1 = k1
  k2 = k2
  ada = ada
  tomas = tomas
  NoKey = NoKey
  None = None
  Everyone = Everyone
  Request = {r1, r2}
  Name = {ada, tomas}
  Key = {k1, k2}
  maxFamilyItems = 1
  maxClockAhead = 1
  MaxId = 3
  MaxTime = 1
SYMMETRY SlotsNamesAndKeys
SPECIFICATION Spec
INVARIANTS TypeOK CopiesBelong NoneFromTheFuture SharersAreSound
PROPERTIES IdentityIsKept StepsOnBoard

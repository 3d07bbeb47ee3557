SPECIFICATION Spec
CONSTANTS
  Users = {u1, u2}
  Main = main
  Connections = {c1, c2}
  nConnNum = 1
  MAXCOUNT = 1
  MaxErrors = 1
  NULL = null
INVARIANTS PoolIsSound ConnectionsAreExclusive
PROPERTIES NotEmptyHanded GetReturns
CHECK_DEADLOCK FALSE

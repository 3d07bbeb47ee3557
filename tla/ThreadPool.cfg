SPECIFICATION PoolSpec
CONSTANTS
  Posters = {p1}
  Workers = {w1, w2}
  Messages = {m1, m2}
  Emergency = {}
  NULL = null
  NoThread = nobody
  NumWorker = 1
  AddSizes <- OneByOne
  DeleteSizes <- NoneToTooMany
INVARIANTS PoolIsSound 
PROPERTIES StopEmptiesStartFills CallsReturn

SPECIFICATION ServerSafety
CONSTANTS
  Posters = {rx}
  Workers = {w1, w2}
  Messages = {m1, m2}
  Emergency = {}
  NULL = null
  NoThread = nobody
  NumWorker = 2
  AddSizes = {}
  DeleteSizes = {}
  Main = main
  Receiver = rx
  Datagrams <- SomeDatagrams
  MaxDatagrams = 2
  MaxErrors = 1
INVARIANTS ServerTypeOK BlocksInUse NothingElseLeaks NoticesAreGenuine

SPECIFICATION ServerSafety
CONSTANTS
  Posters = {rx}
  Workers = {w1}
  Messages = {m1}
  Emergency = {}
  NULL = null
  NoThread = nobody
  NumWorker = 1
  AddSizes = {}
  DeleteSizes = {}
  Main = main
  Receiver = rx
  Datagrams <- SomeDatagrams
  MaxDatagrams = 1
  MaxErrors = 1
INVARIANTS InitializationSucceeds

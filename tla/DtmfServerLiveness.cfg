SPECIFICATION ServerSpec
CONSTANTS
  Posters = {rx}
  Workers = {w1}
  Messages = {m1}
  Emergency = {}
  NULL = null
  NoThread = nobody
  NumWorker = 1
  AddSizes = {}
  DeleteSizes = {}
  Main = main
  Receiver = rx
  Datagrams <- AllDatagrams
  MaxDatagrams = 2
  MaxErrors = 1
PROPERTIES EndIsNotified BootAndReceive

SPECIFICATION Spec
CONSTANTS
  Posters = {p1, p2}
  Workers = {w1, w2}
  Messages <- BuffersAndNull
  Emergency <- LastIsEmergency
  m1 = m1
  m2 = m2
  m3 = m3
  NULL = null
  NoThread = nobody
INVARIANTS QueueIsSafe NoLostWakeup MutexIsSound
PROPERTIES ImplementsMailbox Progress

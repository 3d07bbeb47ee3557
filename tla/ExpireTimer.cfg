SPECIFICATION Spec
CONSTANTS
  Callers = {c1, c2}
  Timers = {timer1, timer2}
  Elements = {e1, e2}
  LastKey = 2
  interval = 2
  Times = {0, 3}
  MaxUpdates = 1
  None = none
INVARIANTS TimersAreSound
PROPERTIES ImplementsDeadlines TimersExpire

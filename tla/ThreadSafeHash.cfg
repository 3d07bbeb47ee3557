SPECIFICATION IterSpec
SYMMETRY Interchangeable
CONSTANTS
  Threads = {t1, t2}
  Nodes = {n1, n2}
  Keys = {k1, k2}
  fpHashFunc <- SameBucket
  numberOfBuckets = 2
  U32Max = 5
  GivenIds = {0, 3}
  LongLived = FALSE
  None = none
INVARIANTS TableIsSound HeldIsSafe NoBucketLeftLocked
PROPERTIES BucketsAreOwned IterationsComplete ImplementsRegister

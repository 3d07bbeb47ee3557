SPECIFICATION Spec
SYMMETRY Interchangeable
CONSTANTS
  Nodes = {n1, n2, n3}
  Keys = {k1, k2}
  k1 = k1
  k2 = k2
  fpHashFunc <- FirstAndThird
  numberOfBuckets = 3
  GivenIds = {0, 4}
  U32Max = 5
  AnyGivenId = FALSE
  None = none
INVARIANTS TableIsSound WalksAreComplete
PROPERTIES ImplementsStacks
CHECK_DEADLOCK FALSE

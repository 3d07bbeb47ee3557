SPECIFICATION Spec
CONSTANTS
  Nodes = {n1, n2, n3, n4}
  Values = {"a", "b"}
  AttributeNames = {"x"}
  AttributeValues = {"1"}
  MaxAttributes = 1
  Null = Null
SYMMETRY Symmetry
CONSTRAINT FewLabels
INVARIANTS TreeIsSound LookupsAgree
PROPERTIES ImplementsForest OperationsDoAsAsked

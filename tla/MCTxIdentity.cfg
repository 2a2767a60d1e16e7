CONSTANT
  Nodes = {n1, n2}
SPECIFICATION Spec
SYMMETRY Symmetry
INVARIANT TypeOK
INVARIANT PoolAnswers
INVARIANT NeverZero
PROPERTY DeleteReaches

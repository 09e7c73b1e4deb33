SPECIFICATION Spec
CONSTANTS
  n1 = n1
  n2 = n2
  n3 = n3
  n4 = n4
  k1 = k1
  k2 = k2
  k3 = k3
  NULL = NULL
  Node = {n1, n2, n3, n4}
  Key = {k1, k2, k3}
SYMMETRY Symmetry
INVARIANT OneRing
INVARIANT CursorLive
PROPERTY ImplementsRing
CHECK_DEADLOCK FALSE

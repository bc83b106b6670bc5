CONSTANTS
  Cap = 3
  p1 = p1
  p2 = p2
  p3 = p3
  Elems <- MCElems
  Nil = Nil

SPECIFICATION Spec

INVARIANT TypeOK
PROPERTY FifoOfCapMinusOne

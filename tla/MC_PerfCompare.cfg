CONSTANTS
  N = 3
  Arrivals = {0, 3}
  Bursts = {1, 5}
  Types = {0, 1, 2}
  Quantum = 3
  QSIZE = 64
  Nil = Nil

SPECIFICATION Spec

INVARIANT TypeOK
INVARIANT SortIsStable
INVARIANT WorkConserving
INVARIANT NoRunBeforeArrival
INVARIANT QueuedOnceAtItsLevel
PROPERTY SimsTerminate
CHECK_DEADLOCK FALSE

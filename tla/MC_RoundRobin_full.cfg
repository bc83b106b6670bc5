CONSTANTS
  NPROC = 4
  N = 4
  Quantum = 2
  Nil = Nil

SPECIFICATION Spec


PROPERTY EveryRunnableDispatched
CHECK_DEADLOCK FALSE

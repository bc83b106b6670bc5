CONSTANTS
  NThreads = 4
  InitialValues = {1, 2}

SPECIFICATION Spec

INVARIANT TypeOK
INVARIANT NoStrandedWaiter
INVARIANT NoLostIncrement
INVARIANT DestroyWhenIdle
PROPERTY TestTerminates
CHECK_DEADLOCK FALSE

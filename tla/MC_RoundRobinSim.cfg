CONSTANTS
  N = 3
  Bursts = {1, 2, 3, 4}
  Quanta = {1, 3}
  QSIZE = 64
  MaxSlices = 5
  Nil = Nil

SPECIFICATION Spec

INVARIANT TypeOK
INVARIANT ScheduleAccountsForEveryBurst
PROPERTY SimTerminates
CHECK_DEADLOCK FALSE

CONSTANTS
  NPROC = 4
  N = 3
  Names = {"init", "hello", "ls"}
  Remaining = {0, 3, 9}
  MaxSlices = 5
  Progs = {"kernel", "user", "migrate"}
  MigrateFrom = {2}
  MigrateTo = {1, 2}
  Nil = Nil

SPECIFICATION Spec

INVARIANT TypeOK
INVARIANT QueuedOnce
INVARIANT TierOrder
INVARIANT UserMLQAccountsForWork
PROPERTY MLQTerminates
CHECK_DEADLOCK FALSE

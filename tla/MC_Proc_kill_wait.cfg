CONSTANTS
  NPROC = 3
  c1 = c1
  c2 = c2
  CPUs <- MCCPUs
  MaxPid = 4
  KillPids = {0, 2}
  Prios = {3, 11}
  NoProc = NoProc
  NoCpu = NoCpu
  SleepArgs = {1}
  MaxTicks = 1
  TicksChan = TicksChan

SPECIFICATION Spec
SYMMETRY CpuSymmetry

INVARIANT KilledNeverAsleep

# TLA+ models of the xv6-lab process core

This directory holds TLA+ models of the process-management and scheduling code
of this repository (`src/kernel/proc.c`, `src/kernel/sysproc.c`), the
demonstration scheduling policies in the same file, and the pthread semaphore
(`src/semaphore.c`). The models are checked with TLC. `PROJECT.json` lists the
components, the runs, the mutants, and the map from each TLA+ definition to the
source lines it translates.

## 1. Inventory of the system

| Component | Source | State it keeps | Operations |
|---|---|---|---|
| Process table and lifecycle | `proc.c` 9-436, 589-611 | `proc[NPROC]`: `state`, `pid`, `parent`, `killed`, `chan`, `xstate`, `priority`, plus scheduling-extension fields. Also `nextpid` (under `pid_lock`) and `initproc`. | `allocpid`, `allocproc`, `freeproc`, `userinit`, `fork`, `reparent`, `exit`, `wait`, `kill`, `growproc` |
| Spinlocks and sleep/wakeup | `proc.c` 540-587 | `p->lock` per slot. `wait_lock` guards `parent` and is taken before any `p->lock`. `p->chan` holds the sleep channel. | `sleep(chan, lk)`, `wakeup(chan)` |
| Scheduler and context switch | `proc.c` 437-538 | per hart: `c->proc` and the scheduler context. In the loop: `selected`, `highest_priority`. | `scheduler` (strict priority, first-in-table wins a tie), `sched`, `yield`, `forkret` |
| Process system calls | `sysproc.c` | `ticks` (under `tickslock`, owned by the trap layer) | `sys_fork/exit/wait/kill/setpriority/sleep/getprocinfo/getsystime/sbrk/uptime/getpid` |
| Round-robin policy | `proc.c` 672-751 | `RoundRobinQueue`: a ring `queue[NPROC]` with `front` and `rear` | `init_queue`, `is_empty`, `enqueue` (drops when full), `dequeue`, `round_robin_schedule` |
| Multilevel feedback queue | `proc.c` 753-939 | three rings (quantum 2/4/8), `p->queue_level`, `p->proc_type`, `p->remaining_time` | `enqueue_to_level`, `dequeue_from_level`, `schedule_from_multilevel`, `classify_process`, `migrate_process`, `multilevel_queue_schedule` |
| User-space simulations and tests | `src/user/*.c` | private copies of the ring and multilevel queue, with `burst_time` | test drivers |
| Counting semaphore | `semaphore.c`, `base_lock.c` | `value`, a mutex, a condition variable, counters `wait_count`, `wait_block_count`, `signal_count`, `wake_count` | `sem_init`, `sem_wait`, `sem_signal`, `sem_get_value`, `sem_destroy` |
| Boot | `main.c` | `started` | hart 0 initialises and runs `userinit`; the other harts spin on `started`; every hart then enters `scheduler()` |

**How the parts interact.** Every hart runs `scheduler()`. The loop scans
`proc[]` and takes each slot's lock in turn. It keeps the lock of the best
RUNNABLE slot so far, marks the winner RUNNING, and `swtch`es to it while still
holding that lock. The process releases the lock on its side: in `forkret`, or
on return from `sched()` in `yield` or `sleep`. When the process gives up the
hart, it takes its own lock, changes its state and calls `sched()`. The
scheduler then releases that lock. So a spinlock is owned by a hart, not by a
process.

`fork`, `exit` and `wait` use `wait_lock` for the parent links. `sleep()` takes
`p->lock` before it releases the condition lock, and `wakeup()` takes each
slot's lock. Together these rule out a lost wakeup. `kill` sets `killed` under
`p->lock` and makes a SLEEPING target RUNNABLE. The two queue policies are
sequential, single-threaded code that nothing in the dispatch loop calls. The
semaphore is a separate user-space library built on pthreads.

**What is hard.** The hard parts are:
- several harts interleave on shared slots, with locks passed across `swtch`;
- the scheduler's scan is not atomic;
- flags are tested under one lock and written under another (`killed`);
- the sleep/wakeup hand-off;
- teardown order in `exit` and `wait`, where a child may still be on its
  kernel stack while its parent frees it;
- allocation failures in the middle of `fork`;
- sentinel values such as pid 0, and ring-buffer capacity;
- for the semaphore, condition-variable signalling with spurious wakeups.

**Properties that make each part correct.**
- Process table: pids are unique among live slots. A freed slot carries
  nothing of its last owner. A parent link never points at a freed or ZOMBIE
  slot.
- Scheduler: a process runs on at most one hart. At every switch the lock
  discipline of `sched()` holds. Strict priority is respected.
- Sleep/wakeup: no wakeup is lost. A killed process does not stay asleep.
- Round-robin: every queued process is dispatched once per round, and nothing
  is dropped at capacity.
- Multilevel queue: a lower tier runs only when the higher tiers are empty. A
  process is re-queued at its own tier.
- Semaphore: `value` never goes negative. No waiter blocks forever while
  `value > 0`.

## 2. Plan

Modules, in order of importance:

1. **`Proc`** (done in this sitting). The process table, the priority
   scheduler, sched/yield/forkret, sleep/wakeup on the `wait` channel, and
   fork/exit/wait/kill/setpriority, on several harts. `MC_Proc` instantiates it.
2. **`Proc`, extended.**
   - Done: the ticks channel. `sys_sleep` is modelled together with a
     spec-modelled `clockintr`, and the negative-`n` conversion is kept.
   - Done: `sys_getprocinfo`'s unlocked read of `p->parent`, as a two-step
     read with a property on the ppid it returns (a violation run).
   - Left: a second MC with four slots, so that `reparent`'s own
     `wakeup(initproc)` is exercised (init, a child, and a grandchild with its
     own child). Every run slot is taken, so it would have to replace one.
3. **`RoundRobin`** (done). The kernel ring (`enqueue`/`dequeue`/`is_empty`) as
   operators, and `round_robin_schedule` as a sequential state machine.
   - Properties: the ring refines an abstract bounded FIFO (`INSTANCE ... WITH`
     from `front`/`rear`/`queue` to a sequence).
   - A violation run for the capacity claim of spec 4.4 (capacity NPROC holds
     NPROC-1).
   - The user copy, which does terminate, checked against spec 8's
     "N quantums" claim. The kernel loop's non-termination is evident from
     its unconditional requeue, so it is recorded as a hazard without a run.
4. **`MultiLevelQueue`** (done). Three rings composed from `RoundRobin`,
   `schedule_from_multilevel` tier preference, `migrate_process`, and the
   kernel and user `multilevel_queue_schedule`.
   - The tier-preference invariant.
   - The kernel version's `state` and `remaining_time` misuse as violation
     runs.
   - The user copy in `multilevel_queue_test.c` and its `main()`'s
     dequeue-then-`migrate_process` test run in the same run as the kernel
     loop, as further programs of the one module.
5. **`Semaphore`** (done). `sem_wait`/`sem_signal` over a mutex and a condition
   variable, with spurious wakeups and the `wait_block_count > wake_count`
   test, driven by `test_semaphore.c`'s `main()` and one-shot workers.
   - Safety: `value >= 0`, counters consistent, no lost increment of
     `shared_counter`.
   - Liveness: `main()` returns. A woken waiter can be overtaken by a new
     `sem_wait`, but each worker waits only once, so overtaking ends.
6. **`ProcLifecycle`** (done). The abstract lifecycle of spec 3 over slots,
   pids and parent links. `Proc` refines it under a mapping that hides the
   locks, the harts and the channels.
7. **`PerfCompare`** (done). `perf_compare.c`'s `run_suite`: FCFS,
   round robin with arrivals and the 2/4/8 multilevel queue, in turn, on one
   array. The bubble sort `sort_by_arrival` is a recursive operator, checked
   against a declarative stable sort. Its run replaced `rr_kernel`, the
   passing run of the kernel round robin with fewer entries than the ring.
8. **Left open.** See section 6.

## 3. Modules and how they correspond to the code

### `Proc.tla` (with `MC_Proc.tla`)

**State.** There is one function per field of `struct proc` that the
properties use: `state`, `pid`, `parent`, `killed`, `chan`, `priority`. There
are also `nextpid`, the lock owners `lock[p]` and `waitLock` (a hart or
`NoCpu`), and per hart `cpuProc` (`c->proc`), `spc` (scanning, running a
process, or just switched back), and the scan locals `scanIdx`, `selected` and
`highest`. `pc[p]` is where the kernel thread of slot `p` will resume, and
`child[p]` is `fork`'s `np`. `ticks` and its lock owner `tickLock` come from
the trap layer. `ticks0[p]` and `sleepN[p]` are `sys_sleep`'s locals `ticks0`
and `n`. `infoParent[p]` is the `p->parent` that `sys_getprocinfo` has read.
`ppidAtCall[p]` is an observer: the parent's pid at the moment of that read.
`started` is `main.c`'s flag, and `spc` also records where a hart is in
`main()` (`boot`, `publish`, `wait_started`).

**Actions.** One action covers the code between two lock operations.
- `main()` is the boot prefix. `Init` is the zeroed table with `nextpid` 1
  and one hart, any of them, as `cpuid() == 0`. `Main_userinit` is that
  hart's initialisation calls, `procinit()` and `Userinit` (`userinit()`:
  slot 1, pid 1, priority 15, RUNNABLE, resuming in `forkret`). `Main_start`
  sets `started` and enters `scheduler()`; `Hart_start` is another hart
  leaving its `while(started == 0)` spin. The device and memory calls change
  nothing the table reads. The model is sequentially consistent, so the
  `__sync_synchronize()` barriers are not modelled.
- `scheduler()` is `Scheduler_scan` (one slot per step), `Scheduler_switch`,
  `Scheduler_idle` and `Scheduler_resume`.
- `fork` is `Fork_alloc` (allocproc, allocpid and the copy, all under
  `np->lock`, with allocation failure as an alternative outcome), `Fork_link`
  (under `wait_lock`) and `Fork_run` (under `np->lock`).
- `exit` is `Exit_acquire`, `Exit_wakeup` (reparent with its wakeups, then
  `wakeup(p->parent)`) and `Exit_sched`.
- `wait` is `Wait_acquire`, `Wait_scan` (reap, copyout failure, return -1, or
  go to sleep), `Wait_sleep`, `Sleep_return` and `Wait_reacquire`.
- Also `Yield`, `Yield_return`, `Forkret`, `Kill` and `Setpriority`.
- `sleep(chan, lk)` is the shared operator `Sleep`. `Wait_sleep` and
  `Tsleep_sleep` conjoin the release of their own condition lock to it.
  `Sleep_return` resumes either caller.
- `sys_sleep` is `Sys_sleep` (take `tickslock`, `ticks0 = ticks`, first loop
  test), `Tsleep_sleep` and `Tsleep_reacquire` (retake `tickslock`, test
  again). `SleepLoop` is the loop test. Its comparison `ElapsedBelow` keeps the
  conversion of `n` to `uint`, so a negative `n` never expires.
- `Clockintr` is `clockintr()` of `kernel/trap.c`, which is outside `src/`.
  It is modelled from xv6: under `tickslock`, `ticks++` and
  `wakeup(&ticks)`, on a hart that has entered `scheduler()` and holds no spinlock (interrupts are off while
  one is held). xv6 ticks only on hart 0. The model lets any lock-free hart
  tick, which keeps hart symmetry and adds only interleavings in which a tick
  comes earlier.
- `sys_getprocinfo` is `Getprocinfo_parent` (read `p->parent`) and
  `Getprocinfo_ppid` (read `->pid` through it). The C expression reads
  `p->parent` twice without a lock, which is a data race. The second step
  therefore dereferences either the pointer read first or a fresh load.

Three loops take one lock at a time: `wakeup`, `kill` and `wait`'s child scan.
Other harts cannot change their outcome while they run, because a child turns
ZOMBIE only under `wait_lock`. So each of these loops is one action, guarded by
the locks it takes. The scheduler's scan is different: its outcome does change
under it, so it is one action per slot. User code is abstracted to a choice
among the system calls. Timer preemption is `Yield` from user space.

**Bounds.**
- 2 harts, with symmetry over harts.
- 3 slots: init, a child and a grandchild.
- `MaxPid = 3`, so two `fork` calls, counting failed ones. That is enough
  for a child and a grandchild, or for a child reaped and its slot reused by
  the next fork. The runs that look for a violation keep `MaxPid = 4`.
- `kill`/`setpriority` pid arguments `{0, 2}`. 0 is the sentinel pid of free
  slots.
- Priority arguments `{3, 11}`. 11 is outside `sys_setpriority`'s accepted
  range 0..10.
- `sleep(1)`, the argument the user programs pass, and `MaxTicks = 1`. One
  tick is enough for a sleeper to be woken, test again and return, and for a
  second sleeper to go to sleep after the tick and stay asleep.

With these bounds every interleaving of two harts over fork → exit → wait,
sleep and wakeup, and reparenting of a grandchild is reached, after every
order in which the boot hart and the other hart can leave `main()`. That is
about 335,000 distinct states, checked in under two minutes.

**Refinement.** `ProcLifecycle` is the abstract table of spec 3. A slot moves
UNUSED → USED → RUNNABLE → RUNNING → RUNNABLE / SLEEPING / ZOMBIE, then
SLEEPING → RUNNABLE and ZOMBIE → UNUSED. It gets its pid from the counter on
allocation. A failed allocation only consumes a pid. A parent link is set once
on a USED slot, and is rewritten only by the reparenting of a running,
non-init process. `Proc!ImplementsLifecycle` is `ProcLifecycle!LSpec` with
`st <- state` and `pid`, `parent` and `nextpid` mapped to themselves once
`userinit()` has run (`Booted`). Before that the table is still zeroed, and
the mapping gives the abstract initial state, so boot is stuttering. Locks,
harts, channels and `pc` are hidden. Every wakeup, kill and tick is the
abstract `Wake`.

### `Ring.tla`, `RingQueue.tla`, `BoundedFifo.tla` (with `MC_RingQueue.tla`)

`Ring` holds no state. It defines the ring operations as operators over a
record `[queue, front, rear]`, parameterised by the number of entries `Cap`:
`InitQueue` (`init_queue`), `IsEmpty`, `Enqueue` and `Dequeue`, plus `Front`
(what `dequeue` returns) and `Contents` (the entries from `front` to `rear`).
`time_quantum` is left out, because no caller reads it. The kernel instantiates
`Ring` with `NPROC` entries and `round_robin_test.c` with 64; the code is the
same.

`RingQueue` drives one ring with any sequence of `enqueue` and `dequeue` calls.
Its `result` variable observes whether an `enqueue` stored its entry, since the
function returns nothing. `BoundedFifo` is the abstract promise: a FIFO of
`Capacity` entries that refuses a put only when it is full.
`RingQueue!FifoOfCapMinusOne` is `BoundedFifo!Spec` under the mapping
`q <- Contents(rq)`, `Capacity <- Cap - 1`. It holds, so the ring keeps order,
loses and duplicates nothing, and refuses exactly when `Cap - 1` entries are
queued. With `Capacity <- Cap`, which is what spec 4.4 relies on, it fails at
the first refused `enqueue`. That failure is shown at the scheduler level by
`rr_kernel_full`.

### `RoundRobin.tla`

This module is the kernel `round_robin_schedule(processes, n, quantum)`.
- `Init` chooses any mix of RUNNABLE and other entries.
- `Fill` is one pass of the `for` loop.
- `FillDone` leaves the loop.
- `Dispatch` is one pass of the `while` loop: dequeue, set
  `remaining_time = 0`, set `state = RUNNABLE`, then the always-true test that
  requeues with a full quantum.
- `Finish` is the `while` test failing on an empty ring.

`current` records the last process dispatched.

### `RoundRobinSim.tla`

This module is the copy in `src/user/round_robin_test.c`. It has burst times,
runs each process for `min(burst, quantum)`, completes a process when
`burst <= 0`, and stops when the ring is empty or `completed == n`. `burst0`
holds the bursts the caller passed. `slices` counts the slices each process got.
Both are observers for the properties. `MaxSlices` bounds `slices` in
`Dispatch`'s guard. The bound is never reached in a correct run, since a burst
of at most 4 needs at most 4 slices. It keeps the state space finite when a
mutant loops.

### `PerfCompare.tla`

This module is `run_suite` of `src/user/perf_compare.c`. It runs
`simulate_fcfs`, `simulate_rr(arr, n, 3)` and `simulate_mlq` one after the
other on the same array `arr`. `alg` names the simulation running. `p` is the
simulation's sorted copy with `remaining`, `start` and `finish`. `qs` holds the
queues: only level 0 in `simulate_rr`, and `q0`, `q1` and `q2` in
`simulate_mlq`. `t`, `completed` and `next` are the locals of the same names.
`simulate_fcfs`'s index `i` is kept in `next`.
- `ResetRuntime`, `SortByArrival` (the recursive `BubblePass` and
  `BubbleSweeps`) and `MinOf` are the helpers. The queue is `Ring` with
  `QSIZE = 64`, since `qpush` and `qpop` are the same ring code.
- `Admit` is the arrivals loop `while(next<n && p[next].arrival<=t)`. It
  pushes onto the queue `LevelOf` gives.
- `ActiveLevel` is the first non-empty queue.
- `FcfsStep` is one pass of the FCFS loop.
- `Idle` is a pass of the `rr` or `mlq` loop that finds every queue empty and
  jumps `t` to the next arrival.
- `RRSlice` and `MLQSlice` are passes that run one slice (`Slice`): admit, pop,
  record the first start, run `min(quantum, remaining)`, admit again, then
  finish or requeue at the same level.
- `Report` is `print_avg_line` followed by the next call of `run_suite`.
The averages only format results and are left out. `responded`,
`last_enq` and `pid` are never read. `Init` takes any array of `N` processes
from small sets, not `main`'s three fixed arrays: the functions are checked on
every input they could be given. The bounds are 3 processes, arrivals 0 and 3,
bursts 1 and 5, and types 0, 1 and 2 (1,728 arrays, about 29,000 states). They
give idle gaps (a burst of 1 at time 0, then an arrival at 3), an arrival
exactly when an RR slice ends, an arrival inside an MLQ slice, processes that
need several slices at every level, and equal arrivals.

`Idle` keeps a guard `next <= n` where the code would read `p[n]`, past the
array. `SimsTerminate` shows the guard is never what stops the loop.

### `MultiLevel.tla` and `MultiLevelQueue.tla`

`MultiLevel` holds no state. It defines the three-tier queue as operators over
a function from tiers `0..2` to rings of `Ring`:
- `InitMLQ`;
- `EnqueueToLevel`, whose `TierOf` sends any level other than 0 or 1 to
  tier 2;
- `DequeueFromLevel`;
- `ScheduleTier`, `Scheduled` and `ScheduleFromMultilevel`, which pick the
  best non-empty tier;
- `SliceOf` (2/4/8);
- `MigrateProcess`, which does nothing for equal levels and otherwise
  enqueues at the new tier. It never removes the process from the old tier;
- `ClassifyProcess`, which works on whole names. The names in the cfg are
  exactly `init`, `hello` and `ls`, so the kernel's prefix test and the user
  copy's `strcmp` agree on them.

`MultiLevelQueue` runs one of three programs, chosen in `Init` as `prog`:
- `"kernel"`: the kernel `multilevel_queue_schedule(processes, n)`;
- `"user"`: its copy in `multilevel_queue_test.c`;
- `"migrate"`: test case 3 of that file's `main()`.

The two loops share their actions. The differences are operators:
- `Enrolls`: which entries the `for` loop queues;
- `FillType`: classify first, or take the given `proc_type`;
- `StateOf`: what the written 2 and 0 mean;
- `RequeuedRemaining`: the kernel resets `remaining_time` to the slice, and
  the user copy keeps `burst_time`.

The actions:
- `Init`: kernel entries as `allocproc` leaves them (BATCH, `queue_level` 2).
  Each is RUNNABLE or not and has any name and `remaining_time`. User entries
  are as `main()` builds them: READY, `queue_level` 0, a positive
  `burst_time`, and the `proc_type` that `classify_process` gives the name
  (true of all of `main()`'s arrays).
- `Fill`: classify where the program does, and enqueue.
- `Dispatch`: one pass of the `while` loop, including the writes of 2 and 0
  into `p->state`. `ProcStateOf` turns those writes into kernel states by
  the order of `enum procstate`, which is declared in `kernel/proc.h`, outside
  `src/`. `Dispatch` also includes the reset of `remaining_time` to the slice.
- `Finish`: `completed == n`, or the break on an empty queue.
- `Migrate`: `p = dequeue_from_level(&mlq, from)` (`MigrateSource`), then
  `migrate_process(&mlq, p, from, to)` if `p` is not 0. `main()` calls it
  with `from = 2` and `to = 1`; the cfg adds `to = 2` for the early return.

The observers are `work0`, `enrolled`, `finished` and `slices`. `MaxSlices`
bounds `slices` in the guard. It is 5: the longest correct run is a user
burst of 9 at tier 0, which takes 2+2+2+2+1. `MLQTerminates` passes, so the
bound never stops a loop that the code would continue.

### `Semaphore.tla` (checked directly with `MC_Semaphore.cfg`)

This module covers `sem_init` (as `Init`, with a valid initial value),
`sem_wait`, `sem_signal`, `sem_print_status` and `sem_destroy`, as
`test_semaphore.c` uses them. `sem->lock` (`base_lock.c` is a thin wrapper
over a pthread mutex) is the variable `owner`, `Free` when no thread holds it.
`BaseLockAcquire` (also the retaking inside `pthread_cond_wait`) is a step of
its own. The work done holding the mutex, up to `BaseLockRelease` or the
release inside `pthread_cond_wait`, is one step, since no other thread can
observe it. `sem_print_status` takes and releases the mutex with only a read
between them, so it is one step that needs the mutex free.

A thread's `pc` is one of:
- `unborn`: not yet created;
- `idle`;
- `test`: holding the mutex in `sem_wait`;
- `blocked`: inside `pthread_cond_wait`;
- `woken`: signalled or spuriously woken, not yet holding the mutex again;
- `cs`, `write` and `release`: between the read and the write of
  `shared_counter`, and after it;
- `signal`: holding the mutex in `sem_signal`;
- `done`.

The actions:
- `SemWait` takes the mutex.
- `WaitTest` is the loop test. It either blocks, releasing the mutex, or
  does `value--` and releases it.
- `SpuriousWakeup` models POSIX's spurious return.
- `WaitReturn` retakes the mutex and counts the wakeup. `WaitTest` follows.
- `SemSignal` takes the mutex.
- `SignalRelease` is the increment, the `wait_block_count > wake_count` test,
  a `pthread_cond_signal` that unblocks one or more blocked threads (lost if
  none is blocked), and the release. The worker then returns.
- `ReadCounter` and `WriteCounter` are `before = shared_counter` and
  `shared_counter = before + 1`, two steps with nothing but the semaphore
  between workers.
- `Main` is `main()`: `Create` starts worker `i` or, when `pthread_create`
  fails, destroys the semaphore and returns 1, which ends the process and
  every worker (`Alive`); `Join` waits for worker `i` in order;
  `PrintStatus` and `Destroy` only read, then `main()` returns 0.

`wait_count` and `signal_count` are only printed. Only the difference of
`wait_block_count` and `wake_count` is ever read, so the model keeps that
difference as `inCondWait`, the number of threads inside `pthread_cond_wait`.
The `EINVAL` and pthread error returns on valid objects and `sem_get_value`
(which has no caller) are left out, as are `pthread_join` failures, which do
not happen for a joinable thread joined once. A `sem_destroy` of a mutex or
condition variable still in use on the create-failure path is undefined in
POSIX. The model ends the process in the same step, and `DestroyWhenIdle`
claims only the success path.

`test_semaphore.c` calls `sem_acquire`, `sem_release` and a two-argument
`sem_init`. `semaphore.h` declares none of these, so the test does not build
as written. The model reads them as `sem_wait`, `sem_signal` and an initial
value of 1, and also checks initial value 2.

## 4. Runs

| Run | Expect | What it shows |
|---|---|---|
| `proc_safety` | pass | `NoFreeWhileOnCpu`, `NoLostWakeup`, `NoOrphans` and `TypeOK` hold in every interleaving. `LockDisciplineAtSwitch`: at every switch back to the scheduler the process holds its own lock and no other (not `wait_lock`, not `tickslock`, no other slot), as `sched()`'s `noff == 1` demands; a scan that dropped the selected slot's lock, which would let two harts dispatch one process, breaks it. `TickSleeperNotDue`: a process asleep on `&ticks` has not yet slept its `n` ticks, so no tick wakeup is lost. `ImplementsLifecycle`: every step refines `ProcLifecycle`. `LockOrder` (spec 2): a hart takes `wait_lock` or `tickslock` only while it holds no slot lock, and a slot lock only after the slot locks it holds, in table order. `NoSpinDeadlock`: a hart that cannot take its next step is spinning on a lock held by another hart, and that hart can step. This is stronger than TLC's deadlock check, which the idle scheduler loop alone would satisfy (about 335,000 states). |
| `proc_getprocinfo` | violation | `GetprocinfoPpidIsParent`: a child reads `p->parent`, the parent exits and init's `wait` frees it, and `getprocinfo` returns ppid 0 for a process whose parent is init (pid 1). |
| `proc_priority_scan` | violation | `PriorityRespected`: the scan can pick a priority-15 process after a slot it has passed got priority 3 or turned RUNNABLE. |
| `proc_kill_wait` | violation | `KilledNeverAsleep`: no killed process is asleep in `wait()` (on its own slot as channel). `kill` lands between `wait`'s `p->killed` test and `sleep`, so the killed parent sleeps until a child exits. A killed `sys_sleep` on `&ticks` is not counted, since the next tick wakes it. |
| `proc_kill_zero` | violation | `NewProcNotKilled`: `kill(0)` marks a free slot, and the next `fork` hands out a child that is already killed. |
| `ring_fifo` | pass | A 3-entry ring under every call sequence of up to 3 processes implements a FIFO of 2 (`FifoOfCapMinusOne`, `TypeOK`). |
| `rr_kernel_full` | violation | `EveryRunnableDispatched` with `n = NPROC = 4` all RUNNABLE: the fourth is dropped by `enqueue` and never runs, although the ring has as many entries as the table (spec 4.4). |
| `rr_sim` | pass | Three processes with bursts 1..4 and quanta 1 and 3: the user copy always returns (`SimTerminates`), with every process completed, `time` equal to the sum of the bursts and `ceiling(burst/quantum)` slices each (`ScheduleAccountsForEveryBurst`). Bursts equal to the quantum give spec 8's N-quantum scenario. |
| `perf_suite` | pass | Every array of 3 processes in the bounds above. `SortIsStable`: the bubble sort equals the stable sort by arrival. `QueuedOnceAtItsLevel`: at the head of each `rr`/`mlq` pass, every admitted unfinished process is queued exactly once, on its level's queue. `WorkConserving`: when any of the three loops ends, `t` is the makespan of a CPU that never idles while work waits. `NoRunBeforeArrival`: no process starts before it arrives, so the `waiting < 0` clamp never fires. `SimsTerminate`: `run_suite` returns. |
| `sem_safety` | pass | `test_semaphore.c` with four workers, initial value 1 or 2, spurious wakeups, and a `pthread_create` that may fail (about 20,800 states). `NoStrandedWaiter`: while a thread is blocked, every available unit has a woken thread on its way to it. `NoLostIncrement`: when `main()` returns 0 with initial value 1, `shared_counter` equals the number of workers. `DestroyWhenIdle`: on the success path, `sem_print_status` and `sem_destroy` come only after every worker has returned, with the mutex free. `TestTerminates`: `main()` always returns. |
| `mlq_kernel` | pass | 4-entry rings and 3 entries, with any of RUNNABLE/SLEEPING, names `init`/`hello`/`ls` and `remaining_time` 0/3/9. The same for the user copy (bursts 3/9) and the migration test (`from` 2, `to` 1 or 2); about 45,600 states. Each program returns (`MLQTerminates`). A tier gets a slice only after every process queued at a better tier has completed (`TierOrder`). No ring holds a process twice, and only the tier its `queue_level` names holds it (`QueuedOnce`), so `main()`'s dequeue before `migrate_process` is what the migration needs. The user copy charges exactly the bursts it was given (`UserMLQAccountsForWork`), where the kernel copy does not (`mlq_kernel_work`). |
| `mlq_kernel_work` | violation | `MLQAccountsForWork`: requeueing resets `remaining_time` to the slice. `remaining_time` 3 at tier 0 is charged 2 + 2. |

Each passing property has a mutant in `PROJECT.json`, a plausible bug that TLC
must catch:
- `wait` frees a zombie without taking its lock;
- `exit` forgets `wakeup(p->parent)`;
- `exit` skips `reparent`;
- `exit` keeps `wait_lock` across `sched()`;
- `setpriority` skips its range check;
- `sys_sleep`'s loop test is `ticks - ticks0 <= n`;
- `kill` makes its target RUNNABLE whatever its state;
- `dequeue` does not wrap `front`;
- `enqueue`'s full test forgets the modulo;
- the user loop charges a full quantum for the last slice;
- the user loop completes only on `burst < 0`;
- `sort_by_arrival` swaps equal arrivals (`>=`);
- `simulate_rr` runs a full quantum whatever is left;
- the arrivals loop drops its arrival test;
- the arrivals loop admits only arrivals strictly before `t`;
- FCFS starts a process at `t` without waiting for its arrival;
- `simulate_mlq` requeues an unfinished process on `q0`;
- `schedule_from_multilevel` checks the medium tier first;
- `scheduler()` keeps the selected slot's lock after `swtch()` returns;
- `sleep()` retakes its condition lock without releasing `p->lock`;
- `sem_wait`'s loop test is `value < 0`;
- `sem_signal` signals only when `value` went from 0 to 1;
- `sem_signal` signals only when more than one thread is waiting;
- the wait loop is an `if`: a woken waiter takes a unit without testing
  `value` again;
- the join loop stops one thread short;
- the kernel multilevel loop charges a full slice;
- the kernel multilevel loop completes only on `remaining_time < 0`;
- `main()` hands a process to `migrate_process` without dequeuing it;
- the user multilevel loop resets the burst to the slice, as the kernel
  does.

## 5. Fairness

The passing run checks safety only. xv6 spinlocks are test-and-set without
queueing, so the code guarantees no fairness for lock acquisition. The strict
priority scheduler may starve a process, and the spec accepts that. No
liveness property of `Proc` is therefore claimed.

`Semaphore` gives `main()` weak fairness and every worker strong fairness.
The OS keeps running a thread that can run. A thread blocked in
`pthread_cond_wait` has no enabled step, and spurious wakeups get no
fairness, since none is promised. A thread waiting for the mutex is enabled
only while the mutex is free. Every holder releases it after one short
critical section, and `pthread_mutex_unlock` wakes a thread waiting in
`pthread_mutex_lock`. So a thread that finds the mutex free again and again
is granted it. Under weak fairness alone, TLC finds a behaviour where a
blocked thread's endless spurious wakeups keep retaking the mutex and starve
the worker that would signal it; strong fairness for the worker rules out
that starvation, and spurious wakeups stay unfair. A woken waiter may lose the
mutex to a newcomer, but each worker calls `sem_wait` once, so this ends. `TestTerminates` is checked under this
fairness. The cfg sets `CHECK_DEADLOCK FALSE`, because the process really does
end (`mainPc = "exit"`).

`RoundRobin`, `RoundRobinSim`, `MultiLevelQueue` and `PerfCompare` are single-threaded functions. Weak fairness
of their next-state relation only says that the running function keeps taking
steps, which is all their liveness properties assume. Their cfgs set
`CHECK_DEADLOCK FALSE`, because the function really does return (`pc = "done"`).

## 6. Not modelled, and why

- The memory and file side of the code: page tables, `uvmcopy`, `copyout`,
  files, and cwd. Their failures appear only as nondeterministic outcomes.
- `p->sz`, `p->name` and `xstate`. No property tells their values apart.
- The trap layer, which is not in `src/`. It is where a killed process exits
  and where `kill(1)` would make init panic.
- `procdump`, which only prints.
- The device, memory and console initialisation in `main.c`, and the
  weak-memory reordering its barriers prevent.
- Kernel-mode timer preemption. Yield is taken only from user space.
- `sys_uptime`, `sys_getsystime` and `sys_getpid`, which only read, and
  `sys_sbrk`, which is memory only.
- The writes of 2 (`COMPLETED`) and 0 (`READY`) into `p->state` at
  `proc.c:924` and `proc.c:929`. In the kernel's `enum procstate` these are
  SLEEPING and UNUSED, so a requeued process becomes a free slot. This is
  visible on the two lines. It has no run of its own; the violation runs
  go to the races and accounting errors that a reading of the code does not
  show. `MultiLevelQueue` still makes the writes.
- `priority_demo.c` and `priority_demo_en.c`, which only call the system
  calls and print. `perf_compare.c`'s `main` and its averages, which only
  format results.
- The `main()` drivers of the user programs. They print, or call the system
  calls once.
- The kernel `round_robin_schedule`'s non-termination has no run of its own.
  `Dispatch` requeues every process unconditionally (`proc.c:746`), so it is
  evident from the code.

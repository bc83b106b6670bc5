-------------------------------- MODULE Proc --------------------------------
(***************************************************************************)
(* The process table of src/kernel/proc.c on several harts: allocproc and  *)
(* freeproc, the strict-priority scheduler() loop, sched/yield/forkret,    *)
(* sleep/wakeup on the wait() channel, fork, exit, wait, kill, and the     *)
(* setpriority system call of src/kernel/sysproc.c.                        *)
(*                                                                         *)
(* Code runs on harts (CPUs).  A hart either runs its scheduler() loop or  *)
(* the kernel thread of the process in cpuProc[c]; that thread resumes at  *)
(* pc[p].  A spinlock is owned by a hart, as in xv6: the scheduler takes   *)
(* p->lock and the process it switches to releases it, and vice versa.     *)
(* One action is one critical section (the code between two lock          *)
(* operations); a loop that takes one lock at a time and whose outcome    *)
(* other harts cannot change while it runs (wakeup, kill, the child scan   *)
(* of wait) is one action guarded by the locks it takes.  The scheduler's  *)
(* scan, whose outcome other harts do change, is one action per slot.      *)
(***************************************************************************)
EXTENDS Integers, FiniteSets, FiniteSetsExt

CONSTANTS
  NPROC,      \* size of proc[] (param.h); slots are 1..NPROC in scan order
  CPUs,       \* the harts, each running scheduler() after main()
  MaxPid,     \* bound: fork() is not called once nextpid exceeds MaxPid
  KillPids,   \* pid arguments user code passes to kill() and setpriority()
  Prios,      \* priority arguments user code passes to setpriority()
  NoProc,     \* a null struct proc * (also the null sleep channel)
  NoCpu,      \* the owner of a spinlock nobody holds
  SleepArgs,  \* the n arguments user code passes to sleep(n)
  MaxTicks,   \* bound: the clock stops ticking once ticks = MaxTicks
  TicksChan   \* &ticks, the sleep channel of sys_sleep()

ASSUME NPROC \in Nat \ {0}
ASSUME MaxPid \in Nat
ASSUME KillPids \subseteq Int /\ Prios \subseteq Int
ASSUME SleepArgs \subseteq Int /\ MaxTicks \in Nat

VARIABLES
  state,      \* p->state
  pid,        \* p->pid
  parent,     \* p->parent (guarded by wait_lock)
  killed,     \* p->killed
  chan,       \* p->chan: the sleep channel, a proc address or null
  priority,   \* p->priority
  nextpid,    \* nextpid (guarded by pid_lock)
  lock,       \* p->lock: the hart holding it, or NoCpu
  waitLock,   \* wait_lock: the hart holding it, or NoCpu
  cpuProc,    \* c->proc
  spc,        \* where hart c is in scheduler(): "scan", "running", "switched"
  scanIdx,    \* scheduler(): the slot the scan loop is at
  selected,   \* scheduler(): selected
  highest,    \* scheduler(): highest_priority
  pc,         \* where the kernel thread of slot p resumes
  child,      \* fork(): np, the child being set up
  ticks,      \* ticks (guarded by tickslock)
  tickLock,   \* tickslock: the hart holding it, or NoCpu
  ticks0,     \* sys_sleep(): its local ticks0
  sleepN,     \* sys_sleep(): its argument n
  infoParent, \* sys_getprocinfo(): p->parent as it read it
  ppidAtCall, \* the pid of p's parent when sys_getprocinfo() read p->parent
  started     \* main.c's started: the boot hart has run userinit()

procVars  == <<state, pid, parent, killed, chan, priority, nextpid>>
schedVars == <<cpuProc, spc, scanIdx, selected, highest>>
tickVars  == <<ticks, tickLock, ticks0, sleepN>>
infoVars  == <<infoParent, ppidAtCall>>
vars == <<procVars, lock, waitLock, schedVars, pc, child, tickVars, infoVars,
          started>>

Procs == 1..NPROC
InitProc == 1                 \* userinit(): allocproc() returns proc[0]
DefaultPriority == 15         \* allocproc(): p->priority = 15
NoPriority == 1000            \* scheduler(): highest_priority = 1000
PrioRange == 0..10            \* sys_setpriority(): prio < 0 || prio > 10 fails
States == {"UNUSED", "USED", "SLEEPING", "RUNNABLE", "RUNNING", "ZOMBIE"}
Pcs == {"none", "forkret", "user", "fork_link", "fork_run", "exit_wakeup",
        "exit_sched", "dead", "wait_scan", "wait_sleep", "wait_wakeup",
        "wait_reacquire", "yield_return",
        "tsleep_sleep", "tsleep_wakeup", "tsleep_reacquire", "gpi_ppid"}

(* The process p is executing on hart c (its kernel thread, not the       *)
(* scheduler, owns the hart).                                             *)
Running(p, c) == cpuProc[c] = p /\ spc[c] = "running"

(* pc[p] moves from one point of its kernel thread to the next.           *)
Goto(p, from, to) == pc[p] = from /\ pc' = [pc EXCEPT ![p] = to]

(* sched(): the process's context is saved and the hart continues in      *)
(* scheduler() right after its swtch().                                   *)
Sched(c) == spc' = [spc EXCEPT ![c] = "switched"]

(* wakeup(ch) called by slot self: every other slot SLEEPING on ch        *)
(* becomes RUNNABLE.                                                      *)
Wakeup(st, ch, self) ==
  [q \in Procs |-> IF q # self /\ st[q] = "SLEEPING" /\ chan[q] = ch
                   THEN "RUNNABLE" ELSE st[q]]

(* The first slot, in table order, satisfying a predicate.                *)
FirstOf(S) == Min(S)

(* allocproc(): the first UNUSED slot of the table.                       *)
FirstUnused == FirstOf({q \in Procs : state[q] = "UNUSED"})

(* reparent(p): every child of p gets init as its parent.                 *)
Reparent(p) == [q \in Procs |-> IF parent[q] = p THEN InitProc ELSE parent[q]]

(* freeproc(q): the slot's identity fields are cleared and it is UNUSED.  *)
Freeproc(q) ==
  /\ state'    = [state    EXCEPT ![q] = "UNUSED"]
  /\ pid'      = [pid      EXCEPT ![q] = 0]
  /\ parent'   = [parent   EXCEPT ![q] = NoProc]
  /\ chan'     = [chan     EXCEPT ![q] = NoProc]
  /\ killed'   = [killed   EXCEPT ![q] = FALSE]
  /\ priority' = [priority EXCEPT ![q] = 0]

-----------------------------------------------------------------------------
(* scheduler(): one iteration of the scan.  It takes slot i's lock; a     *)
(* RUNNABLE slot of strictly better priority becomes selected and its     *)
(* lock stays held (the previous selection's lock is released); any other *)
(* slot's lock is released again.                                         *)
Scheduler_scan_unlocked(c) ==
  /\ spc[c] = "scan"
  /\ scanIdx[c] \in Procs
  /\ LET i == scanIdx[c] IN
       /\ lock[i] = NoCpu
       /\ IF state[i] = "RUNNABLE" /\ priority[i] < highest[c]
            THEN /\ selected' = [selected EXCEPT ![c] = i]
                 /\ highest' = [highest EXCEPT ![c] = priority[i]]
            ELSE UNCHANGED <<selected, highest>>
       /\ scanIdx' = [scanIdx EXCEPT ![c] = i + 1]
  /\ UNCHANGED <<procVars, lock, waitLock, cpuProc, spc, pc, child>>

Scheduler_scan(c) ==
  /\ spc[c] = "scan"
  /\ scanIdx[c] \in Procs
  /\ LET i == scanIdx[c] IN
       /\ lock[i] = NoCpu
       /\ IF state[i] = "RUNNABLE" /\ priority[i] < highest[c]
            THEN /\ lock' = [q \in Procs |->
                               IF q = i THEN c
                               ELSE IF q = selected[c] THEN NoCpu
                               ELSE lock[q]]
                 /\ selected' = [selected EXCEPT ![c] = i]
                 /\ highest' = [highest EXCEPT ![c] = priority[i]]
            ELSE UNCHANGED <<lock, selected, highest>>
       /\ scanIdx' = [scanIdx EXCEPT ![c] = i + 1]
  /\ UNCHANGED <<procVars, waitLock, cpuProc, spc, pc, child>>

(* scheduler(): the scan found a process; it is marked RUNNING and the    *)
(* hart swtch()es to it, still holding its lock.                          *)
Scheduler_switch(c) ==
  /\ spc[c] = "scan"
  /\ scanIdx[c] = NPROC + 1
  /\ selected[c] # NoProc
  /\ state' = [state EXCEPT ![selected[c]] = "RUNNING"]
  /\ cpuProc' = [cpuProc EXCEPT ![c] = selected[c]]
  /\ spc' = [spc EXCEPT ![c] = "running"]
  /\ UNCHANGED <<pid, parent, killed, chan, priority, nextpid, lock, waitLock,
                 scanIdx, selected, highest, pc, child>>

(* scheduler(): the scan found nothing; the loop starts over.             *)
Scheduler_idle(c) ==
  /\ spc[c] = "scan"
  /\ scanIdx[c] = NPROC + 1
  /\ selected[c] = NoProc
  /\ scanIdx' = [scanIdx EXCEPT ![c] = 1]
  /\ highest' = [highest EXCEPT ![c] = NoPriority]
  /\ UNCHANGED <<procVars, lock, waitLock, cpuProc, spc, selected, pc, child>>

(* scheduler(), mutated: the selected slot's lock is not released after  *)
(* swtch() returns.                                                       *)
Scheduler_resume_keeplock(c) ==
  /\ spc[c] = "switched"
  /\ cpuProc' = [cpuProc EXCEPT ![c] = NoProc]
  /\ spc' = [spc EXCEPT ![c] = "scan"]
  /\ scanIdx' = [scanIdx EXCEPT ![c] = 1]
  /\ selected' = [selected EXCEPT ![c] = NoProc]
  /\ highest' = [highest EXCEPT ![c] = NoPriority]
  /\ UNCHANGED <<procVars, lock, waitLock, pc, child>>

(* scheduler(), after swtch() returns: c->proc = 0, the selected slot's   *)
(* lock (taken over from the process's sched()) is released and the loop  *)
(* starts over.                                                           *)
Scheduler_resume(c) ==
  /\ spc[c] = "switched"
  /\ cpuProc' = [cpuProc EXCEPT ![c] = NoProc]
  /\ lock' = [lock EXCEPT ![selected[c]] = NoCpu]
  /\ spc' = [spc EXCEPT ![c] = "scan"]
  /\ scanIdx' = [scanIdx EXCEPT ![c] = 1]
  /\ selected' = [selected EXCEPT ![c] = NoProc]
  /\ highest' = [highest EXCEPT ![c] = NoPriority]
  /\ UNCHANGED <<procVars, waitLock, pc, child>>

-----------------------------------------------------------------------------
(* forkret(): a new process's first run releases the lock the scheduler   *)
(* took for it and returns to user space.                                 *)
Forkret(p) ==
  /\ \E c \in CPUs : Running(p, c)
  /\ Goto(p, "forkret", "user")
  /\ lock' = [lock EXCEPT ![p] = NoCpu]
  /\ UNCHANGED <<procVars, waitLock, schedVars, child>>

(* fork(), up to release(&np->lock): allocproc() takes the first UNUSED   *)
(* slot under its lock, allocpid() gives it nextpid, and the slot becomes *)
(* USED with priority 15 and a context that resumes in forkret.  The      *)
(* trapframe, page table or uvmcopy allocation may fail, and freeproc()   *)
(* then returns the slot to UNUSED: the pid is consumed either way.       *)
(* allocproc() leaves p->killed as it finds it.  Finding no UNUSED slot   *)
(* makes fork() return -1 without a state change.                         *)
Fork_alloc(p) ==
  /\ \E c \in CPUs : Running(p, c)
  /\ pc[p] = "user"
  /\ nextpid <= MaxPid
  /\ \E np \in Procs :
       /\ state[np] = "UNUSED"
       /\ np = FirstUnused
       /\ lock[np] = NoCpu
       /\ nextpid' = nextpid + 1
       /\ \/ /\ state' = [state EXCEPT ![np] = "USED"]
             /\ pid' = [pid EXCEPT ![np] = nextpid]
             /\ priority' = [priority EXCEPT ![np] = DefaultPriority]
             /\ pc' = [pc EXCEPT ![p] = "fork_link", ![np] = "forkret"]
             /\ child' = [child EXCEPT ![p] = np]
             /\ UNCHANGED <<parent, killed, chan>>
          \/ /\ Freeproc(np)
             /\ UNCHANGED <<pc, child>>
  /\ UNCHANGED <<lock, waitLock, schedVars>>

(* fork(): np->parent = p under wait_lock.                                *)
Fork_link(p) ==
  /\ \E c \in CPUs : Running(p, c)
  /\ Goto(p, "fork_link", "fork_run")
  /\ waitLock = NoCpu
  /\ parent' = [parent EXCEPT ![child[p]] = p]
  /\ UNCHANGED <<state, pid, killed, chan, priority, nextpid, lock, waitLock,
                 schedVars, child>>

(* fork(): np->state = RUNNABLE under np->lock; fork() returns the pid.   *)
Fork_run(p) ==
  /\ \E c \in CPUs : Running(p, c)
  /\ Goto(p, "fork_run", "user")
  /\ lock[child[p]] = NoCpu
  /\ state' = [state EXCEPT ![child[p]] = "RUNNABLE"]
  /\ child' = [child EXCEPT ![p] = NoProc]
  /\ UNCHANGED <<pid, parent, killed, chan, priority, nextpid, lock, waitLock,
                 schedVars>>

-----------------------------------------------------------------------------
(* exit(): after closing its files, the process takes wait_lock.  The     *)
(* init process never exits (exit() panics "init exiting").               *)
Exit_acquire(p) ==
  /\ \E c \in CPUs : Running(p, c) /\ waitLock' = c
  /\ p # InitProc
  /\ Goto(p, "user", "exit_wakeup")
  /\ waitLock = NoCpu
  /\ UNCHANGED <<procVars, lock, schedVars, child>>

(* exit(), mutated: the parent is not woken.                              *)
Exit_wakeup_noparent(p) ==
  /\ \E c \in CPUs : Running(p, c)
  /\ Goto(p, "exit_wakeup", "exit_sched")
  /\ \A q \in Procs \ {p} : lock[q] = NoCpu
  /\ parent' = Reparent(p)
  /\ state' = IF \E q \in Procs : parent[q] = p
                THEN Wakeup(state, InitProc, p) ELSE state
  /\ UNCHANGED <<pid, killed, chan, priority, nextpid, lock, waitLock,
                 schedVars, child>>

(* exit(), mutated: the children are not given to init.                   *)
Exit_wakeup_noreparent(p) ==
  /\ \E c \in CPUs : Running(p, c)
  /\ Goto(p, "exit_wakeup", "exit_sched")
  /\ \A q \in Procs \ {p} : lock[q] = NoCpu
  /\ state' = Wakeup(state, parent[p], p)
  /\ UNCHANGED <<pid, parent, killed, chan, priority, nextpid, lock, waitLock,
                 schedVars, child>>

(* exit(), holding wait_lock: reparent() gives every child to init and    *)
(* wakes init for each, then wakeup(p->parent).  Each wakeup takes every   *)
(* other slot's lock in turn.                                             *)
Exit_wakeup(p) ==
  /\ \E c \in CPUs : Running(p, c)
  /\ Goto(p, "exit_wakeup", "exit_sched")
  /\ \A q \in Procs \ {p} : lock[q] = NoCpu
  /\ parent' = Reparent(p)
  /\ LET afterReparent == IF \E q \in Procs : parent[q] = p
                            THEN Wakeup(state, InitProc, p) ELSE state
     IN  state' = Wakeup(afterReparent, parent[p], p)
  /\ UNCHANGED <<pid, killed, chan, priority, nextpid, lock, waitLock,
                 schedVars, child>>

(* exit(), mutated: wait_lock is released only after sched().             *)
Exit_sched_keepwait(p) ==
  /\ \E c \in CPUs : Running(p, c) /\ lock' = [lock EXCEPT ![p] = c]
                                   /\ Sched(c)
  /\ Goto(p, "exit_sched", "dead")
  /\ lock[p] = NoCpu
  /\ state' = [state EXCEPT ![p] = "ZOMBIE"]
  /\ UNCHANGED <<pid, parent, killed, chan, priority, nextpid, waitLock,
                 cpuProc, scanIdx, selected, highest, child>>

(* exit(): acquire(&p->lock), state ZOMBIE, release(&wait_lock), and      *)
(* sched() never to return.                                               *)
Exit_sched(p) ==
  /\ \E c \in CPUs : Running(p, c) /\ lock' = [lock EXCEPT ![p] = c]
                                   /\ Sched(c)
  /\ Goto(p, "exit_sched", "dead")
  /\ lock[p] = NoCpu
  /\ state' = [state EXCEPT ![p] = "ZOMBIE"]
  /\ waitLock' = NoCpu
  /\ UNCHANGED <<pid, parent, killed, chan, priority, nextpid,
                 cpuProc, scanIdx, selected, highest, child>>

-----------------------------------------------------------------------------
(* wait(): acquire(&wait_lock) before the first scan of the table.        *)
Wait_acquire(p) ==
  /\ \E c \in CPUs : Running(p, c) /\ waitLock' = c
  /\ Goto(p, "user", "wait_scan")
  /\ waitLock = NoCpu
  /\ UNCHANGED <<procVars, lock, schedVars, child>>

(* wait(), mutated: a ZOMBIE child is freed without taking its lock.      *)
Wait_scan_nolock(p) ==
  /\ \E c \in CPUs : Running(p, c)
  /\ pc[p] = "wait_scan"
  /\ LET kids == {q \in Procs : parent[q] = p}
         zombies == {q \in kids : state[q] = "ZOMBIE"}
     IN  \/ /\ zombies # {}
            /\ Freeproc(FirstOf(zombies))
            /\ waitLock' = NoCpu
            /\ pc' = [pc EXCEPT ![p] = "user"]
            /\ UNCHANGED nextpid
         \/ /\ zombies = {}
            /\ \A q \in kids : lock[q] = NoCpu
            /\ IF kids = {} \/ killed[p]
                 THEN waitLock' = NoCpu /\ pc' = [pc EXCEPT ![p] = "user"]
                 ELSE UNCHANGED waitLock /\ pc' = [pc EXCEPT ![p] = "wait_sleep"]
            /\ UNCHANGED procVars
  /\ UNCHANGED <<lock, schedVars, child>>

(* wait(), holding wait_lock: one scan of the table.  Each child's lock   *)
(* is taken in table order ("make sure the child isn't still in exit() or *)
(* swtch()"), up to the first ZOMBIE child.  A ZOMBIE child is freed and  *)
(* its pid returned, unless copyout() of its status fails, which returns  *)
(* -1 and leaves it ZOMBIE.  With no children, or when p->killed, wait()  *)
(* returns -1; otherwise it goes on to sleep(p, &wait_lock).  A child     *)
(* turns ZOMBIE only under wait_lock, so the scan's outcome is fixed.     *)
Wait_scan(p) ==
  /\ \E c \in CPUs : Running(p, c)
  /\ pc[p] = "wait_scan"
  /\ LET kids == {q \in Procs : parent[q] = p}
         zombies == {q \in kids : state[q] = "ZOMBIE"}
     IN  \/ /\ zombies # {}
            /\ \A q \in kids : q <= FirstOf(zombies) => lock[q] = NoCpu
            /\ waitLock' = NoCpu
            /\ pc' = [pc EXCEPT ![p] = "user"]
            /\ \/ Freeproc(FirstOf(zombies))
               \/ UNCHANGED <<state, pid, parent, chan, killed, priority>>
            /\ UNCHANGED nextpid
         \/ /\ zombies = {}
            /\ \A q \in kids : lock[q] = NoCpu
            /\ IF kids = {} \/ killed[p]
                 THEN waitLock' = NoCpu /\ pc' = [pc EXCEPT ![p] = "user"]
                 ELSE UNCHANGED waitLock /\ pc' = [pc EXCEPT ![p] = "wait_sleep"]
            /\ UNCHANGED procVars
  /\ UNCHANGED <<lock, schedVars, child>>

(* sleep(chan, lk): acquire(&p->lock) first, then release the condition  *)
(* lock lk (the caller conjoins which one), record the channel, become     *)
(* SLEEPING and sched().                                                  *)
Sleep(p, ch, from, to) ==
  /\ \E c \in CPUs : Running(p, c) /\ lock' = [lock EXCEPT ![p] = c]
                                   /\ Sched(c)
  /\ Goto(p, from, to)
  /\ lock[p] = NoCpu
  /\ chan' = [chan EXCEPT ![p] = ch]
  /\ state' = [state EXCEPT ![p] = "SLEEPING"]
  /\ UNCHANGED <<pid, parent, killed, priority, nextpid,
                 cpuProc, scanIdx, selected, highest, child>>

(* wait(): sleep(p, &wait_lock).                                          *)
Wait_sleep(p) ==
  /\ Sleep(p, p, "wait_sleep", "wait_wakeup")
  /\ waitLock' = NoCpu
  /\ UNCHANGED tickVars

(* Where sleep() returns to in its caller, once it has reacquired lk.     *)
SleepResume == [wait_wakeup  |-> "wait_reacquire",
                tsleep_wakeup |-> "tsleep_reacquire"]

(* sleep(), mutated: p->lock is not released before lk is retaken.      *)
Sleep_return_keeplock(p) ==
  /\ \E c \in CPUs : Running(p, c)
  /\ pc[p] \in DOMAIN SleepResume
  /\ pc' = [pc EXCEPT ![p] = SleepResume[pc[p]]]
  /\ chan' = [chan EXCEPT ![p] = NoProc]
  /\ UNCHANGED <<state, pid, parent, killed, priority, nextpid, lock, waitLock,
                 schedVars, child, tickVars>>

(* sleep(), once scheduled again: p->chan = 0 and release(&p->lock).      *)
Sleep_return(p) ==
  /\ \E c \in CPUs : Running(p, c)
  /\ pc[p] \in DOMAIN SleepResume
  /\ pc' = [pc EXCEPT ![p] = SleepResume[pc[p]]]
  /\ chan' = [chan EXCEPT ![p] = NoProc]
  /\ lock' = [lock EXCEPT ![p] = NoCpu]
  /\ UNCHANGED <<state, pid, parent, killed, priority, nextpid, waitLock,
                 schedVars, child, tickVars>>

(* sleep(): acquire(lk) again; wait() scans the table once more.          *)
Wait_reacquire(p) ==
  /\ \E c \in CPUs : Running(p, c) /\ waitLock' = c
  /\ Goto(p, "wait_reacquire", "wait_scan")
  /\ waitLock = NoCpu
  /\ UNCHANGED <<procVars, lock, schedVars, child, tickVars>>

-----------------------------------------------------------------------------
(* sys_sleep(): `ticks - ticks0 < n` compares a uint with an int, so n is *)
(* converted to uint: a negative n becomes 2^32 + n, above any tick count *)
(* below 2^31 (the model's ticks stay below MaxTicks).                    *)
ElapsedBelow_inclusive(elapsed, n) == IF n >= 0 THEN elapsed <= n ELSE TRUE

ElapsedBelow(elapsed, n) == IF n >= 0 THEN elapsed < n ELSE TRUE

(* sys_sleep(), holding tickslock: one test of the loop.  Once n ticks    *)
(* have passed, or p->killed, it releases tickslock and returns (0 or    *)
(* -1); otherwise it goes on to sleep(&ticks, &tickslock).  The locals    *)
(* ticks0 and n are dropped on return.                                    *)
SleepLoop(p, c, t0, n) ==
  IF ElapsedBelow(ticks - t0, n) /\ ~killed[p]
    THEN /\ tickLock' = c
         /\ pc' = [pc EXCEPT ![p] = "tsleep_sleep"]
         /\ ticks0' = [ticks0 EXCEPT ![p] = t0]
         /\ sleepN' = [sleepN EXCEPT ![p] = n]
    ELSE /\ tickLock' = NoCpu
         /\ pc' = [pc EXCEPT ![p] = "user"]
         /\ ticks0' = [ticks0 EXCEPT ![p] = 0]
         /\ sleepN' = [sleepN EXCEPT ![p] = 0]

(* sys_sleep(n): acquire(&tickslock), ticks0 = ticks, first loop test.    *)
Sys_sleep(p, n) ==
  /\ \E c \in CPUs : Running(p, c) /\ SleepLoop(p, c, ticks, n)
  /\ pc[p] = "user"
  /\ tickLock = NoCpu
  /\ UNCHANGED <<procVars, lock, waitLock, schedVars, child, ticks>>

(* sys_sleep(): sleep(&ticks, &tickslock).                                *)
Tsleep_sleep(p) ==
  /\ Sleep(p, TicksChan, "tsleep_sleep", "tsleep_wakeup")
  /\ tickLock' = NoCpu
  /\ UNCHANGED <<waitLock, ticks, ticks0, sleepN>>

(* sleep() reacquires tickslock; sys_sleep() tests its loop again.        *)
Tsleep_reacquire(p) ==
  /\ \E c \in CPUs : Running(p, c) /\ SleepLoop(p, c, ticks0[p], sleepN[p])
  /\ pc[p] = "tsleep_reacquire"
  /\ tickLock = NoCpu
  /\ UNCHANGED <<procVars, lock, waitLock, schedVars, child, ticks>>

(* clockintr() (kernel/trap.c), on a hart whose interrupts are on, i.e.   *)
(* that has entered scheduler() and holds no spinlock: under tickslock,   *)
(* ticks++ and wakeup(&ticks), which takes every slot's lock in turn.     *)
Clockintr ==
  /\ \E c \in CPUs :
       /\ spc[c] \in {"scan", "running", "switched"}
       /\ waitLock # c
       /\ state' = Wakeup(state, TicksChan, cpuProc[c])
  /\ tickLock = NoCpu
  /\ ticks < MaxTicks
  /\ \A q \in Procs : lock[q] = NoCpu
  /\ ticks' = ticks + 1
  /\ UNCHANGED <<pid, parent, killed, chan, priority, nextpid, lock, waitLock,
                 schedVars, pc, child, tickLock, ticks0, sleepN>>

-----------------------------------------------------------------------------
(* yield(), called from the timer interrupt in user space: acquire        *)
(* p->lock, become RUNNABLE, sched().                                     *)
Yield(p) ==
  /\ \E c \in CPUs : Running(p, c) /\ lock' = [lock EXCEPT ![p] = c]
                                   /\ Sched(c)
  /\ Goto(p, "user", "yield_return")
  /\ lock[p] = NoCpu
  /\ state' = [state EXCEPT ![p] = "RUNNABLE"]
  /\ UNCHANGED <<pid, parent, killed, chan, priority, nextpid, waitLock,
                 cpuProc, scanIdx, selected, highest, child>>

(* yield(), once scheduled again: release(&p->lock).                      *)
Yield_return(p) ==
  /\ \E c \in CPUs : Running(p, c)
  /\ Goto(p, "yield_return", "user")
  /\ lock' = [lock EXCEPT ![p] = NoCpu]
  /\ UNCHANGED <<procVars, waitLock, schedVars, child>>

(* kill(), mutated: the target becomes RUNNABLE whatever its state.      *)
Kill_anystate(p, k) ==
  /\ \E c \in CPUs : Running(p, c)
  /\ pc[p] = "user"
  /\ LET found == {q \in Procs : pid[q] = k} IN
       /\ found # {}
       /\ LET q == FirstOf(found) IN
            /\ lock[q] = NoCpu
            /\ killed' = [killed EXCEPT ![q] = TRUE]
            /\ state' = [state EXCEPT ![q] = "RUNNABLE"]
  /\ UNCHANGED <<pid, parent, chan, priority, nextpid, lock, waitLock,
                 schedVars, pc, child>>

(* kill(k): the first slot whose pid is k, under its lock, gets killed    *)
(* set and, if SLEEPING, becomes RUNNABLE.  The slots before it are       *)
(* locked and released in turn without effect.  No such slot: -1.         *)
Kill(p, k) ==
  /\ \E c \in CPUs : Running(p, c)
  /\ pc[p] = "user"
  /\ LET found == {q \in Procs : pid[q] = k} IN
       /\ found # {}
       /\ LET q == FirstOf(found) IN
            /\ lock[q] = NoCpu
            /\ killed' = [killed EXCEPT ![q] = TRUE]
            /\ state' = [state EXCEPT ![q] = IF @ = "SLEEPING" THEN "RUNNABLE"
                                                               ELSE @]
  /\ UNCHANGED <<pid, parent, chan, priority, nextpid, lock, waitLock,
                 schedVars, pc, child>>

Setpriority(p, k, prio) ==
  /\ \E c \in CPUs : Running(p, c)
  /\ pc[p] = "user"
  /\ prio \in PrioRange
  /\ LET found == {q \in Procs : pid[q] = k} IN
       /\ found # {}
       /\ LET q == FirstOf(found) IN
            /\ lock[q] = NoCpu
            /\ priority' = [priority EXCEPT ![q] = prio]
  /\ UNCHANGED <<state, pid, parent, killed, chan, nextpid, lock, waitLock,
                 schedVars, pc, child>>

-----------------------------------------------------------------------------
(* p->parent ? p->parent->pid : 0                                         *)
PidOf(q) == IF q = NoProc THEN 0 ELSE pid[q]

(* sys_getprocinfo(): kinfo.ppid reads p->parent without wait_lock or    *)
(* any p->lock, then dereferences it.                                     *)
Getprocinfo_parent(p) ==
  /\ \E c \in CPUs : Running(p, c)
  /\ Goto(p, "user", "gpi_ppid")
  /\ infoParent' = [infoParent EXCEPT ![p] = parent[p]]
  /\ ppidAtCall' = [ppidAtCall EXCEPT ![p] = PidOf(parent[p])]
  /\ UNCHANGED <<procVars, lock, waitLock, schedVars, child, tickVars>>

(* sys_getprocinfo(): parent->pid is read through the pointer q, which is *)
(* the value read before or, since the read races with reparent(), a     *)
(* fresh load of p->parent; the rest of kinfo and copyout() change no    *)
(* kernel state.                                                          *)
Getprocinfo_ppid(p, q) ==
  /\ \E c \in CPUs : Running(p, c)
  /\ Goto(p, "gpi_ppid", "user")
  /\ q \in {infoParent[p], parent[p]}
  /\ infoParent' = [infoParent EXCEPT ![p] = NoProc]
  /\ ppidAtCall' = [ppidAtCall EXCEPT ![p] = 0]
  /\ UNCHANGED <<procVars, lock, waitLock, schedVars, child, tickVars>>

-----------------------------------------------------------------------------
(* start() jumps to main() on every hart.  proc[] is zeroed (UNUSED, pid  *)
(* 0, no parent, no channel), nextpid is 1, every spinlock is free and    *)
(* started is 0.  One hart is cpuid() 0 and boots the kernel; the others  *)
(* spin on started.  Which hart that is makes no difference to the code   *)
(* after it, so Init lets it be any.                                      *)
Init ==
  /\ state    = [q \in Procs |-> "UNUSED"]
  /\ pid      = [q \in Procs |-> 0]
  /\ parent   = [q \in Procs |-> NoProc]
  /\ killed   = [q \in Procs |-> FALSE]
  /\ chan     = [q \in Procs |-> NoProc]
  /\ priority = [q \in Procs |-> 0]
  /\ nextpid  = 1
  /\ lock     = [q \in Procs |-> NoCpu]
  /\ waitLock = NoCpu
  /\ cpuProc  = [c \in CPUs |-> NoProc]
  /\ \E boot \in CPUs :
       spc = [c \in CPUs |-> IF c = boot THEN "boot" ELSE "wait_started"]
  /\ scanIdx  = [c \in CPUs |-> 1]
  /\ selected = [c \in CPUs |-> NoProc]
  /\ highest  = [c \in CPUs |-> NoPriority]
  /\ pc       = [q \in Procs |-> "none"]
  /\ child    = [q \in Procs |-> NoProc]
  /\ ticks    = 0
  /\ tickLock = NoCpu
  /\ ticks0   = [q \in Procs |-> 0]
  /\ sleepN   = [q \in Procs |-> 0]
  /\ infoParent = [q \in Procs |-> NoProc]
  /\ ppidAtCall = [q \in Procs |-> 0]
  /\ started = FALSE

(* userinit(): allocproc() takes the first UNUSED slot, proc[0], and      *)
(* gives it nextpid and priority 15; the slot becomes RUNNABLE with a      *)
(* context that resumes in forkret, and its lock is released.            *)
Userinit ==
  /\ state'    = [state    EXCEPT ![InitProc] = "RUNNABLE"]
  /\ pid'      = [pid      EXCEPT ![InitProc] = nextpid]
  /\ priority' = [priority EXCEPT ![InitProc] = DefaultPriority]
  /\ nextpid'  = nextpid + 1
  /\ pc'       = [pc       EXCEPT ![InitProc] = "forkret"]

(* main() on hart 0: the console, the allocator, paging, procinit() (the  *)
(* locks, left free), traps, interrupts, the buffer cache, inode and file *)
(* tables, the disk, and userinit().  Interrupts stay off.               *)
Main_userinit(c) ==
  /\ spc[c] = "boot"
  /\ Userinit
  /\ spc' = [spc EXCEPT ![c] = "publish"]
  /\ UNCHANGED <<parent, killed, chan, lock, waitLock, cpuProc, scanIdx,
                 selected, highest, child, started>>

(* main() on hart 0: __sync_synchronize(), started = 1, and scheduler().  *)
Main_start(c) ==
  /\ spc[c] = "publish"
  /\ started' = TRUE
  /\ spc' = [spc EXCEPT ![c] = "scan"]
  /\ UNCHANGED <<procVars, lock, waitLock, cpuProc, scanIdx, selected,
                 highest, pc, child>>

(* main() on another hart: while(started == 0); then __sync_synchronize(), *)
(* the hart's paging, trap vector and PLIC setup, and scheduler().        *)
Hart_start(c) ==
  /\ spc[c] = "wait_started"
  /\ started
  /\ spc' = [spc EXCEPT ![c] = "scan"]
  /\ UNCHANGED <<procVars, lock, waitLock, cpuProc, scanIdx, selected,
                 highest, pc, child, started>>

BootStep(c) ==
  /\ Main_userinit(c) \/ Main_start(c) \/ Hart_start(c)
  /\ UNCHANGED <<tickVars, infoVars>>

SchedulerStep(c) ==
  \/ Scheduler_scan(c)
  \/ Scheduler_switch(c)
  \/ Scheduler_idle(c)
  \/ Scheduler_resume(c)

ProcStep(p) ==
  \/ /\ \/ Forkret(p)
        \/ Fork_alloc(p) \/ Fork_link(p) \/ Fork_run(p)
        \/ Exit_acquire(p) \/ Exit_wakeup(p) \/ Exit_sched(p)
        \/ Wait_acquire(p) \/ Wait_scan(p)
        \/ Yield(p) \/ Yield_return(p)
        \/ \E k \in KillPids : Kill(p, k)
        \/ \E k \in KillPids, prio \in Prios : Setpriority(p, k, prio)
     /\ UNCHANGED <<tickVars, infoVars>>
  \/ /\ \/ Wait_sleep(p) \/ Sleep_return(p) \/ Wait_reacquire(p)
        \/ \E n \in SleepArgs : Sys_sleep(p, n)
        \/ Tsleep_sleep(p) \/ Tsleep_reacquire(p)
     /\ UNCHANGED infoVars
  \/ Getprocinfo_parent(p)
  \/ \E q \in Procs \cup {NoProc} : Getprocinfo_ppid(p, q)

Next ==
  \/ /\ \/ \E c \in CPUs : SchedulerStep(c) /\ UNCHANGED <<tickVars, infoVars>>
        \/ \E p \in Procs : ProcStep(p)
        \/ Clockintr /\ UNCHANGED infoVars
     /\ UNCHANGED started
  \/ \E c \in CPUs : BootStep(c)

Spec == Init /\ [][Next]_vars

-----------------------------------------------------------------------------
TypeOK ==
  /\ state    \in [Procs -> States]
  /\ pid      \in [Procs -> 0..MaxPid]
  /\ parent   \in [Procs -> Procs \cup {NoProc}]
  /\ killed   \in [Procs -> BOOLEAN]
  /\ chan     \in [Procs -> Procs \cup {NoProc, TicksChan}]
  /\ priority \in [Procs -> PrioRange \cup {DefaultPriority}]
  /\ nextpid  \in 1..MaxPid + 1
  /\ lock     \in [Procs -> CPUs \cup {NoCpu}]
  /\ waitLock \in CPUs \cup {NoCpu}
  /\ cpuProc  \in [CPUs -> Procs \cup {NoProc}]
  /\ spc      \in [CPUs -> {"boot", "publish", "wait_started", "scan",
                            "running", "switched"}]
  /\ scanIdx  \in [CPUs -> 1..NPROC + 1]
  /\ selected \in [CPUs -> Procs \cup {NoProc}]
  /\ highest  \in [CPUs -> PrioRange \cup {DefaultPriority, NoPriority}]
  /\ pc       \in [Procs -> Pcs]
  /\ child    \in [Procs -> Procs \cup {NoProc}]
  /\ ticks    \in 0..MaxTicks
  /\ tickLock \in CPUs \cup {NoCpu}
  /\ ticks0   \in [Procs -> 0..MaxTicks]
  /\ sleepN   \in [Procs -> SleepArgs \cup {0}]
  /\ infoParent \in [Procs -> Procs \cup {NoProc}]
  /\ ppidAtCall \in [Procs -> 0..MaxPid]
  /\ started \in BOOLEAN

(* wait() takes a ZOMBIE child's lock before freeproc(): a slot is never  *)
(* freed while a hart is still executing it (between exit()'s sched() and *)
(* the scheduler's release after swtch()).                                *)
NoFreeWhileOnCpu ==
  \A c \in CPUs : cpuProc[c] # NoProc => state[cpuProc[c]] # "UNUSED"

(* sleep()/wakeup() on the wait() channel lose no wakeup: a parent asleep *)
(* in wait() never has a ZOMBIE child, because exit() wakes the parent    *)
(* under wait_lock and sleep() releases wait_lock only once it holds      *)
(* p->lock.                                                               *)
NoLostWakeup ==
  \A p \in Procs :
    state[p] = "SLEEPING" /\ chan[p] = p =>
      ~ \E z \in Procs : parent[z] = p /\ state[z] = "ZOMBIE"

(* exit()'s reparent(): the parent of a live process is itself live,      *)
(* never a ZOMBIE or a freed (possibly reused) slot.                      *)
NoOrphans ==
  \A q \in Procs :
    parent[q] # NoProc => state[parent[q]] \notin {"UNUSED", "ZOMBIE"}

(* sched() panics unless the process holds its own p->lock and no other  *)
(* lock (noff == 1) and is no longer RUNNING: at every swtch() back to    *)
(* the scheduler these hold.                                              *)
LockDisciplineAtSwitch ==
  \A c \in CPUs :
    spc[c] = "switched" =>
      LET p == cpuProc[c] IN
        /\ lock[p] = c
        /\ state[p] # "RUNNING"
        /\ waitLock # c
        /\ tickLock # c
        /\ \A q \in Procs \ {p} : lock[q] # c

(* sys_sleep() and clockintr() lose no tick: a process asleep on &ticks   *)
(* has not yet slept its n ticks (a negative n is never slept out).      *)
(* sys_sleep() tests the elapsed ticks under tickslock and holds it until *)
(* sleep() holds p->lock; clockintr() advances ticks and wakes the        *)
(* sleepers under tickslock.                                              *)
TickSleeperNotDue ==
  \A q \in Procs :
    state[q] = "SLEEPING" /\ chan[q] = TicksChan /\ sleepN[q] >= 0 =>
      ticks - ticks0[q] < sleepN[q]

(* No hart spins for ever on a spinlock.  scheduler() holds the selected  *)
(* slot's lock while it acquires later slots' locks, exit() and wait()    *)
(* hold wait_lock while they take children's locks, and sys_sleep() holds *)
(* tickslock into sleep()'s acquire of p->lock.  Whenever a hart (its     *)
(* scheduler loop, or the process it runs) cannot take its next step, it  *)
(* is waiting for a lock that another hart holds (or for started, which   *)
(* the boot hart holds back until userinit()), and that hart can step:    *)
(* no hart waits on itself and no two harts wait on each other.           *)
NoSpinDeadlock ==
  LET CanStep(c) ==
        ENABLED (BootStep(c) \/ SchedulerStep(c)
                 \/ (cpuProc[c] \in Procs /\ ProcStep(cpuProc[c])))
      Holds(d) ==
        \/ waitLock = d \/ tickLock = d \/ \E q \in Procs : lock[q] = d
        \/ spc[d] \in {"boot", "publish"}
  IN  \A c \in CPUs :
        CanStep(c) \/ \E d \in CPUs \ {c} : Holds(d) /\ CanStep(d)

(* Spec 2's lock order, which the code keeps to avoid deadlock: a hart    *)
(* takes wait_lock or tickslock only while it holds no slot lock, and     *)
(* takes a slot lock only while every slot lock it already holds is of an *)
(* earlier slot (the scheduler's scan keeps the selected slot's lock while *)
(* it takes the next ones).  Each step is checked for the locks it leaves *)
(* newly held by a hart.                                                  *)
LockOrder ==
  [][\A c \in CPUs :
       LET heldSlots == {q \in Procs : lock[q] = c}
       IN  /\ (waitLock # c /\ waitLock' = c) => heldSlots = {}
           /\ (tickLock # c /\ tickLock' = c) => heldSlots = {}
           /\ \A q \in Procs :
                (lock[q] # c /\ lock'[q] = c) => \A r \in heldSlots : r < q
    ]_vars

(* The process table keeps the lifecycle of ProcLifecycle: every step of *)
(* every hart, with its locks, moves each slot only along UNUSED, USED,   *)
(* RUNNABLE, RUNNING, SLEEPING, ZOMBIE as spec 3 draws it, hands out pids *)
(* from nextpid only on allocation, clears them only in freeproc(), and   *)
(* rewrites a set parent link only in exit()'s reparent().                *)
(* Before userinit() the table is still zeroed; the abstract lifecycle    *)
(* starts with init already there, so boot maps to stuttering.            *)
Booted == \A c \in CPUs : spc[c] # "boot"
Lifecycle == INSTANCE ProcLifecycle
               WITH Slots <- Procs, Init <- InitProc, NoSlot <- NoProc,
                    st <- IF Booted THEN state
                          ELSE [q \in Procs |-> IF q = InitProc THEN "RUNNABLE"
                                                                ELSE "UNUSED"],
                    pid <- IF Booted THEN pid
                           ELSE [q \in Procs |-> IF q = InitProc THEN 1 ELSE 0],
                    nextpid <- IF Booted THEN nextpid ELSE 2
ImplementsLifecycle == Lifecycle!LSpec

-----------------------------------------------------------------------------
(* Claims of the specification that the code does not keep.               *)

(* Spec 4.4 and 8: the strict-priority scheduler never switches to a      *)
(* process while a RUNNABLE process of numerically lower priority exists. *)
(* scheduler() decides from a scan that locks one slot at a time, so a    *)
(* slot it passed can turn RUNNABLE (yield, wakeup, kill) before the      *)
(* switch.                                                                *)
PriorityRespected ==
  [][\A c \in CPUs :
       Scheduler_switch(c) =>
         \A q \in Procs :
           state[q] = "RUNNABLE" => priority[selected[c]] <= priority[q]
    ]_vars

(* Spec 4.4: kill() makes a SLEEPING target RUNNABLE "so it observes the  *)
(* flag at its next checkpoint instead of sleeping indefinitely".  A      *)
(* killed process is never asleep in wait(), on its own slot as channel,  *)
(* where only a child's exit would wake it.  (A killed sys_sleep() on     *)
(* &ticks is left out: the next clock tick wakes it and it sees the flag.)*)
(* wait() tests p->killed under wait_lock, but kill() sets it under       *)
(* p->lock only, before sleep() has made p SLEEPING.                      *)
KilledNeverAsleep ==
  \A q \in Procs : killed[q] /\ state[q] = "SLEEPING" => chan[q] # q

(* Spec 6: kill() of an unknown pid fails.  A slot that allocproc() hands *)
(* to fork() is therefore never already killed.  kill(0) matches an      *)
(* UNUSED slot (freeproc() sets pid 0) and allocproc() does not clear     *)
(* p->killed.                                                             *)
NewProcNotKilled ==
  [][\A q \in Procs :
       state[q] = "UNUSED" /\ state'[q] = "USED" => ~killed'[q]
    ]_vars

(* Spec 6 and 3: get_process_info() returns the caller's parent_pid, and  *)
(* pid 0 stands for init's synthetic parent.  The ppid it returns is the  *)
(* pid p's parent had at some moment of the call: the parent of the read  *)
(* or the current one (reparent() can move p to init meanwhile).          *)
(* sys_getprocinfo() dereferences p->parent with no lock, so the parent   *)
(* can exit and be freed by wait() (pid 0), or its slot reused by fork(), *)
(* before parent->pid is read.                                            *)
GetprocinfoPpidIsParent ==
  [][\A p \in Procs, q \in Procs \cup {NoProc} :
       Getprocinfo_ppid(p, q) => PidOf(q) \in {ppidAtCall[p], PidOf(parent[p])}
    ]_vars

=============================================================================

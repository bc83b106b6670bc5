------------------------------ MODULE Semaphore ------------------------------
(***************************************************************************)
(* The counting semaphore of src/semaphore.c (over the mutex wrapper of    *)
(* src/base_lock.c and a pthread condition variable), driven the way       *)
(* src/test_semaphore.c drives it: main() creates the worker threads one   *)
(* by one, each worker takes the semaphore once, increments the shared     *)
(* counter (a read and a write, with no other lock) and releases it, and   *)
(* main() joins the workers in order, prints the status and destroys the   *)
(* semaphore.  If a pthread_create() fails, main() destroys the semaphore  *)
(* and returns 1, which ends the process and every worker with it.         *)
(*                                                                         *)
(* A thread inside pthread_cond_wait() is "blocked" until a signal or a    *)
(* spurious wakeup makes it "woken"; a woken thread then has to take the   *)
(* mutex again.  sem->lock is the variable owner: taking it is a step of   *)
(* its own, and the work done holding it, up to base_lock_release() or the *)
(* release inside pthread_cond_wait(), is one step, since no other thread  *)
(* can observe it.  sem_print_status() takes and releases the mutex with   *)
(* nothing but a read between, so it is one step that needs the mutex     *)
(* free.  The pthread calls do not fail on valid objects, so their error   *)
(* returns (and the NULL checks of base_lock.c) are not modelled.  The    *)
(* counters wait_count and signal_count are only printed; of              *)
(* wait_block_count and wake_count only their difference is read, so the  *)
(* model keeps that difference, inCondWait.  test_semaphore.c calls the    *)
(* semaphore through the names sem_acquire/sem_release and a two-argument *)
(* sem_init(&test_sem, 1); they are read as sem_wait, sem_signal and an    *)
(* initial value of 1.                                                     *)
(***************************************************************************)
EXTENDS Naturals, FiniteSets

CONSTANTS
  NThreads,       \* THREAD_COUNT
  InitialValues   \* the initial_value arguments of sem_init()

Threads == 1..NThreads

VARIABLES
  value,        \* sem->value
  owner,        \* the thread holding sem->lock, Free if none
  inCondWait,   \* sem->wait_block_count - sem->wake_count
  pc,           \* per thread: "unborn", "idle", "test", "blocked", "woken",
                \* "cs", "write", "release", "signal" or "done"
  initial,      \* the initial_value sem_init() was given (never changes)
  counter,      \* shared_counter
  before,       \* per thread: the worker's local before
  mainPc,       \* main(): "create", "join", "status", "destroy" or "exit"
  mi,           \* main()'s loop index i
  rc            \* main()'s return value (meaningful at "exit")

semVars == <<value, owner, inCondWait, initial>>
vars == <<value, owner, inCondWait, pc, initial, counter, before, mainPc, mi, rc>>

Blocked == {t \in Threads : pc[t] = "blocked"}
Woken == {t \in Threads : pc[t] = "woken"}
InCS == {t \in Threads : pc[t] \in {"cs", "write", "release", "signal"}}

(* The threads about to run the loop test with a unit in view: woken ones *)
(* and those holding the mutex in sem_wait().                             *)
Taking == {t \in Threads : pc[t] \in {"woken", "test"}}

(* The value of owner when no thread holds the mutex.                     *)
Free == 0

(* The process is alive: main() has not returned.                         *)
Alive == mainPc # "exit"

(* sem_init() with a valid initial_value (>= 0) and all counters 0, then  *)
(* main() at its first pthread_create().                                  *)
Init ==
  /\ initial \in InitialValues
  /\ value = initial
  /\ owner = Free
  /\ inCondWait = 0
  /\ pc = [t \in Threads |-> "unborn"]
  /\ counter = 0
  /\ before = [t \in Threads |-> 0]
  /\ mainPc = "create" /\ mi = 1 /\ rc = 0

(* The loop test while (sem->value <= 0), mutated to value < 0.          *)
MustBlock_strict(v) == v < 0
(* The loop test while (sem->value <= 0).                                 *)
MustBlock(v) == v <= 0

(* base_lock_acquire() (pthread_mutex_lock): t takes the mutex once it is *)
(* free; also the retaking of the mutex inside pthread_cond_wait().       *)
BaseLockAcquire(t) == owner = Free /\ owner' = t

(* base_lock_release() (pthread_mutex_unlock), and the release that       *)
(* pthread_cond_wait() makes as it blocks.                                *)
BaseLockRelease == owner' = Free

(* sem_wait(): base_lock_acquire(&sem->lock).                             *)
SemWait(t) ==
  /\ pc[t] = "idle"
  /\ BaseLockAcquire(t)
  /\ pc' = [pc EXCEPT ![t] = "test"]
  /\ UNCHANGED <<value, inCondWait, initial>>

(* sem_wait() holding the mutex: wait_count++ (first time only) and the   *)
(* loop test: either wait_block_count++ and pthread_cond_wait(), which    *)
(* releases the mutex, or value-- and base_lock_release().                *)
WaitTest(t) ==
  /\ pc[t] = "test"
  /\ BaseLockRelease
  /\ IF MustBlock(value)
       THEN /\ inCondWait' = inCondWait + 1
            /\ pc' = [pc EXCEPT ![t] = "blocked"]
            /\ UNCHANGED value
       ELSE /\ value' = value - 1
            /\ pc' = [pc EXCEPT ![t] = "cs"]
            /\ UNCHANGED inCondWait
  /\ UNCHANGED initial

(* pthread_cond_wait() returns without a signal (POSIX allows spurious    *)
(* wakeups); the thread still has to retake the mutex.                    *)
SpuriousWakeup(t) ==
  /\ pc[t] = "blocked"
  /\ pc' = [pc EXCEPT ![t] = "woken"]
  /\ UNCHANGED semVars

(* The wait return, mutated: the loop is an if, so a woken thread takes a *)
(* unit with the mutex retaken and without testing value again.           *)
WaitReturn_noloop(t) ==
  /\ pc[t] = "woken"
  /\ owner = Free
  /\ inCondWait' = inCondWait - 1
  /\ value' = value - 1
  /\ pc' = [pc EXCEPT ![t] = "cs"]
  /\ UNCHANGED <<owner, initial>>

(* pthread_cond_wait() returns with the mutex retaken, and wake_count++;  *)
(* the loop test follows (WaitTest).                                      *)
WaitReturn(t) ==
  /\ pc[t] = "woken"
  /\ BaseLockAcquire(t)
  /\ inCondWait' = inCondWait - 1
  /\ pc' = [pc EXCEPT ![t] = "test"]
  /\ UNCHANGED <<value, initial>>

(* The signal test, mutated: signal only when value went from 0 to 1.     *)
ShouldSignal_fromzero(cw, v) == cw > 0 /\ v = 1
(* The signal test, mutated: off by one (more than one thread waiting).   *)
ShouldSignal_late(cw, v) == cw > 1
(* The signal test wait_block_count > wake_count: some thread is inside   *)
(* pthread_cond_wait().  v is the value after the increment.             *)
ShouldSignal(cw, v) == cw > 0

(* sem_signal(): base_lock_acquire(&sem->lock).                           *)
SemSignal(t) ==
  /\ pc[t] = "release"
  /\ BaseLockAcquire(t)
  /\ pc' = [pc EXCEPT ![t] = "signal"]
  /\ UNCHANGED <<value, inCondWait, initial>>

(* sem_signal() holding the mutex: signal_count++, value++, and if the    *)
(* test passes pthread_cond_signal(), which unblocks at least one blocked *)
(* thread when there is one (and is lost when there is none); then        *)
(* base_lock_release(), and the worker returns.                           *)
SignalRelease(t) ==
  /\ pc[t] = "signal"
  /\ value' = value + 1
  /\ BaseLockRelease
  /\ \E W \in SUBSET Blocked :
       /\ IF ShouldSignal(inCondWait, value + 1) /\ Blocked # {}
            THEN W # {}
            ELSE W = {}
       /\ pc' = [s \in Threads |->
                   IF s = t THEN "done" ELSE IF s \in W THEN "woken" ELSE pc[s]]
  /\ UNCHANGED <<inCondWait, initial>>

(* worker(): int before = shared_counter;                                 *)
ReadCounter(t) ==
  /\ pc[t] = "cs"
  /\ before' = [before EXCEPT ![t] = counter]
  /\ pc' = [pc EXCEPT ![t] = "write"]
  /\ UNCHANGED counter

(* worker(): shared_counter = before + 1;                                 *)
WriteCounter(t) ==
  /\ pc[t] = "write"
  /\ counter' = before[t] + 1
  /\ pc' = [pc EXCEPT ![t] = "release"]
  /\ UNCHANGED before

(* The steps a live worker thread t can take.                             *)
Worker(t) ==
  /\ Alive
  /\ \/ (SemWait(t) \/ WaitTest(t) \/ WaitReturn(t)) /\ UNCHANGED <<counter, before>>
     \/ (SemSignal(t) \/ SignalRelease(t)) /\ UNCHANGED <<counter, before>>
     \/ (ReadCounter(t) \/ WriteCounter(t)) /\ UNCHANGED semVars
  /\ UNCHANGED <<mainPc, mi, rc>>

Spurious(t) ==
  /\ Alive
  /\ SpuriousWakeup(t)
  /\ UNCHANGED <<counter, before, mainPc, mi, rc>>

(* main(): pthread_create(&threads[i], ...) for i = 0..THREAD_COUNT-1.    *)
(* On success the worker starts; on failure main() calls sem_destroy()   *)
(* and returns 1, ending the process.                                     *)
Create ==
  /\ mainPc = "create"
  /\ \/ /\ pc' = [pc EXCEPT ![mi] = "idle"]
        /\ IF mi = NThreads
             THEN mainPc' = "join" /\ mi' = 1
             ELSE mainPc' = "create" /\ mi' = mi + 1
        /\ UNCHANGED rc
     \/ /\ mainPc' = "exit" /\ rc' = 1
        /\ UNCHANGED <<pc, mi>>
  /\ UNCHANGED <<semVars, counter, before>>

(* The join loop, mutated: off by one, it stops before the last thread.  *)
Join_early ==
  /\ mainPc = "join"
  /\ pc[mi] = "done"
  /\ IF mi >= NThreads - 1
       THEN mainPc' = "status" /\ mi' = mi
       ELSE mainPc' = "join" /\ mi' = mi + 1
  /\ UNCHANGED <<semVars, pc, counter, before, rc>>

(* main(): pthread_join(threads[i]) returns once worker i has returned.   *)
Join ==
  /\ mainPc = "join"
  /\ pc[mi] = "done"
  /\ IF mi = NThreads
       THEN mainPc' = "status" /\ mi' = mi
       ELSE mainPc' = "join" /\ mi' = mi + 1
  /\ UNCHANGED <<semVars, pc, counter, before, rc>>

(* sem_print_status(): takes the mutex, reads the fields, prints them and *)
(* releases it.                                                           *)
PrintStatus ==
  /\ mainPc = "status"
  /\ owner = Free
  /\ mainPc' = "destroy"
  /\ UNCHANGED <<semVars, pc, counter, before, mi, rc>>

(* sem_destroy() (pthread_cond_destroy, then base_lock_destroy), and      *)
(* main() returns 0.                                                      *)
Destroy ==
  /\ mainPc = "destroy"
  /\ mainPc' = "exit" /\ rc' = 0
  /\ UNCHANGED <<semVars, pc, counter, before, mi>>

Main == Create \/ Join \/ PrintStatus \/ Destroy

Next == Main \/ \E t \in Threads : Worker(t) \/ Spurious(t)

(* The OS runs every runnable thread again, so main() and a worker whose  *)
(* next step stays possible take it; a thread blocked in                  *)
(* pthread_cond_wait() has no such step, and spurious wakeups are never   *)
(* owed.  A worker waiting for the mutex is strongly fair: every holder   *)
(* releases it after one short critical section, and pthread_mutex_unlock *)
(* wakes a thread waiting in pthread_mutex_lock, so a thread that finds   *)
(* the mutex free again and again is granted it; spurious wakeups of      *)
(* another thread, retaking the mutex in between, do not starve it.       *)
Spec == Init /\ [][Next]_vars /\ WF_vars(Main) /\ \A t \in Threads : SF_vars(Worker(t))

TypeOK ==
  /\ value \in Nat
  /\ owner \in {Free} \cup Threads
  /\ inCondWait \in 0..NThreads
  /\ pc \in [Threads -> {"unborn", "idle", "test", "blocked", "woken", "cs",
                         "write", "release", "signal", "done"}]
  /\ initial \in InitialValues
  /\ counter \in 0..NThreads /\ before \in [Threads -> 0..NThreads]
  /\ mainPc \in {"create", "join", "status", "destroy", "exit"}
  /\ mi \in Threads /\ rc \in {0, 1}

(* No unit is left behind a blocked thread: while a thread is blocked in  *)
(* pthread_cond_wait(), every unit sem_signal() made available has a      *)
(* woken thread, or one holding the mutex in sem_wait(), on its way to    *)
(* take it, so a thread cannot stay blocked while value > 0 and nobody is *)
(* left to signal it.                                                     *)
NoStrandedWaiter ==
  Blocked # {} => value <= Cardinality(Taking)

(* The test's claim: when main() returns 0 after joining every worker of  *)
(* a semaphore initialised to 1, the final shared_counter is THREAD_COUNT *)
(* -- no two workers' read and write of shared_counter interleave.        *)
NoLostIncrement ==
  mainPc = "exit" /\ rc = 0 /\ initial = 1 => counter = NThreads

(* main() returns: every pthread_join() returns, since no worker stays    *)
(* blocked in pthread_cond_wait() for want of a sem_signal().             *)
TestTerminates == <>(mainPc = "exit")

(* On main()'s success path, sem_print_status() and sem_destroy() come    *)
(* only after every worker has returned, so the mutex is free and no      *)
(* thread is inside sem_wait() or sem_signal() or blocked on the          *)
(* condition variable: POSIX leaves destroying a held mutex or a          *)
(* condition variable with waiters undefined.                             *)
DestroyWhenIdle ==
  mainPc \in {"status", "destroy"} =>
    /\ owner = Free
    /\ \A t \in Threads : pc[t] = "done"
=============================================================================

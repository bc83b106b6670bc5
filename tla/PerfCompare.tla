----------------------------- MODULE PerfCompare -----------------------------
(***************************************************************************)
(* src/user/perf_compare.c: run_suite() runs three simulations in turn on  *)
(* the same process array: simulate_fcfs, simulate_rr(q = 3) and           *)
(* simulate_mlq (levels 0/1/2 with quanta 2/4/8).  Each copies the array,  *)
(* resets the runtime fields, sorts by arrival (a bubble sort) and loops   *)
(* until every process has finished; then print_avg_line reports averages  *)
(* (printf and the fixed-point arithmetic are left out).  Processes are    *)
(* the indices 1..N of the sorted copy p; the queues are the same circular *)
(* code as Ring with QSIZE entries.  responded and last_enq are never read *)
(* and are left out; pid only names a process and is left out too.         *)
(***************************************************************************)
EXTENDS Integers, FiniteSets, FiniteSetsExt, Functions

CONSTANTS
  N,         \* the n argument (at most MAXP)
  Arrivals,  \* arrival times a process may be given
  Bursts,    \* burst times a process may be given
  Types,     \* 0 SYSTEM, 1 INTERACTIVE, 2 BATCH
  Quantum,   \* run_suite's quantum for simulate_rr (3)
  QSIZE,     \* entries of a Queue (64)
  Nil

ASSUME /\ N \in Nat \ {0} /\ Quantum \in Nat \ {0}
       /\ Arrivals \subseteq Nat /\ Bursts \subseteq Nat /\ Types \subseteq 0..2

VARIABLES
  arr,        \* the caller's array (never changes)
  alg,        \* the simulation running: "fcfs", "rr", "mlq", then "end"
  p,          \* the simulation's sorted copy with its runtime fields
  qs,         \* q (level 0 only) in simulate_rr; q0, q1, q2 in simulate_mlq
  t,          \* t
  completed,  \* completed (simulate_rr and simulate_mlq)
  next        \* next; simulate_fcfs's loop index i

vars == <<arr, alg, p, qs, t, completed, next>>

Idx == 1..N
Levels == 0..2
NextAlg == [fcfs |-> "rr", rr |-> "mlq", mlq |-> "end"]

Q == INSTANCE Ring WITH Cap <- QSIZE

(* reset_runtime(): remaining = burst, start = finish = -1.               *)
ResetRuntime(s) ==
  [k \in DOMAIN s |-> [arrival |-> s[k].arrival, burst |-> s[k].burst,
                       type |-> s[k].type, remaining |-> s[k].burst,
                       start |-> -1, finish |-> -1]]

MinOf(a, b) == IF a < b THEN a ELSE b

(* sort_by_arrival's test, mutated to swap equal arrivals too.            *)
OutOfOrder_ge(x, y) == x.arrival >= y.arrival
(* sort_by_arrival's test: a[j].arrival > a[j+1].arrival.                 *)
OutOfOrder(x, y) == x.arrival > y.arrival

Swap(s, j) == [s EXCEPT ![j] = s[j + 1], ![j + 1] = s[j]]

(* The inner loop: j runs from 1 while j < last (C: j+1 < n-i).           *)
RECURSIVE BubblePass(_, _, _)
BubblePass(s, j, last) ==
  IF j >= last THEN s
  ELSE BubblePass(IF OutOfOrder(s[j], s[j + 1]) THEN Swap(s, j) ELSE s, j + 1, last)

(* The outer loop: i runs from 0 while i < n.                             *)
RECURSIVE BubbleSweeps(_, _)
BubbleSweeps(s, i) ==
  IF i >= N THEN s ELSE BubbleSweeps(BubblePass(s, 1, N - i), i + 1)

SortByArrival(s) == BubbleSweeps(s, 0)

(* The queue an arriving process is pushed on: q in simulate_rr; in       *)
(* simulate_mlq q0 for type 0, q1 for type 1 and q2 otherwise.            *)
LevelOf(x) == IF alg = "rr" THEN 0 ELSE IF x.type \in {0, 1} THEN x.type ELSE 2

(* The quantum of a level: run_suite's 3, or quantum[3] = {2,4,8}.        *)
QuantumOf(l) == IF alg = "rr" THEN Quantum ELSE <<2, 4, 8>>[l + 1]

Push(q, i) == [q EXCEPT ![LevelOf(p[i])] = Q!Enqueue(@, i)]

(* The arrivals loop, mutated: the arrival test is dropped.               *)
RECURSIVE Admit_any(_, _, _)
Admit_any(q, nx, tm) ==
  IF nx <= N THEN Admit_any(Push(q, nx), nx + 1, tm) ELSE [q |-> q, next |-> nx]

(* The arrivals loop, mutated: a process arriving at tm is not admitted.  *)
RECURSIVE Admit_strict(_, _, _)
Admit_strict(q, nx, tm) ==
  IF nx <= N /\ p[nx].arrival < tm THEN Admit_strict(Push(q, nx), nx + 1, tm)
  ELSE [q |-> q, next |-> nx]

(* while(next<n && p[next].arrival<=t){ qpush(..., next); next++; }       *)
RECURSIVE Admit(_, _, _)
Admit(q, nx, tm) ==
  IF nx <= N /\ p[nx].arrival <= tm THEN Admit(Push(q, nx), nx + 1, tm)
  ELSE [q |-> q, next |-> nx]

(* The level of the first non-empty queue (q0, then q1, then q2), -1 if   *)
(* all are empty (simulate_rr's qempty(&q): q1, q2 are never used there). *)
ActiveLevel(q) ==
  IF \A l \in Levels : Q!IsEmpty(q[l]) THEN -1
  ELSE Min({l \in Levels : ~Q!IsEmpty(q[l])})

(* The requeue, mutated: an unfinished process always goes back on q0.    *)
Requeue_top(q, l, i) == [q EXCEPT ![0] = Q!Enqueue(@, i)]
(* An unfinished process is pushed back on the queue it came from.        *)
Requeue(q, l, i) == [q EXCEPT ![l] = Q!Enqueue(@, i)]

(* The slice, mutated: always the full quantum.                           *)
RunFor_quantum(l, r) == QuantumOf(l)
(* int run = min(quantum, p[i].remaining);                                *)
RunFor(l, r) == MinOf(QuantumOf(l), r)

(* FCFS start time, mutated: the CPU never waits for an arrival.          *)
FcfsStart_noidle(tm, a) == tm
(* if(t < p[i].arrival) t = p[i].arrival;                                 *)
FcfsStart(tm, a) == IF tm < a THEN a ELSE tm

(* The state in which a simulation's main loop has ended.                 *)
LoopDone == IF alg = "fcfs" THEN next > N ELSE completed >= N

Sorted == SortByArrival(ResetRuntime(arr))
Empty == [l \in Levels |-> Q!InitQueue]

(* run_suite's caller passes n processes with any arrival, burst and type *)
(* from the bounded sets; simulate_fcfs starts on the sorted copy.        *)
Init ==
  /\ arr \in [Idx -> [arrival : Arrivals, burst : Bursts, type : Types]]
  /\ alg = "fcfs"
  /\ p = Sorted
  /\ qs = Empty
  /\ t = 0 /\ completed = 0 /\ next = 1

(* One pass of simulate_fcfs's loop: wait for the arrival if the CPU is   *)
(* ahead of it, run the whole burst, record start and finish.             *)
FcfsStep ==
  /\ alg = "fcfs" /\ next <= N
  /\ LET s == FcfsStart(t, p[next].arrival)
     IN /\ p' = [p EXCEPT ![next].start = s, ![next].remaining = 0,
                          ![next].finish = s + p[next].burst]
        /\ t' = s + p[next].burst
  /\ next' = next + 1
  /\ UNCHANGED <<arr, alg, qs, completed>>

(* A pass of the while loop that finds every queue empty after admitting  *)
(* the arrivals: t jumps to the next arrival and the loop continues.  If  *)
(* next were n the code would read p[n], past the array; the guard keeps *)
(* the model from doing so and SimsTerminate shows it is never needed.    *)
Idle ==
  /\ alg \in {"rr", "mlq"} /\ completed < N
  /\ LET a == Admit(qs, next, t)
     IN /\ ActiveLevel(a.q) = -1
        /\ a.next <= N
        /\ qs' = a.q /\ next' = a.next
        /\ t' = p[a.next].arrival
  /\ UNCHANGED <<arr, alg, p, completed>>

(* A pass of the while loop that runs a slice: admit arrivals, pop the    *)
(* active queue, record the first start, run min(quantum, remaining),     *)
(* admit the arrivals of the slice, then finish the process or requeue it *)
(* behind them.                                                           *)
Slice ==
  /\ completed < N
  /\ LET a   == Admit(qs, next, t)
         l   == ActiveLevel(a.q)
         i   == Q!Front(a.q[l])
         run == RunFor(l, p[i].remaining)
         rem == p[i].remaining - run
         b   == Admit([a.q EXCEPT ![l] = Q!Dequeue(@)], a.next, t + run)
     IN /\ l # -1
        /\ p' = [p EXCEPT ![i].start = IF @ = -1 THEN t ELSE @,
                          ![i].remaining = rem,
                          ![i].finish = IF rem = 0 THEN t + run ELSE @]
        /\ t' = t + run
        /\ next' = b.next
        /\ IF rem = 0
             THEN completed' = completed + 1 /\ qs' = b.q
             ELSE completed' = completed /\ qs' = Requeue(b.q, l, i)
  /\ UNCHANGED <<arr, alg>>

RRSlice == alg = "rr" /\ Slice
MLQSlice == alg = "mlq" /\ Slice

(* print_avg_line, then run_suite's next call on the same array: a fresh  *)
(* sorted copy, empty queues, t = completed = next = 0.                   *)
Report ==
  /\ alg # "end" /\ LoopDone
  /\ alg' = NextAlg[alg]
  /\ IF alg = "mlq"
       THEN UNCHANGED <<p, qs, t, completed, next>>
       ELSE /\ p' = Sorted /\ qs' = Empty
            /\ t' = 0 /\ completed' = 0 /\ next' = 1
  /\ UNCHANGED arr

Next == FcfsStep \/ Idle \/ RRSlice \/ MLQSlice \/ Report

(* One user thread runs run_suite, so a step it can take is taken.        *)
Spec == Init /\ [][Next]_vars /\ WF_vars(Next)

MaxT == Max(Arrivals) + N * Max(Bursts)

TypeOK ==
  /\ alg \in {"fcfs", "rr", "mlq", "end"}
  /\ \A i \in Idx :
       /\ p[i].remaining \in 0..Max(Bursts)
       /\ p[i].start \in {-1} \cup 0..MaxT
       /\ p[i].finish \in {-1} \cup 0..MaxT
  /\ \A l \in Levels : Q!Length(qs[l]) \in 0..N
  /\ t \in 0..MaxT /\ completed \in 0..N /\ next \in 1..N + 1

(* A stable sort by arrival, defined without a loop: element k goes to    *)
(* the place after every element arriving earlier and every element that  *)
(* arrives together with it and comes before it in the array.             *)
StableRank(s, k) ==
  Cardinality({j \in Idx : s[j].arrival < s[k].arrival
                           \/ (s[j].arrival = s[k].arrival /\ j < k)}) + 1
StablySorted(s) == [r \in Idx |-> s[CHOOSE k \in Idx : StableRank(s, k) = r]]

(* sort_by_arrival's bubble sort is stable: it orders the array exactly   *)
(* as the stable sort does, so processes arriving together keep the order *)
(* the caller gave them, which decides who runs first in every algorithm. *)
SortIsStable == SortByArrival(arr) = StablySorted(arr)

(* The time a CPU that never idles while work is waiting needs to run the *)
(* array: the latest arrival a plus all the work arriving at or after a.  *)
Work == [j \in Idx |-> arr[j].burst]
Makespan ==
  Max({arr[k].arrival
         + SumFunctionOnSet(Work, {j \in Idx : arr[j].arrival >= arr[k].arrival})
       : k \in Idx})

(* When any of the three simulation loops ends, t is the makespan: the    *)
(* admission loops, the idle jump t = p[next].arrival and the slice       *)
(* lengths together never leave the CPU idle while an arrived process is  *)
(* unfinished, and never run a process longer than its burst.             *)
WorkConserving == alg # "end" /\ LoopDone => t = Makespan

(* When a simulation loop ends, no process started before it arrived or  *)
(* finished sooner than arrival + burst: the clamp if(waiting<0) of       *)
(* average_waiting_time_x100 never fires and every response time is >= 0. *)
NoRunBeforeArrival ==
  alg # "end" /\ LoopDone =>
    \A i \in Idx : /\ p[i].start >= p[i].arrival
                   /\ p[i].finish - p[i].arrival >= p[i].burst

Queued(l) == Q!Contents(qs[l])
Copies(l, i) == Cardinality({k \in DOMAIN Queued(l) : Queued(l)[k] = i})

(* At the head of every pass of the rr and mlq loops, each admitted       *)
(* process that has work left is queued exactly once, on the queue of its *)
(* level, and nothing else is queued: no process is lost (which would     *)
(* make the idle jump read past the array) or run twice per round.        *)
QueuedOnceAtItsLevel ==
  alg \in {"rr", "mlq"} =>
    \A i \in Idx, l \in Levels :
      Copies(l, i) = IF i < next /\ p[i].remaining > 0 /\ l = LevelOf(p[i])
                       THEN 1 ELSE 0

(* run_suite returns: each of the three loops ends.                       *)
SimsTerminate == <>(alg = "end")
=============================================================================

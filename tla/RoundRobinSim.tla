----------------------------- MODULE RoundRobinSim -----------------------------
(***************************************************************************)
(* round_robin_schedule(processes, n, quantum) of src/user/round_robin_    *)
(* test.c: the user-space copy that runs each process for min(burst,       *)
(* quantum), counts completions and stops.  Its ring is the same code with *)
(* 64 entries.  Processes are the indices 1..N; printf is left out.        *)
(***************************************************************************)
EXTENDS Naturals, FiniteSets, Functions

CONSTANTS
  N,         \* the n argument
  Bursts,    \* the burst times a process may be given
  Quanta,    \* the quantum arguments tried
  QSIZE,     \* entries of the user ring (64)
  MaxSlices, \* model bound on the slices one process is given
  Nil

ASSUME N \in Nat \ {0} /\ Bursts \subseteq Nat /\ Quanta \subseteq Nat \ {0}

VARIABLES
  burst,      \* processes[i].burst_time
  pstate,     \* processes[i].state: 0 READY, 2 COMPLETED
  quantum,    \* the quantum argument
  rq, pc, i,  \* the ring, "fill" / "loop" / "done", the for loop's index
  time,       \* the local time
  completed,  \* the local completed
  burst0,     \* the burst times the caller passed (never changes)
  slices      \* how many slices each process was given (an observer)

vars == <<burst, pstate, quantum, rq, pc, i, time, completed, burst0, slices>>

Idx == 1..N
READY == 0
COMPLETED == 2

U == INSTANCE Ring WITH Cap <- QSIZE

(* main() passes READY processes with positive burst times.               *)
Init ==
  /\ burst0 \in [Idx -> Bursts]
  /\ burst = burst0
  /\ pstate = [p \in Idx |-> READY]
  /\ quantum \in Quanta
  /\ rq = U!InitQueue
  /\ pc = "fill"
  /\ i = 1
  /\ time = 0
  /\ completed = 0
  /\ slices = [p \in Idx |-> 0]

(* One pass of the for loop: a READY process is enqueued.                 *)
Fill ==
  /\ pc = "fill"
  /\ i <= N
  /\ rq' = IF pstate[i] = READY THEN U!Enqueue(rq, i) ELSE rq
  /\ i' = i + 1
  /\ pc' = IF i = N THEN "loop" ELSE "fill"
  /\ UNCHANGED <<burst, pstate, quantum, time, completed, burst0, slices>>

(* The slice a process is given: execution_time.                          *)
ExecutionTime_fullquantum(p) == quantum
ExecutionTime(p) == IF burst[p] < quantum THEN burst[p] ELSE quantum

(* The completion test, mutated to a strict comparison.                   *)
Finished_strict(p, b) == b < 0
(* The completion test burst_time <= 0 (the burst never goes negative).   *)
Finished(p, b) == b <= 0

(* One pass of the while loop: dequeue, run for execution_time, then      *)
(* either complete the process or make it READY and requeue it.           *)
Dispatch ==
  /\ pc = "loop"
  /\ ~U!IsEmpty(rq) /\ completed < N
  /\ slices[U!Front(rq)] < MaxSlices
  /\ LET p == U!Front(rq)
         b == burst[p] - ExecutionTime(p)
     IN /\ burst' = [burst EXCEPT ![p] = b]
        /\ time' = time + ExecutionTime(p)
        /\ slices' = [slices EXCEPT ![p] = @ + 1]
        /\ IF Finished(p, b)
             THEN /\ pstate' = [pstate EXCEPT ![p] = COMPLETED]
                  /\ completed' = completed + 1
                  /\ rq' = U!Dequeue(rq)
             ELSE /\ pstate' = [pstate EXCEPT ![p] = READY]
                  /\ completed' = completed
                  /\ rq' = U!Enqueue(U!Dequeue(rq), p)
  /\ UNCHANGED <<quantum, pc, i, burst0>>

(* The while test fails and the function returns.                         *)
Finish ==
  /\ pc = "loop"
  /\ U!IsEmpty(rq) \/ completed >= N
  /\ pc' = "done"
  /\ UNCHANGED <<burst, pstate, quantum, rq, i, time, completed, burst0, slices>>

Next == Fill \/ Dispatch \/ Finish

(* A single thread runs the function, so each step it can take is taken.  *)
Spec == Init /\ [][Next]_vars /\ WF_vars(Next)

TypeOK ==
  /\ burst \in [Idx -> Nat] /\ burst0 \in [Idx -> Bursts]
  /\ pstate \in [Idx -> {READY, COMPLETED}]
  /\ quantum \in Quanta
  /\ rq.queue \in [U!Slots -> Idx \cup {Nil}]
  /\ rq.front \in U!Slots /\ rq.rear \in U!Slots
  /\ pc \in {"fill", "loop", "done"}
  /\ i \in 1..N + 1
  /\ time \in Nat /\ completed \in 0..N
  /\ slices \in [Idx -> Nat]

(* The number of quanta a burst of b needs: ceiling(b / quantum), and one *)
(* slice of length 0 for a zero burst.                                    *)
SlicesFor(b) == IF b = 0 THEN 1 ELSE (b + quantum - 1) \div quantum

TotalBurst == SumFunction(burst0)

(* When the schedule returns, every process has completed, the clock has  *)
(* advanced by exactly the sum of the bursts, and each process was given  *)
(* exactly ceiling(burst / quantum) slices.  For bursts of one quantum    *)
(* this is spec 8's claim: N processes finish in N quanta, once each.     *)
ScheduleAccountsForEveryBurst ==
  pc = "done" =>
    /\ completed = N
    /\ \A p \in Idx : pstate[p] = COMPLETED /\ slices[p] = SlicesFor(burst0[p])
    /\ time = TotalBurst

(* The schedule returns.                                                  *)
SimTerminates == <>(pc = "done")
=============================================================================

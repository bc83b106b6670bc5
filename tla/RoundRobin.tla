------------------------------ MODULE RoundRobin ------------------------------
(***************************************************************************)
(* round_robin_schedule(processes, n, quantum) of src/kernel/proc.c: the   *)
(* RUNNABLE entries of processes[0..n-1] are put in a ring of NPROC        *)
(* entries, and the loop dequeues one, "runs" it for a slice and puts it   *)
(* back.  Processes are the indices 1..N; the printf calls are left out.   *)
(***************************************************************************)
EXTENDS Naturals, FiniteSets

CONSTANTS
  NPROC,    \* entries of the kernel ring
  N,        \* the n argument
  Quantum,  \* the quantum argument
  Nil

ASSUME N \in 1..NPROC /\ Quantum \in Nat \ {0}

VARIABLES
  pstate,     \* processes[i].state, abstracted to RUNNABLE or not
  remaining,  \* processes[i].remaining_time
  rq,         \* the local RoundRobinQueue
  pc,         \* "fill" (the for loop), "loop" (the while loop) or "done"
  i,          \* the for loop's index
  current     \* the process the while loop last dequeued

vars == <<pstate, remaining, rq, pc, i, current>>

Idx == 1..N

K == INSTANCE Ring WITH Cap <- NPROC

(* The caller's table: any mix of RUNNABLE and other entries.             *)
Init ==
  /\ pstate \in [Idx -> {"RUNNABLE", "OTHER"}]
  /\ remaining \in [Idx -> {0}]
  /\ rq = K!InitQueue
  /\ pc = "fill"
  /\ i = 1
  /\ current = Nil

(* One pass of the for loop: a RUNNABLE entry gets a full quantum and is  *)
(* enqueued (and silently dropped if the ring is full).                   *)
Fill ==
  /\ pc = "fill"
  /\ i <= N
  /\ IF pstate[i] = "RUNNABLE"
       THEN /\ remaining' = [remaining EXCEPT ![i] = Quantum]
            /\ rq' = K!Enqueue(rq, i)
       ELSE UNCHANGED <<remaining, rq>>
  /\ i' = i + 1
  /\ UNCHANGED <<pstate, pc, current>>

FillDone ==
  /\ pc = "fill"
  /\ i = N + 1
  /\ pc' = "loop"
  /\ UNCHANGED <<pstate, remaining, rq, i, current>>

(* One pass of the while loop: dequeue, "run" (remaining_time = 0, state  *)
(* = RUNNABLE), and since the state was just set to RUNNABLE the test     *)
(* always succeeds: remaining_time = quantum and the process is requeued. *)
Dispatch ==
  /\ pc = "loop"
  /\ ~K!IsEmpty(rq)
  /\ LET p == K!Front(rq) IN
       /\ current' = p
       /\ pstate' = [pstate EXCEPT ![p] = "RUNNABLE"]
       /\ remaining' = [remaining EXCEPT ![p] = Quantum]
       /\ rq' = K!Enqueue(K!Dequeue(rq), p)
  /\ UNCHANGED <<pc, i>>

(* The while test fails on an empty ring and the function returns.        *)
Finish ==
  /\ pc = "loop"
  /\ K!IsEmpty(rq)
  /\ pc' = "done"
  /\ UNCHANGED <<pstate, remaining, rq, i, current>>

Next == Fill \/ FillDone \/ Dispatch \/ Finish

(* The function runs on one thread, so each step it can take is taken.    *)
Spec == Init /\ [][Next]_vars /\ WF_vars(Next)

TypeOK ==
  /\ pstate \in [Idx -> {"RUNNABLE", "OTHER"}]
  /\ remaining \in [Idx -> {0, Quantum}]
  /\ rq.queue \in [K!Slots -> Idx \cup {Nil}]
  /\ rq.front \in K!Slots /\ rq.rear \in K!Slots
  /\ pc \in {"fill", "loop", "done"}
  /\ i \in 1..N + 1
  /\ current \in Idx \cup {Nil}

(* Every process that was RUNNABLE when round_robin_schedule() was called *)
(* is given a slice again and again: none is left out of the ring, and    *)
(* the loop keeps coming back to each.                                    *)
EveryRunnableDispatched ==
  \A p \in Idx : pstate[p] = "RUNNABLE" => []<>(current = p)
=============================================================================

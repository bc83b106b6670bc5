--------------------------- MODULE MultiLevelQueue ---------------------------
(***************************************************************************)
(* multilevel_queue_schedule(processes, n) over the first n entries of a   *)
(* process array, in the two copies of the repository, and the migration  *)
(* test of the user program's main().  prog says which runs:              *)
(*   "kernel"  src/kernel/proc.c: the RUNNABLE entries are classified and *)
(*             put in the tier of their type; the loop runs the first     *)
(*             process of the best non-empty tier for min(remaining_time, *)
(*             slice), then writes 2 or 0 into p->state (SLEEPING and     *)
(*             UNUSED of enum procstate) and, if not done, resets         *)
(*             remaining_time to the slice and requeues at the same tier. *)
(*   "user"    src/user/multilevel_queue_test.c: the READY (0) entries go *)
(*             to the tier of their given proc_type, and an unfinished    *)
(*             process keeps its burst_time when requeued; 2 and 0 are    *)
(*             its own COMPLETED and READY.                               *)
(*   "migrate" main()'s test case 3: every entry is classified and queued *)
(*             by type, then one process is dequeued from a tier and      *)
(*             handed to migrate_process().                               *)
(***************************************************************************)
EXTENDS Naturals, FiniteSets, Functions

CONSTANTS
  NPROC,      \* entries of each kernel ring
  N,          \* the n argument
  Names,      \* the p->name values entries may carry
  Remaining,  \* the remaining_time values entries may carry
  MaxSlices,  \* model bound on the slices one process is given
  Progs,      \* the programs run: a subset of {"kernel", "user", "migrate"}
  MigrateFrom, \* from_level values of the migration test
  MigrateTo,   \* to_level values of the migration test
  Nil

ASSUME N \in 1..NPROC

VARIABLES
  prog,       \* which of the three programs runs
  kstate,     \* processes[i].state
  pname,      \* processes[i].name (never written)
  ptype,      \* processes[i].proc_type
  qlevel,     \* processes[i].queue_level
  remaining,  \* processes[i].remaining_time
  mlq,        \* the local MultiLevelQueue
  pc, i,      \* "fill" / "loop" / "done", the for loop's index
  time, completed, current,
  work0,      \* remaining_time when the function was called (an observer)
  enrolled,   \* the entries the for loop queued (an observer)
  finished,   \* the entries the loop completed (an observer)
  slices      \* slices given to each entry (an observer)

vars == <<prog, kstate, pname, ptype, qlevel, remaining, mlq, pc, i, time,
          completed, current, work0, enrolled, finished, slices>>

Idx == 1..N

M == INSTANCE MultiLevel WITH Cap <- NPROC

(* enum procstate of kernel/proc.h, which is not under src/: the integer  *)
(* values the loop writes into p->state.                                  *)
ProcStateOf(n) ==
  CASE n = 0 -> "UNUSED" [] n = 1 -> "USED" [] n = 2 -> "SLEEPING"
    [] n = 3 -> "RUNNABLE" [] n = 4 -> "RUNNING" [] n = 5 -> "ZOMBIE"

(* The state codes of the user program's Process.state.                   *)
UserStateOf(n) == CASE n = 0 -> "READY" [] n = 1 -> "RUNNING" [] n = 2 -> "COMPLETED"

(* The meaning of the integer the loop writes into state.                 *)
StateOf(n) == IF prog = "kernel" THEN ProcStateOf(n) ELSE UserStateOf(n)

Types == {M!SYSTEM_PROCESS, M!INTERACTIVE_PROCESS, M!BATCH_PROCESS}

(* Kernel entries as allocproc() leaves them (proc_type BATCH,            *)
(* queue_level 2), each RUNNABLE or not, with any name and                *)
(* remaining_time.  The user main() builds its arrays READY, at           *)
(* queue_level 0, with a positive burst_time and the proc_type that       *)
(* classify_process() gives the name.                                     *)
Init ==
  /\ prog \in Progs
  /\ pname \in [Idx -> Names]
  /\ IF prog = "kernel"
       THEN /\ kstate \in [Idx -> {"RUNNABLE", "SLEEPING"}]
            /\ ptype = [p \in Idx |-> M!BATCH_PROCESS]
            /\ qlevel = [p \in Idx |-> 2]
            /\ remaining \in [Idx -> Remaining]
       ELSE /\ kstate = [p \in Idx |-> UserStateOf(0)]
            /\ ptype = [p \in Idx |-> M!ClassifyProcess(pname[p])]
            /\ qlevel = [p \in Idx |-> 0]
            /\ remaining \in [Idx -> Remaining \ {0}]
  /\ work0 = remaining
  /\ mlq = M!InitMLQ
  /\ pc = "fill" /\ i = 1
  /\ time = 0 /\ completed = 0 /\ current = Nil
  /\ enrolled = {} /\ finished = {}
  /\ slices = [p \in Idx |-> 0]

(* The entries the for loop queues: RUNNABLE ones in the kernel, READY    *)
(* ones in the user copy, all of them in the migration test.              *)
Enrolls(p) ==
  CASE prog = "kernel" -> kstate[p] = "RUNNABLE"
    [] prog = "user" -> kstate[p] = UserStateOf(0)
    [] prog = "migrate" -> TRUE

(* The type an entry is queued by: the user schedule takes the given      *)
(* proc_type, the others call classify_process() first.                  *)
FillType(p) == IF prog = "user" THEN ptype[p] ELSE M!ClassifyProcess(pname[p])

(* One pass of the for loop: a queued entry is enqueued at the tier of    *)
(* its type (enqueue_to_level sets queue_level).                          *)
Fill ==
  /\ pc = "fill"
  /\ IF Enrolls(i)
       THEN LET t == FillType(i)
                l == M!TierOfType(t)
            IN /\ ptype' = [ptype EXCEPT ![i] = t]
               /\ mlq' = M!EnqueueToLevel(mlq, i, l)
               /\ qlevel' = [qlevel EXCEPT ![i] = M!TierOf(l)]
               /\ enrolled' = enrolled \cup {i}
       ELSE UNCHANGED <<ptype, mlq, qlevel, enrolled>>
  /\ i' = i + 1
  /\ pc' = CASE i < N -> "fill" [] prog = "migrate" -> "migrate" [] OTHER -> "loop"
  /\ UNCHANGED <<prog, kstate, pname, remaining, time, completed, current,
                 work0, finished, slices>>

(* execution_time, mutated: always the full slice.                        *)
ExecutionTime_fullslice(p) == M!SliceOf(qlevel[p])

(* The slice the loop grants: execution_time.                             *)
ExecutionTime(p) ==
  IF remaining[p] < M!SliceOf(qlevel[p]) THEN remaining[p] ELSE M!SliceOf(qlevel[p])

(* The completion test, mutated to a strict comparison.                   *)
Finished_strict(p, r) == r < 0
(* The completion test remaining_time <= 0.                               *)
Finished(p, r) == r <= 0

(* What an unfinished process keeps, mutated: the slice, in both copies.  *)
RequeuedRemaining_reset(q, r) == q
(* What an unfinished process keeps: the kernel overwrites remaining_time *)
(* with the slice; the user copy keeps burst_time as decremented.         *)
RequeuedRemaining(q, r) == IF prog = "kernel" THEN q ELSE r

(* One pass of the while loop.                                            *)
Dispatch ==
  /\ pc = "loop"
  /\ completed < N
  /\ M!ScheduleTier(mlq) # Nil
  /\ LET p == M!Scheduled(mlq)
         q == M!SliceOf(qlevel[p])
         r == remaining[p] - ExecutionTime(p)
         rest == M!ScheduleFromMultilevel(mlq)
     IN /\ slices[p] < MaxSlices
        /\ current' = p
        /\ time' = time + ExecutionTime(p)
        /\ slices' = [slices EXCEPT ![p] = @ + 1]
        /\ IF Finished(p, r)
             THEN /\ kstate' = [kstate EXCEPT ![p] = StateOf(2)]
                  /\ remaining' = [remaining EXCEPT ![p] = r]
                  /\ completed' = completed + 1
                  /\ finished' = finished \cup {p}
                  /\ mlq' = rest
                  /\ UNCHANGED qlevel
             ELSE /\ kstate' = [kstate EXCEPT ![p] = StateOf(0)]
                  /\ remaining' = [remaining EXCEPT ![p] = RequeuedRemaining(q, r)]
                  /\ mlq' = M!EnqueueToLevel(rest, p, qlevel[p])
                  /\ qlevel' = [qlevel EXCEPT ![p] = M!TierOf(qlevel[p])]
                  /\ UNCHANGED <<completed, finished>>
  /\ UNCHANGED <<prog, pname, ptype, pc, i, work0, enrolled>>

(* The while test fails (completed == n) or schedule_from_multilevel()   *)
(* returns 0 and the loop breaks: the function returns.                   *)
Finish ==
  /\ pc = "loop"
  /\ completed >= N \/ M!ScheduleTier(mlq) = Nil
  /\ pc' = "done"
  /\ UNCHANGED <<prog, kstate, pname, ptype, qlevel, remaining, mlq, i, time,
                 completed, current, work0, enrolled, finished, slices>>

(* main()'s dequeue, mutated: the process is taken without dequeuing it. *)
MigrateSource_nodequeue(q, from) == q
(* main()'s dequeue_from_level(&mlq, from) before the migration.          *)
MigrateSource(q, from) == M!DequeueFromLevel(q, from)

(* Test case 3 after its for loop: p = dequeue_from_level(&mlq, from);    *)
(* if p, migrate_process(&mlq, p, from, to), which sets p->queue_level    *)
(* through enqueue_to_level unless the levels are equal.  main() exits.   *)
Migrate ==
  /\ pc = "migrate"
  /\ \E from \in MigrateFrom, to \in MigrateTo :
       LET p == M!DequeuedFrom(mlq, from)
       IN /\ mlq' = IF p = Nil THEN MigrateSource(mlq, from)
                    ELSE M!MigrateProcess(MigrateSource(mlq, from), p, from, to)
          /\ qlevel' = IF p = Nil \/ from = to THEN qlevel
                       ELSE [qlevel EXCEPT ![p] = M!TierOf(to)]
  /\ pc' = "done"
  /\ UNCHANGED <<prog, kstate, pname, ptype, remaining, i, time, completed,
                 current, work0, enrolled, finished, slices>>

Next == Fill \/ Dispatch \/ Finish \/ Migrate

(* One thread runs the function, so each step it can take is taken.      *)
Spec == Init /\ [][Next]_vars /\ WF_vars(Next)

TypeOK ==
  /\ prog \in Progs
  /\ kstate \in [Idx -> {"UNUSED", "SLEEPING", "RUNNABLE", "READY", "COMPLETED"}]
  /\ ptype \in [Idx -> Types]
  /\ qlevel \in [Idx -> M!Levels]
  /\ remaining \in [Idx -> Nat]
  /\ \A l \in M!Levels : mlq[l].front \in M!R!Slots /\ mlq[l].rear \in M!R!Slots
  /\ pc \in {"fill", "loop", "migrate", "done"}
  /\ completed \in 0..N /\ current \in Idx \cup {Nil}
  /\ enrolled \subseteq Idx /\ finished \subseteq enrolled

(* Spec 4.4 (migrate): a process is held in one place at most.  No ring   *)
(* holds it twice, and the only ring holding it is the one its            *)
(* queue_level names, so no two tiers hold it: the schedule loops requeue *)
(* only the process they dequeued, and main()'s migration dequeues the    *)
(* process before migrate_process(), which never removes, enqueues it.    *)
QueuedOnce ==
  \A l \in M!Levels :
    /\ Cardinality(M!QueuedAt(mlq, l)) = M!R!Length(mlq[l])
    /\ \A p \in M!QueuedAt(mlq, l) : qlevel[p] = l

(* Strict priority across tiers: when a process is given a slice, every   *)
(* process the schedule queued at a better tier has already completed, so *)
(* a tier runs only once all better tiers have drained.                   *)
TierOrder ==
  current # Nil =>
    \A q \in enrolled : qlevel[q] < qlevel[current] => q \in finished

(* The schedule returns.                                                  *)
MLQTerminates == <>(pc = "done")

(* Spec 4.4: a process that does not finish within its slice is requeued  *)
(* and runs on until its remaining_time is spent, so when the schedule   *)
(* returns the clock has advanced by exactly the work it was given.       *)
MLQAccountsForWork ==
  pc = "done" => time = SumFunctionOnSet(work0, enrolled)

(* The user copy keeps burst_time when it requeues, so when its schedule *)
(* returns the clock has advanced by exactly the bursts it was given.     *)
UserMLQAccountsForWork == prog = "user" => MLQAccountsForWork
=============================================================================

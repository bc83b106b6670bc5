------------------------------ MODULE MultiLevel ------------------------------
(***************************************************************************)
(* The three-tier queue MultiLevelQueue of src/kernel/proc.c (copied into  *)
(* src/user/multilevel_queue_test.c with 16-entry rings): three rings of   *)
(* Ring, tier 0 (high_priority) to tier 2 (low_priority).  A value is a    *)
(* function from tiers to rings.  None of these operations keeps state of  *)
(* its own; the schedule functions that call them do.                     *)
(***************************************************************************)
LOCAL INSTANCE Naturals
LOCAL INSTANCE FiniteSets

CONSTANTS Cap, Nil

R == INSTANCE Ring

Levels == 0..2

SYSTEM_PROCESS == "SYSTEM"
INTERACTIVE_PROCESS == "INTERACTIVE"
BATCH_PROCESS == "BATCH"

(* init_multilevel_queue(): three empty rings.  The time_quantum 2/4/8    *)
(* stored in each is never read; the schedule loop uses SliceOf below.    *)
InitMLQ == [l \in Levels |-> R!InitQueue]

(* The tier enqueue_to_level() uses for a level argument: levels 0 and 1  *)
(* as given, everything else the low tier (case 2 and default).           *)
TierOf(level) == IF level \in {0, 1} THEN level ELSE 2

(* enqueue_to_level(mlq, p, level) without its p->queue_level write,      *)
(* which the caller makes (the level is TierOf(level) even when the ring  *)
(* was full and p was dropped).                                           *)
EnqueueToLevel(mlq, p, level) ==
  [mlq EXCEPT ![TierOf(level)] = R!Enqueue(@, p)]

(* dequeue_from_level(mlq, level): a level other than 0, 1, 2 matches no *)
(* case and returns 0 with the queues unchanged.                          *)
DequeueFromLevel(mlq, level) ==
  IF level \in Levels THEN [mlq EXCEPT ![level] = R!Dequeue(@)] ELSE mlq
DequeuedFrom(mlq, level) == IF level \in Levels THEN R!Front(mlq[level]) ELSE Nil

(* schedule_from_multilevel(), mutated: the medium tier is checked first. *)
ScheduleTier_mediumfirst(mlq) ==
  IF ~R!IsEmpty(mlq[1]) THEN 1
  ELSE IF ~R!IsEmpty(mlq[0]) THEN 0
  ELSE IF ~R!IsEmpty(mlq[2]) THEN 2
  ELSE Nil

(* The tier schedule_from_multilevel() dequeues from: the lowest-numbered *)
(* non-empty tier, Nil when all three are empty (it returns 0).           *)
ScheduleTier(mlq) ==
  LET ne == {l \in Levels : ~R!IsEmpty(mlq[l])}
  IN  IF ne = {} THEN Nil ELSE CHOOSE l \in ne : \A m \in ne : l <= m

(* schedule_from_multilevel(): dequeue_from_level() of that tier, and     *)
(* the process it returns.                                                *)
Scheduled(mlq) == DequeuedFrom(mlq, ScheduleTier(mlq))
ScheduleFromMultilevel(mlq) == DequeueFromLevel(mlq, ScheduleTier(mlq))

(* The slice the schedule loop grants by queue_level: 2, 4 or 8.          *)
SliceOf(level) == CASE level = 0 -> 2 [] level = 1 -> 4 [] level = 2 -> 8

(* The tier multilevel_queue_schedule() puts a process of each type in.   *)
TierOfType(t) ==
  CASE t = SYSTEM_PROCESS -> 0 [] t = INTERACTIVE_PROCESS -> 1 [] t = BATCH_PROCESS -> 2

(* classify_process(): "init" or "sh" names are SYSTEM, "hello" or "echo" *)
(* INTERACTIVE, everything else BATCH.  The kernel compares prefixes      *)
(* (strncmp) and the user copy whole names (strcmp); the names a model    *)
(* uses are chosen so that the two agree.                                 *)
ClassifyProcess(name) ==
  IF name \in {"init", "sh"} THEN SYSTEM_PROCESS
  ELSE IF name \in {"hello", "echo"} THEN INTERACTIVE_PROCESS
  ELSE BATCH_PROCESS

(* migrate_process(mlq, p, from_level, to_level): nothing when the levels *)
(* are equal; otherwise p is enqueued at to_level.  It never removes p    *)
(* from from_level: the caller must hold p outside every ring.  The      *)
(* p->queue_level write inside enqueue_to_level is again the caller's.   *)
MigrateProcess(mlq, p, from, to) ==
  IF from = to THEN mlq ELSE EnqueueToLevel(mlq, p, to)

(* The processes queued at a tier.                                        *)
QueuedAt(mlq, l) == {mlq[l].queue[(mlq[l].front + k) % Cap] : k \in 0..R!Length(mlq[l]) - 1}
=============================================================================

---------------------------- MODULE ProcLifecycle ----------------------------
(***************************************************************************)
(* What the process table promises (spec 3 and 4.1), without harts, locks *)
(* or channels: each slot follows the lifecycle                            *)
(*                                                                         *)
(*   UNUSED -> USED -> RUNNABLE -> RUNNING -> RUNNABLE | SLEEPING | ZOMBIE *)
(*   SLEEPING -> RUNNABLE,  ZOMBIE -> UNUSED                               *)
(*                                                                         *)
(* a slot gets a fresh pid from a counter when it leaves UNUSED and loses *)
(* it when it returns there, a parent link is set once on a new slot and  *)
(* rewritten only by reparenting to init on the parent's exit.             *)
(***************************************************************************)
EXTENDS Naturals

CONSTANTS Slots, Init, NoSlot

VARIABLES st, pid, parent, nextpid

vars == <<st, pid, parent, nextpid>>

(* Some SLEEPING slots, possibly none, become RUNNABLE; nothing else     *)
(* changes state.                                                         *)
Woken ==
  \A q \in Slots : st'[q] = st[q] \/ (st[q] = "SLEEPING" /\ st'[q] = "RUNNABLE")

SetState(q, from, to) ==
  /\ st[q] = from
  /\ st' = [st EXCEPT ![q] = to]

(* allocate(): an UNUSED slot becomes USED with the next pid.             *)
Alloc(q) ==
  /\ SetState(q, "UNUSED", "USED")
  /\ pid' = [pid EXCEPT ![q] = nextpid]
  /\ nextpid' = nextpid + 1
  /\ UNCHANGED parent

(* allocate() failing after taking a pid: the slot is back to UNUSED     *)
(* before anyone sees it.                                                 *)
AllocFail ==
  /\ nextpid' = nextpid + 1
  /\ UNCHANGED <<st, pid, parent>>

(* fork(): the new slot is linked to its parent, once.                    *)
Link(q, p) ==
  /\ st[q] = "USED" /\ parent[q] = NoSlot
  /\ st[p] = "RUNNING"
  /\ parent' = [parent EXCEPT ![q] = p]
  /\ UNCHANGED <<st, pid, nextpid>>

Ready(q)    == SetState(q, "USED", "RUNNABLE") /\ UNCHANGED <<pid, parent, nextpid>>
Dispatch(q) == SetState(q, "RUNNABLE", "RUNNING") /\ UNCHANGED <<pid, parent, nextpid>>
Preempt(q)  == SetState(q, "RUNNING", "RUNNABLE") /\ UNCHANGED <<pid, parent, nextpid>>
Block(q)    == SetState(q, "RUNNING", "SLEEPING") /\ UNCHANGED <<pid, parent, nextpid>>
Exit(q)     == SetState(q, "RUNNING", "ZOMBIE") /\ UNCHANGED <<pid, parent, nextpid>>

(* Wakeups, kills and ticks make sleepers RUNNABLE.                       *)
Wake == Woken /\ UNCHANGED <<pid, parent, nextpid>>

(* exit(): the running slot p (never init) gives its children to init;    *)
(* sleepers may be woken in the same step.                                *)
Reparent(p) ==
  /\ st[p] = "RUNNING" /\ p # Init
  /\ parent' = [q \in Slots |-> IF parent[q] = p THEN Init ELSE parent[q]]
  /\ Woken
  /\ UNCHANGED <<pid, nextpid>>

(* free(): a ZOMBIE slot is reclaimed, its identity cleared.              *)
Free(q) ==
  /\ SetState(q, "ZOMBIE", "UNUSED")
  /\ pid' = [pid EXCEPT ![q] = 0]
  /\ parent' = [parent EXCEPT ![q] = NoSlot]
  /\ UNCHANGED nextpid

LInit ==
  /\ st = [q \in Slots |-> IF q = Init THEN "RUNNABLE" ELSE "UNUSED"]
  /\ pid = [q \in Slots |-> IF q = Init THEN 1 ELSE 0]
  /\ parent = [q \in Slots |-> NoSlot]
  /\ nextpid = 2

LNext ==
  \/ \E q \in Slots : Alloc(q) \/ Ready(q) \/ Dispatch(q) \/ Preempt(q)
                     \/ Block(q) \/ Exit(q) \/ Free(q) \/ Reparent(q)
  \/ \E q, p \in Slots : Link(q, p)
  \/ AllocFail
  \/ Wake

LSpec == LInit /\ [][LNext]_vars

=============================================================================

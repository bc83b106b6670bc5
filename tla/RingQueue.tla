------------------------------ MODULE RingQueue ------------------------------
(***************************************************************************)
(* The ring of Ring driven by any sequence of enqueue() and dequeue()      *)
(* calls, and the FIFO it implements.  result is an observer: enqueue()    *)
(* returns nothing, so result records whether the entry was stored.        *)
(***************************************************************************)
EXTENDS Naturals, Sequences

CONSTANTS Cap, Elems, Nil

ASSUME Cap \in Nat \ {0, 1} /\ Nil \notin Elems

VARIABLES rq, result

vars == <<rq, result>>

R == INSTANCE Ring

Init == rq = R!InitQueue /\ result = "none"

(* enqueue(rq, p)                                                         *)
Put(p) ==
  /\ rq' = R!Enqueue(rq, p)
  /\ result' = IF rq' = rq THEN "refused" ELSE "stored"

(* dequeue(rq) of a non-empty queue (an empty one returns 0 unchanged).   *)
Take ==
  /\ ~R!IsEmpty(rq)
  /\ rq' = R!Dequeue(rq)
  /\ result' = "taken"

Next == (\E p \in Elems : Put(p)) \/ Take

Spec == Init /\ [][Next]_vars

TypeOK ==
  /\ rq.queue \in [R!Slots -> Elems \cup {Nil}]
  /\ rq.front \in R!Slots
  /\ rq.rear \in R!Slots
  /\ result \in {"none", "stored", "refused", "taken"}

(* The ring is a FIFO of Cap - 1 entries: dequeue() returns entries in    *)
(* the order enqueue() stored them, none is lost or duplicated, and       *)
(* enqueue() refuses exactly when Cap - 1 entries are queued.             *)
AsBuilt == INSTANCE BoundedFifo WITH q <- R!Contents(rq), Capacity <- Cap - 1
FifoOfCapMinusOne == AsBuilt!Spec
=============================================================================

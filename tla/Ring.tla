-------------------------------- MODULE Ring --------------------------------
(***************************************************************************)
(* The circular queue RoundRobinQueue of src/kernel/proc.c (the same code  *)
(* is copied into src/user/round_robin_test.c and multilevel_queue_test.c  *)
(* with 64 and 16 entries).  A queue is a record: queue[0..Cap-1], front,  *)
(* rear.  time_quantum is stored by init_queue() but never read by the     *)
(* callers, so it is left out.  Entries not yet written hold Nil; they are *)
(* never read, since dequeue() reads only between front and rear.          *)
(***************************************************************************)
LOCAL INSTANCE Naturals

CONSTANTS
  Cap,    \* number of entries of queue[] (NPROC in the kernel)
  Nil     \* an entry never written

Slots == 0..Cap - 1

(* init_queue(): front = rear = 0.                                        *)
InitQueue == [queue |-> [s \in Slots |-> Nil], front |-> 0, rear |-> 0]

(* is_empty()                                                             *)
IsEmpty(rq) == rq.front = rq.rear

(* enqueue(), mutated: the full test forgets the wrap-around.             *)
Enqueue_nomod(rq, p) ==
  IF rq.rear + 1 = rq.front
    THEN rq
    ELSE [rq EXCEPT !.queue[rq.rear] = p, !.rear = (rq.rear + 1) % Cap]

(* enqueue(): when (rear + 1) % Cap == front the queue is full and p is   *)
(* silently dropped; otherwise p is stored at rear and rear advances.     *)
Enqueue(rq, p) ==
  IF (rq.rear + 1) % Cap = rq.front
    THEN rq
    ELSE [rq EXCEPT !.queue[rq.rear] = p, !.rear = (rq.rear + 1) % Cap]

(* dequeue(), mutated: front advances without wrapping around.            *)
Dequeue_nomod(rq) ==
  IF IsEmpty(rq) THEN rq ELSE [rq EXCEPT !.front = rq.front + 1]

(* dequeue(): an empty queue returns 0 and is left as it is; otherwise    *)
(* the entry at front is returned (see Front) and front advances.         *)
Dequeue(rq) ==
  IF IsEmpty(rq) THEN rq ELSE [rq EXCEPT !.front = (rq.front + 1) % Cap]

(* The process dequeue() returns, Nil for an empty queue (dequeue's 0).   *)
Front(rq) == IF IsEmpty(rq) THEN Nil ELSE rq.queue[rq.front]

(* The entries between front and rear, oldest first.                      *)
Length(rq) == (rq.rear + Cap - rq.front) % Cap
Contents(rq) == [k \in 1..Length(rq) |-> rq.queue[(rq.front + k - 1) % Cap]]
=============================================================================

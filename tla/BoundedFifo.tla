----------------------------- MODULE BoundedFifo -----------------------------
(***************************************************************************)
(* What a run queue promises its callers: a FIFO of at most Capacity       *)
(* entries.  Put appends when there is room and otherwise refuses, leaving *)
(* the queue as it is; Take removes the oldest entry.  result tells the    *)
(* caller which of the three happened last.                                *)
(***************************************************************************)
EXTENDS Naturals, Sequences

CONSTANTS Capacity, Elems

VARIABLES q, result

Init == q = <<>> /\ result = "none"

Put(x) ==
  IF Len(q) < Capacity
    THEN q' = Append(q, x) /\ result' = "stored"
    ELSE q' = q /\ result' = "refused"

Take == q # <<>> /\ q' = Tail(q) /\ result' = "taken"

Next == (\E x \in Elems : Put(x)) \/ Take

Spec == Init /\ [][Next]_<<q, result>>
=============================================================================

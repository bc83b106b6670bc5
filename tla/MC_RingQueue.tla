----------------------------- MODULE MC_RingQueue -----------------------------
(* The kernel ring with NPROC = 3 entries and three processes.            *)
EXTENDS RingQueue, TLC

CONSTANTS p1, p2, p3

MCElems == {p1, p2, p3}
=============================================================================

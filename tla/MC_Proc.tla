------------------------------- MODULE MC_Proc -------------------------------
(* Proc on two harts and three slots: init, a child and a grandchild.     *)
EXTENDS Proc, TLC

CONSTANTS c1, c2

MCCPUs == {c1, c2}

(* The harts are interchangeable: scheduler() is the same code on each.   *)
CpuSymmetry == Permutations(MCCPUs)
=============================================================================

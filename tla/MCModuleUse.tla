----------------------------- MODULE MCModuleUse -----------------------------
(* Instances of ModuleUse for TLC.                                          *)
EXTENDS ModuleUse, TLC

CONSTANTS a, b, c, j1, j2, t1, t2, t3

\* Only b is ever published again.
LatestB == [u \in Urls |-> IF u = b THEN 2 ELSE 1]
ThreadSymmetry == Permutations(Threads)

\* a uses b, and b's second version uses c.
UsesChain ==
  [u \in Urls |-> [n \in Version |->
     CASE u = a -> {b}
       [] u = b /\ n = 2 -> {c}
       [] OTHER -> {}]]
=============================================================================

-------------------------- MODULE MCRulesetRegistry --------------------------
(* Instances of RulesetRegistry for TLC: a uses b from the start; later     *)
(* versions of b and c may close a cycle.                                   *)
EXTENDS RulesetRegistry, TLC

CONSTANTS a, b, c, j1, j2

\* Every ruleset is published twice.
LatestAll == [u \in Urls |-> 2]

JobSymmetry == Permutations(Jobs)

UsesRing ==
  [u \in Urls |-> [n \in Version |->
     CASE u = a -> {b}
       [] u = b /\ n = 2 -> {c}
       [] u = c /\ n = 2 -> {a}
       [] OTHER -> {}]]
=============================================================================

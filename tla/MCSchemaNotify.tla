---------------------------- MODULE MCSchemaNotify ----------------------------
(* Two picos, two rulesets with three versions each (0 and 1 differ in a       *)
(* comment, 2 has another schema) and two flushes at once, all of a kind alike. *)
EXTENDS SchemaNotify, TLC

CONSTANTS p1, p2, u1, u2, r1, r2

MCSchemaOf == [c \in 0..2 |-> c \div 2]
Symmetry == Permutations(Picos) \union Permutations(Rulesets) \union Permutations(Runs)
=============================================================================

------------------------------- MODULE MCOAuth -------------------------------
(* Instances of OAuth for TLC.                                              *)
EXTENDS OAuth, TLC

CONSTANTS a1, a2, g1, g2, m1, m2, m3, r1, r2

Symmetry == Permutations(App) \union Permutations(Code) \union Permutations(Mint)
              \union Permutations(Revocation)
=============================================================================

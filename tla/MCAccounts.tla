------------------------------ MODULE MCAccounts ------------------------------
(* Instances of Accounts for TLC.                                           *)
EXTENDS Accounts, TLC

CONSTANTS c1, c2, c3, c4, k1, k2, k3, i1, d1, d2

Symmetry == Permutations(Ceremony) \union Permutations(Passkey)
              \union Permutations(Deletion)
=============================================================================

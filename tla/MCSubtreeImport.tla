-------------------------- MODULE MCSubtreeImport --------------------------
(* A thing with two parts, each with a part of its own, for TLC. *)
EXTENDS SubtreeImport

CONSTANTS top, left, right, leaf, twig

MCNodes == {top, left, right, leaf, twig}
MCKids == [n \in MCNodes |-> CASE n = top -> <<left, right>>
                               [] n = left -> <<leaf>>
                               [] n = right -> <<twig>>
                               [] OTHER -> << >>]
\* Everybody refers to everybody, to itself, to its parent and to the outside.
MCHolds == [n \in MCNodes |->
  [kind : {"pico", "channel"}, of : MCNodes \union {Outside}]
    \union [kind : {"family", "parent"}, of : {n}]]
=============================================================================

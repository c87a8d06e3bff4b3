---------------------------- MODULE MCPortableMove ----------------------------
(* A root and a part of it: the root has two relationships, one of them with a *)
(* peer on the same engine that the part has a relationship with, too.         *)
EXTENDS PortableMove

CONSTANTS hub, part, near, here, away, r1, r2, r3

MCOf == [i \in {r1, r2, r3} |-> IF i = r3 THEN part ELSE hub]
MCWith == [i \in {r1, r2, r3} |-> IF i = r2 THEN here ELSE near]
=============================================================================

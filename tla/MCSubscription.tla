--------------------------- MODULE MCSubscription ---------------------------
(* Three picos on two engines for TLC. *)
EXTENDS Subscription

CONSTANTS ann, bob, cid, r1, r2, here, there

MCPicos == {ann, bob, cid}
MCHosts == [p \in {ann, bob, cid} |-> IF p = cid THEN there ELSE here]
=============================================================================

--------------------------- MODULE MCSkyRelationship ---------------------------
\* Two picos in one mesh, or in two.  p1 is the one that asks for the first of two
\* relationships; who asks for the other is open.
EXTENDS SkyRelationship, TLC

CONSTANTS p1, p2, here, there, i1, i2

MCPicos == {p1, p2}
MCRequests == {<<p1, p2, i1>>, <<p1, p2, i2>>, <<p2, p1, i2>>}
MCHomes == {p1 :> here @@ p2 :> here, p1 :> here @@ p2 :> there}
=============================================================================

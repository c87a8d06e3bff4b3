CONSTANTS
  hub = hub  part = part  near = near  here = here  away = away
  r1 = r1  r2 = r2  r3 = r3
  Nobody = Nobody
  Rels = {r1, r2, r3}
  Members = {hub, part}
  Root = hub
  Peers = {near, here}
  Of <- MCOf
  With <- MCWith
  Near = {near}
  Here = {here}
SPECIFICATION Spec
CHECK_DEADLOCK FALSE
INVARIANTS KeepsLists CopyIsConnected PeersFollowRoot

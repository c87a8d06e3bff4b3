SPECIFICATION FairSpec
CONSTANTS
  p1 = p1
  p2 = p2
  here = here
  there = there
  i1 = i1
  i2 = i2
  Requests <- MCRequests
  Picos <- MCPicos
  Ids = {i1, i2}
  Meshes = {here, there}
  Homes <- MCHomes
  NoPico = NoPico
  Repeats = 2
  MaxFaults = 1
INVARIANTS AgreeAtRest RecordsMatchBuses
PROPERTIES TransactionsEnd KeepsPromise
CHECK_DEADLOCK FALSE

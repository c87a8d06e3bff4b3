CONSTANTS
  ann = ann
  bob = bob
  cid = cid
  r1 = r1
  r2 = r2
  here = here
  there = there
  NoPico = NoPico
  Picos <- MCPicos
  Ids = {r1}
  HostOf <- MCHosts
  MaxCrashes = 1
SPECIFICATION FairSpec
INVARIANTS OneBusPerChannel AgreeAtRest
PROPERTIES EndReachesBoth ApprovalReachesBoth KeepsPromise
CHECK_DEADLOCK FALSE

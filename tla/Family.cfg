SPECIFICATION MCSpec
CONSTANTS
  Picos = {r, a, b}
  FirstRoot = r
  NoPico = NoPico
  Calls <- MCCalls
  MaxCalls <- MCMaxCalls
  MaxCrashes = 1
CHECK_DEADLOCK FALSE
INVARIANTS KnowsItsFamily RequestsServed
PROPERTIES EveryTransactionEnds

SPECIFICATION UseSpec
CONSTANTS
  a = a  b = b  c = c  j1 = j1  j2 = j2  t1 = t1  t2 = t2  t3 = t3
  NoUrl = NoUrl
  Urls = {a, b, c}
  Jobs = {j1}
  Threads = {t1, t2, t3}
  MaxVersion = 2
  Latest <- LatestB
  Uses <- UsesChain
  MaxRestarts = 1
SYMMETRY ThreadSymmetry
CHECK_DEADLOCK FALSE
INVARIANTS StackIsUses UsedIsInstalled ModulesCurrent

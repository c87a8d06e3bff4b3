SPECIFICATION Spec
CONSTANTS
  a = a  b = b  c = c  j1 = j1  j2 = j2
  NoUrl = NoUrl
  Urls = {a, b, c}
  Jobs = {j1, j2}
  MaxVersion = 2
  Latest <- LatestAll
  Uses <- UsesRing
  MaxRestarts = 1
SYMMETRY JobSymmetry
INVARIANTS DiskClosed CacheIsSaved AcyclicUnlessRaced

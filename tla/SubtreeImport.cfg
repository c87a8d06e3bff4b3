CONSTANTS
  top = top
  left = left
  right = right
  leaf = leaf
  twig = twig
  Outside = Outside
  Nodes <- MCNodes
  Root = top
  Kids <- MCKids
  Holds <- MCHolds
  Stabilized = {top, left, twig}
SPECIFICATION Spec
INVARIANTS KnownRemapped UiKnowsChildren
CHECK_DEADLOCK FALSE

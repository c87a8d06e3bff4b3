CONSTANTS
  p1 = p1  p2 = p2  u1 = u1  u2 = u2  r1 = r1  r2 = r2
  Nobody = Nobody  Nothing = Nothing
  Picos = {p1, p2}
  Rulesets = {u1, u2}
  Contents = {0, 1, 2}
  First = 0
  Runs = {r1, r2}
  SchemaOf <- MCSchemaOf
  MaxCalls = 3
  MaxPublished = 1
SPECIFICATION NotifySpec
SYMMETRY Symmetry
CHECK_DEADLOCK FALSE
INVARIANTS EveryoneIsTold

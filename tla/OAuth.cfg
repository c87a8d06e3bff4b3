CONSTANTS
  a1 = a1  a2 = a2  g1 = g1  g2 = g2
  m1 = m1  m2 = m2  m3 = m3  r1 = r1  r2 = r2
  None = None
  App = {a1}
  Code = {g1}
  Mint = {m1, m2, m3}
  Revocation = {r1, r2}
  MaxSecret = 2
SPECIFICATION Spec
SYMMETRY Symmetry
CHECK_DEADLOCK FALSE
INVARIANTS OneTokenPairPerConsent RevokedAppHasNoTokens OnlyCurrentSecretsTokens

CONSTANTS
  c1 = c1  c2 = c2  c3 = c3  c4 = c4
  k1 = k1  k2 = k2  k3 = k3
  i1 = i1  d1 = d1  d2 = d2
  Legacy = Legacy  None = None
  Ceremony = {c1, c2, c3, c4}
  Passkey = {k1, k2, k3}
  Invite = {i1}
  Deletion = {d1, d2}
  SelfSignup = FALSE
SPECIFICATION Spec
SYMMETRY Symmetry
CHECK_DEADLOCK FALSE
INVARIANTS AdmittedOnce KeepsPasskey StaysDeleted

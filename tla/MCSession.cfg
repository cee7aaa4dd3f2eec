CONSTANTS
  A = A
  B = B
  C = C
  Right = Right
  Wrong = Wrong
  Node = {A, B, C}
  Passwords = {Right, Wrong}
  Password <- MCPassword
  MaxConnections <- MCOne
  Timeout = 1
  Lifetime = 0
  MaxRuns = 2
  MaxCalls <- MCCalls
SPECIFICATION Spec
SYMMETRY Symmetry
INVARIANTS
  TypeOK
  OneConnectionPerPeer
  PeersAreConnected
  AdmittedByPassword
CHECK_DEADLOCK FALSE

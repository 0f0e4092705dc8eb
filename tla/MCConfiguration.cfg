SPECIFICATION MCSpec
CONSTANTS
  a1 = a1
  a2 = a2
  path = path
  dbA = dbA
  dbB = dbB
  Agent <- MCAgent
  Editor = {e1}
  Capability <- MCCapability
  MaxTokens = 4
  Policy = {p1, p2}
  Storage = {s1}
  Request = {r1, r2}
  Source <- MCSource
  Requires <- MCRequires
  MaxRequests = 3
SYMMETRY MCSymmetry
INVARIANTS TokensInv StoredIsAllowed SecretsBelong
CHECK_DEADLOCK FALSE

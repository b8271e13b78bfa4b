CONSTANTS
  Identity = {i1, i2}
  Challenge = {c1, c2}
  Proc = {p1, p2}
  Gates <- MCGates
  PerIdentity = {"identity"}
  FailOpen = {"tenant"}
  Limit <- MCLimit
  MaxTries = 2
  None = None
  MaxWindows = 1
  MaxFailures = 1
SYMMETRY Symmetry
SPECIFICATION Spec
INVARIANTS
  TypeOK
  SendsWithinLimit
  GuessesBounded
  ReplayBounded

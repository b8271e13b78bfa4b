CONSTANTS
  User = {u1, u2}
  Key = {k1, k2}
  RowId = {r1, r2, r3}
  Proc = {p1, p2}
  None = None
  MaxTokens = 1
SYMMETRY Symmetry
SPECIFICATION Spec
INVARIANTS
  TypeOK
  UnbindKeepsOne
PROPERTY ImplementsDirectory

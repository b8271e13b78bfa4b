CONSTANTS
  Pwd = {w1}
  Secret = {s1, s2}
  Code = {c1, c2}
  Proc = {p1, p2}
  None = None
  MaxLost = 1
SYMMETRY Symmetry
SPECIFICATION Spec
INVARIANTS
  TypeOK
  EnabledIsProven
  CodesBounded
  ToldStands
  DeletedStaysDeleted

CONSTANTS
  User = {u1}
  Client = {c1, c2}
  JTI = {t1, t2, t3}
  Proc = {p1, p2}
  None = None
SYMMETRY Symmetry
SPECIFICATION Spec
INVARIANTS
  TypeOK
  NoDoubleLive
  LineageIsolated
PROPERTY ImplementsChain

CONSTANTS
  User = {u1}
  Client = {c1}
  JTI = {t1, t2}
  Proc = {p1, p2}
  None = None
SYMMETRY Symmetry
SPECIFICATION SpecSweeps
INVARIANT ReuseRevokesFamily

CONSTANTS
  Key = {k1, k2}
  Join = {j1}
  Proc = {p1, p2}
  None = None
  MaxUses = 1
  MaxAdmitted = 4
SYMMETRY Symmetry
SPECIFICATION Spec
INVARIANTS
  TypeOK
  InviteBounded
  ApprovedIsRegistered

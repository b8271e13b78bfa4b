CONSTANTS
  App = {c1, c2, c3}
  Tenant = Tenant
  Admin = {p1, p2}
  NoRow = NoRow
  MaxLimit = 1
  MaxEdits = 2
  Operator = {o1, o2}
  MaxVersion = 2
  FromFile = 9
SYMMETRY Symmetry
SPECIFICATION Spec
INVARIANTS
  AnswersStand
  QuotaBounded
  RegistryFollows
  SmsAgrees

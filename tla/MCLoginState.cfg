CONSTANTS
  Value = {v1}
  Spelling = {s1, s2}
  UserId = u
  Proc = {p1, p2}
  None = None
  Limit = 1
  RiskLimit = 1
  MaxRisk = 2
  MaxPuts = 2
  MaxLost = 1
SYMMETRY Symmetry
SPECIFICATION Spec
CONSTRAINT Apart
INVARIANTS
  TypeOK
  GuessesBounded
  LockFollows
  LockStopsGuesses
  TakenOnce
  ExchangesBounded

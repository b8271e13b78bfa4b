CONSTANTS
  console = console
  short = short
  long = long
  User = {u1}
  Client <- MCClient
  Proc = {p1, p2}
  Token = {t1, t2}
  AdminConsole = console
  TTL <- MCTTL
  DefaultTTL = 1
  None = None
  MaxVersion = 2
  MaxTime = 1
SYMMETRY Symmetry
SPECIFICATION Spec
INVARIANTS
  TypeOK
  BumpDecides
  BanOutlivesTokens

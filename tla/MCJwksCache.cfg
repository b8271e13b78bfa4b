SPECIFICATION CacheSpec
CONSTANTS
  Proc = {p1}
  Asker = {a1}
  NameCount = 4
  ConfKid = 1
  ConfPrev = {0, 2}
  MaxKey = 3
  MaxKid = 5
  FailAgain = FALSE
INVARIANTS
  TypeOK
  TokenStands
  QuietFilesMatch
  StartsAgain
PROPERTY SdkCatchesUp
CHECK_DEADLOCK FALSE

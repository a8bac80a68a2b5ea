SPECIFICATION Spec
CONSTANTS
  d1 = d1
  d2 = d2
  r1 = r1
  r2 = r2
  Users = {d1, d2}
  Remotes = {r1, r2}
  Longest = 2
  MaxBreaks = 1
  Worlds <- AllWorlds
  None = None
INVARIANTS
  TypeOK
  TableSound
  RightPeer
PROPERTIES
  AnswersMatched
  CallsEnd
CHECK_DEADLOCK FALSE

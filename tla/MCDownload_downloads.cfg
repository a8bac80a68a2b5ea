SPECIFICATION MCSpec
CONSTANTS
  Peers = {p1, p2, p3}
  PieceLength = 2
  Width = 3
  Worlds <- AllWorlds
INVARIANTS
  TypeOK
  InnerPiecesIntact
  PlanSound
  Balanced
  MapsTrue
  NothingForgotten
  PiecesIntact
PROPERTIES
  EndsWhenServed
CHECK_DEADLOCK FALSE

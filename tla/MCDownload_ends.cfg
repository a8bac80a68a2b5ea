SPECIFICATION Spec
CONSTANTS
  Peers = {p1, p2}
  PieceLength = 2
  Width = 2
  Worlds <- QuietWorld
PROPERTIES
  DownloadEnds
CHECK_DEADLOCK FALSE

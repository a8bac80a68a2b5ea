SPECIFICATION MCPatientSpec
CONSTANTS
  Ips = {i1, i2, i3}
  Ports = {p1}
  SrcPorts = {s1}
  Fds = {4, 5}
  Keys = {k1}
  Workers = {w1, w2}
  Garbage = {}
  Metas <- MCMetas
  Requests <- MCRequests
  NoFd = NoFd
  NoConn = NoConn
  NoJob = NoJob
  Listener = 3
  EndOfStream = EndOfStream
  Budget = 8
  Commands = {"announce", "leech", "update"}
INVARIANTS
  SourcesRegistered
  SocketOfThePeer
PROPERTIES
  AnswersTheSender
SYMMETRY Symmetric
CHECK_DEADLOCK FALSE

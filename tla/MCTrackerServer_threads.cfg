SPECIFICATION MCSpec
CONSTANTS
  Ips = {i1, i2}
  Ports = {p1}
  SrcPorts = {s1}
  Fds = {4, 5}
  Keys = {k1}
  Workers = {w1, w2}
  Garbage = {}
  Metas <- MCMetas
  Requests <- MCRequests
  NoFd = NoFd
  NoConn = NoConn
  NoJob = NoJob
  Listener = 3
  EndOfStream = EndOfStream
  Budget = 5
  Commands = {"announce", "unknown", "exit"}
INVARIANTS
  TypeOK
PROPERTIES
  Drained
CHECK_DEADLOCK FALSE

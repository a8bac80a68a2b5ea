SPECIFICATION MCSpec
CONSTANTS
  Ips = {i1, i2}
  Ports = {p1}
  SrcPorts = {s1}
  Fds = {4, 5}
  Keys = {k1}
  Workers = {w1}
  Garbage = {}
  Metas <- MCMetas
  Requests <- MCRequests
  NoFd = NoFd
  NoConn = NoConn
  NoJob = NoJob
  Listener = 3
  EndOfStream = EndOfStream
  Budget = 6
  Commands = {"announce", "exit"}
PROPERTIES
  ClosesTheAsker
CHECK_DEADLOCK FALSE

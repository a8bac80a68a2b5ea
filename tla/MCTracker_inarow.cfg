SPECIFICATION MCSpec
CONSTANTS
  Ips = {i1}
  Ports = {p1}
  SrcPorts = {s1}
  Fds = {f1}
  Keys = {k1}
  Garbage = {}
  NoFd = NoFd
  NoConn = NoConn
  Metas <- MCMetas
  Requests <- MCRequests
  MaxCount = 4
  MaxPeers = 1
  MaxItems = 1
  Commands = {"seed", "unknown"}
PROPERTIES
  ThreeErrorsInARow
SYMMETRY Symmetric

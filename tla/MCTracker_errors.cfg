SPECIFICATION MCSpec
CONSTANTS
  Ips = {i1}
  Ports = {p1}
  SrcPorts = {p1, s1}
  Fds = {f1, f2}
  Keys = {k1, k2}
  Garbage = {"next", "leech"}
  NoFd = NoFd
  NoConn = NoConn
  Metas <- MCMetas
  Requests <- MCRequests
  MaxCount = 3
  MaxPeers = 2
  MaxItems = 1
  Commands = {"seed", "port", "blank", "null", "badAnnounce", "unknown", "exit", "getfile", "look", "lookBlank", "query"}
INVARIANTS
  ErrorsCounted
SYMMETRY Symmetric
VIEW ErrorsView
CHECK_DEADLOCK FALSE

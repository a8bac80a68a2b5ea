SPECIFICATION MCSpec
CONSTANTS
  Ips = {i1}
  Ports = {p1, p2}
  SrcPorts = {s1, s2}
  Fds = {f1, f2}
  Keys = {k1, k2}
  Garbage = {}
  NoFd = NoFd
  NoConn = NoConn
  Metas <- MCMetas
  Requests <- MCRequests
  MaxCount = 0
  MaxPeers = 2
  MaxItems = 2
  Commands = {"announce", "port", "update", "exit"}
INVARIANTS
  TypeOK
  EntriesDistinct
  SourcesRegistered
  EveryFileSeeded
PROPERTIES
  FileLostWithLastSeeder
  MetaStable
SYMMETRY Symmetric
VIEW TablesView
CHECK_DEADLOCK FALSE

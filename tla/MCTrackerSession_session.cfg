SPECIFICATION Spec
CONSTANTS
  u1 = u1
  u2 = u2
  i1 = i1
  i2 = i2
  s1 = s1
  f1 = f1
  f2 = f2
  Users = {u1, u2}
  Ips = {i1, i2}
  Ports = {1}
  SrcPorts = {s1}
  Fds = {f1, f2}
  Keys = {"k0", "k1", "k2", "k3"}
  Metas <- MCMetas
  Garbage = {}
  NoFd = NoFd
  Worlds <- AllWorlds
  Longest = 5
  Workers = 3
  Me <- MCMe
  Fd = f1
  Other <- MCOther
  OtherFd = f2
  OtherKey = "k2"
  Stems <- MCStems
INVARIANTS
  TypeOK
  OwnReply
  AnnouncedSeeds
  SeededOwn
PROPERTIES
  CallsEnd
CHECK_DEADLOCK FALSE

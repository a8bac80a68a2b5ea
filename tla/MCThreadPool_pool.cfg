SPECIFICATION MCSpec
CONSTANTS
  Jobs = {j1, j2, j3}
  Workers = {w1, w2, w3}
  Main = Main
  NoJob = NoJob
  NoThread = NoThread
  Interruptible = {"idle"}
INVARIANTS
  TypeOK
  NoLostWakeup
  SignalHeard
  NobodyLeft
PROPERTIES
  JobsInOrder
  EveryJobStarts
  DestroyEnds
CHECK_DEADLOCK FALSE

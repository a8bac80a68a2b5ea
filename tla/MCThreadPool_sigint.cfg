SPECIFICATION MCSpec
CONSTANTS
  Jobs = {j1}
  Workers = {w1, w2}
  Main = Main
  NoJob = NoJob
  NoThread = NoThread
  Interruptible = {"idle", "push"}
PROPERTIES
  DestroyEnds
CHECK_DEADLOCK FALSE

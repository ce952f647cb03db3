SPECIFICATION Spec
CONSTANTS
  Tasks = {t1, t2}
  PageSize = 6
  SPILLAGE = 3
  SIGSTKSZ = 6
  StackCache = 2
  Engines = {"debugging", "fast"}
  Sizes <- MCSizes
  MemPages = 33
  Places = {3, 18}
  MaxAccess = 2
SYMMETRY Symmetry
CHECK_DEADLOCK FALSE
INVARIANTS FaultBlamed PushOnReturnStack FreedExactly SignalStackApart

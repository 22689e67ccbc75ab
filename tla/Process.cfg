SPECIFICATION FairSpec
CONSTANTS
  Main = Main
  Worker = Worker
  Threads = {Main, Worker, t1, t2}
  Free = Free
  Capacity = 1
  Options = {"DEBUG", "INFO", "WARNING"}
  MaxSignals = 1
  Lines = 2
INVARIANTS
  TypeOK
  LinesWhole
  EndsForAReason
PROPERTIES
  ShutdownExits
  SuitePasses
\* The process ends, or nobody asks it to.
CHECK_DEADLOCK FALSE

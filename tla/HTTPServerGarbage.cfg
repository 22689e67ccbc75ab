SPECIFICATION Spec
CONSTANTS
  Sessions = {s1}
  Messages <- GarbageJSON
  MaxRequests = 2
  MaxCopies = 2
  AcceptMayFail = FALSE
INVARIANTS
  RunningAfterGarbageJSON
\* The process may abort.
CHECK_DEADLOCK FALSE

SPECIFICATION Spec
CONSTANTS
  Sessions = {s1, s2}
  Messages <- Requests
  MaxCopies = 1  \* copies are for HTTPServer.cfg
  Files = {f1}
  Unnamed = Unnamed
  Workers = 2
  CrashLoad = 1
  None = None
SYMMETRY Symmetry
INVARIANTS
  QuietIsStuck
  OthersAnswered
  NotificationsSet
  OnlyWaitersKept
PROPERTIES
  NoWayBack
\* Clients are answered, or wait for good, and the process may exit.
CHECK_DEADLOCK FALSE

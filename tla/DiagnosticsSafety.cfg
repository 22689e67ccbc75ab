SPECIFICATION Spec
CONSTANTS
  Requests = {r1, r2}
  Files = {f1, f2, Unnamed}
  Workers = 3
  Unnamed = Unnamed
  MayCrash = TRUE
  None = None
SYMMETRY Symmetry
INVARIANTS
  TypeOK
  AnswerIsForOwnFile
  NoOtherLostWakeUp
\* The model is done when every request has been answered or waits for good.
CHECK_DEADLOCK FALSE

SPECIFICATION FairSpec
CONSTANTS
  Requests = {r1}
  Files = {f1}
  Workers = 2
  Unnamed = Unnamed
  MayCrash = FALSE
  None = None
PROPERTIES
  WaitEnds
\* The model is done when every request has been answered or waits for good.
CHECK_DEADLOCK FALSE

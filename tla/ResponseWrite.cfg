SPECIFICATION FairSpec
CONSTANTS
  Caller = Caller
  IoThreads = {t1, t2}
  Chunks = 3
  MaxTransfer = 2
  MaxLength = 4
  MaxStarts = 3
INVARIANTS
  TypeOK
  OnlyLastSpoilt
  WholeResponse
PROPERTIES
  ImplementsResponseCopies
  HandlerCalled
\* The response has been written.
CHECK_DEADLOCK FALSE

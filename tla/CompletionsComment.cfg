SPECIFICATION CallSpec
CONSTANTS
  MaxLength = 3
  MaxInt = 3
  Width = 3
  None = None
INVARIANTS
  FileEndsAfterInteresting
\* The call returns.
CHECK_DEADLOCK FALSE

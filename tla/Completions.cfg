SPECIFICATION CallSpec
CONSTANTS
  MaxLength = 4
  MaxInt = 4
  Width = 4
  None = None
INVARIANTS
  TypeOK
  OffsetIsReference
  SameQuestion
  BestAnswer
PROPERTIES
  Returns
\* The call returns.
CHECK_DEADLOCK FALSE

SPECIFICATION FairSpec
CONSTANTS
  Waiters = {w1, w2, w3}
  Setters = {u1, u2}
  Keys = {k1, k2}
  Unset = Unset
  Free = Free
INVARIANTS
  TypeOK
  NoUseAfterDelete
  SetValueOnce
  NoPromiseLost
PROPERTIES
  ImplementsPromiseChannel
  RegisteredIsReached
\* A waiter nobody sets, or one registered after the last set, waits for good.
CHECK_DEADLOCK FALSE

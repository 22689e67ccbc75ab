SPECIFICATION FairSpec
CONSTANTS
  Sessions = {s1, s2}
  Messages <- AllMessages
  MaxRequests = 2
  MaxCopies = 2
  AcceptMayFail = TRUE
INVARIANTS
  TypeOK
  SingleFlight
  KeptWhileOpen
PROPERTIES
  ImplementsHTTPExchange
  RequestAnswered
  SessionReleased
  ShutdownExits
\* The process may exit, the io_service may stop, clients may stop sending.
CHECK_DEADLOCK FALSE

-------------------------- MODULE HTTPServerProofs --------------------------
(***************************************************************************)
(* Proofs about HTTPServer, for any number of connections, any requests    *)
(* and any pipelining, with failing accepts or without.                    *)
(*                                                                         *)
(* One invariant, SessionInv, says of each session what its only pending   *)
(* operation owes its client.  SingleFlight and KeptWhileOpen follow from  *)
(* it, and so does the refinement: what Transmit and TransmitAgain deliver *)
(* is the response to the first request without one, or one more copy of   *)
(* the latest response, of which no copy before was spoilt.                *)
(***************************************************************************)
EXTENDS HTTPServer, SequenceTheorems, FiniteSetTheorems, TLAPS

\* The request that was read last is still to be answered.
OwingOps == {"block", "semantic", "timer", "write"}
Owes(s) == \E op \in OwingOps : pending[s] = {op}

\* The latest response the client got is the one before, or, while a response
\* is being written, an unspoilt copy of that one; when nothing is owed, it is
\* the response to the last request.
UpToDate(s) ==
  IF Owes(s)
  THEN \/ received[s].to = taken[s] - 1
       \/ /\ "write" \in pending[s] /\ received[s].to = taken[s]
          /\ received[s].body = response[s].body
  ELSE received[s].to = taken[s]

\* What a session has read and written, by its only pending operation.
SessionInv(s) ==
  /\ pending[s] = {} \/ \E op \in Ops : pending[s] = {op}
  /\ taken[s] <= Len(sent[s])
  /\ Owes(s) => taken[s] > 0
  /\ conn[s] = "open" => UpToDate(s)
  /\ conn[s] = "open" /\ pending[s] = {} =>
       Arrived(s) /\ Incoming(s).url = "malformed"
  /\ "write" \in pending[s] => response[s] = Exchange!Response(request(s))
  /\ conn[s] \in {"closed", "backlog"} =>
       pending[s] = {} /\ taken[s] = 0 /\ received[s] = Nothing

IndInv == TypeOK /\ \A s \in Sessions : SessionInv(s)

-----------------------------------------------------------------------------
(* Types *)

\* What is written to a client is a response.
LEMMA ResponseTypes ==
  /\ NoResponse \in Responses
  /\ notFoundResponse \in Responses
  /\ \A b \in {"empty", "Hello World", "candidates", "diagnostics"} :
       Ok(b) \in Responses
  BY DEF Responses, NoResponse, notFoundResponse, Ok

\* Replacing an operation by others keeps the type of pending.
LEMMA ReplaceType ==
  ASSUME TypeOK, NEW s \in Sessions, NEW op, NEW next \in SUBSET Ops,
         Replace(s, op, next)
  PROVE  /\ pending' \in [Sessions -> SUBSET Ops]
         /\ pending' = [pending EXCEPT ![s] = (pending[s] \ {op}) \cup next]
         /\ op \in pending[s]
  BY DEF TypeOK, Replace

\* The operations that replace others.
LEMMA NextOps ==
  /\ Handled \in SUBSET Ops /\ ReadFailed \in SUBSET Ops
  /\ Answered \in SUBSET Ops
  /\ \A op \in Ops : {op} \in SUBSET Ops
  BY DEF Handled, ReadFailed, Answered, Ops, AsioOps

\* write() keeps the types of what it changes.
LEMMA WriteType ==
  ASSUME TypeOK, NEW s \in Sessions, NEW op, NEW res \in Responses,
         Write(s, op, res)
  PROVE  /\ pending' \in [Sessions -> SUBSET Ops]
         /\ response' \in [Sessions -> Responses]
<1>1. {"write"} \in SUBSET Ops
  BY DEF Ops, AsioOps
<1> QED
  BY <1>1, ReplaceType DEF Write, TypeOK

\* What a client gets is a copy of a response, with its body or a spoilt one.
LEMMA DeliverType ==
  ASSUME TypeOK, NEW s \in Sessions, NEW body, Deliver(s, body),
         body \in {response[s].body, "torn", "cut", "misframed"}
  PROVE  received' \in [Sessions -> Receivable]
<1>1. /\ taken[s] \in Nat /\ response[s] \in Responses
      /\ received \in [Sessions -> Receivable]
  BY DEF TypeOK
<1>2. received[s].copy \in Nat
  BY <1>1 DEF Receivable
<1>3. CopiesSent(s) + 1 \in Nat
  BY <1>2 DEF CopiesSent
<1> DEFINE r == [to |-> taken[s], copy |-> CopiesSent(s) + 1,
                 status |-> response[s].status, body |-> body]
<1>4. r \in Receivable
  <2>1. /\ response[s].status \in {0, 200, 404}
        /\ response[s].body \in {"none", "empty", "Hello World", "candidates",
                                 "diagnostics", "not found"}
    BY <1>1 DEF Responses
  <2>2. body \in {"none", "empty", "Hello World", "candidates", "diagnostics",
                  "not found", "torn", "cut", "misframed"}
    BY <2>1
  <2> QED
    BY <1>1, <1>3, <2>1, <2>2, Zenon DEF Receivable
<1>5. received' = [received EXCEPT ![s] = IF conn[s] = "open" THEN r ELSE received[s]]
  BY DEF Deliver
<1> HIDE DEF r
<1> QED
  BY <1>1, <1>4, <1>5

\* Every step keeps the types.
LEMMA NextType == TypeOK /\ [Next]_vars => TypeOK'
<1> SUFFICES ASSUME TypeOK, [Next]_vars PROVE TypeOK'
  OBVIOUS
<1> USE DEF clientVars, sessionVars, serverVars
<1>1. ASSUME NEW s \in Sessions, Client(s) PROVE TypeOK'
  <2>1. CASE Connect(s) \/ ClientClose(s)
    BY <2>1 DEF Connect, ClientClose, TypeOK
  <2>2. ASSUME NEW m \in Messages, ClientSend(s, m) PROVE TypeOK'
    <3>1. Append(sent[s], m) \in Seq(Messages)
      BY AppendProperties DEF TypeOK
    <3> QED
      BY <2>2, <3>1 DEF ClientSend, TypeOK
  <2> QED
    BY <1>1, <2>1, <2>2 DEF Client
<1>2. ASSUME NEW s \in Sessions, OnAccept(s) PROVE TypeOK'
  BY <1>2 DEF OnAccept, TypeOK, Ops, AsioOps
<1>3. ASSUME NEW s \in Sessions, OnRead(s) \/ OnReadError(s) PROVE TypeOK'
  <2>1. pending' \in [Sessions -> SUBSET Ops]
    BY <1>3, ReplaceType, NextOps DEF OnRead, OnReadError
  <2>2. stopped' \in BOOLEAN
    BY <1>3, Zenon DEF OnRead, OnReadError, StopIfIdle, TypeOK
  <2>3. taken' \in [Sessions -> Nat]
    <3>1. taken[s] + 1 \in Nat /\ taken \in [Sessions -> Nat]
      BY DEF TypeOK
    <3>2. taken' = taken \/ taken' = [taken EXCEPT ![s] = taken[s] + 1]
      BY <1>3 DEF OnRead, OnReadError
    <3> QED
      BY <3>1, <3>2
  <2> QED
    BY <1>3, <2>1, <2>2, <2>3 DEF OnRead, OnReadError, TypeOK
<1>4. ASSUME NEW s \in Sessions, OnReadUnknown(s) PROVE TypeOK'
  <2>1. pending' \in [Sessions -> SUBSET Ops]
    BY <1>4, ReplaceType DEF OnReadUnknown, Ops, AsioOps
  <2>2. taken' \in [Sessions -> Nat]
    <3>1. taken[s] + 1 \in Nat /\ taken \in [Sessions -> Nat]
      BY DEF TypeOK
    <3>2. taken' = [taken EXCEPT ![s] = taken[s] + 1]
      BY <1>4 DEF OnReadUnknown
    <3> QED
      BY <3>1, <3>2
  <2>3. response' \in [Sessions -> Responses]
    BY <1>4, ResponseTypes DEF OnReadUnknown, TypeOK
  <2> QED
    BY <1>4, <2>1, <2>2, <2>3 DEF OnReadUnknown, TypeOK
<1>5. ASSUME NEW s \in Sessions, OnWrite(s) PROVE TypeOK'
  <2>1. pending' \in [Sessions -> SUBSET Ops]
    BY <1>5, ReplaceType, NextOps DEF OnWrite
  <2> QED
    BY <1>5, <2>1 DEF OnWrite, TypeOK
<1>6. ASSUME NEW s \in Sessions, Transmit(s) PROVE TypeOK'
  <2>1. pending' \in [Sessions -> SUBSET Ops]
    BY <1>6, ReplaceType DEF Transmit, Ops, AsioOps
  <2>2. PICK body \in LastBodies(s) : Deliver(s, body)
    BY <1>6 DEF Transmit
  <2>3. body \in {response[s].body, "torn", "cut", "misframed"}
    BY <2>2 DEF LastBodies
  <2>4. received' \in [Sessions -> Receivable]
    BY <2>2, <2>3, DeliverType
  <2> QED
    BY <1>6, <2>1, <2>4 DEF Transmit, TypeOK
<1>13. ASSUME NEW s \in Sessions, TransmitAgain(s) PROVE TypeOK'
  <2>1. received' \in [Sessions -> Receivable]
    BY <1>13, DeliverType DEF TransmitAgain
  <2> QED
    BY <1>13, <2>1 DEF TransmitAgain, TypeOK
<1>7. ASSUME NEW s \in Sessions,
             Status(s) \/ Shutdown(s) \/ SlowTimer(s) \/ Completions(s) \/ Diagnostics(s)
      PROVE  TypeOK'
  <2>1. /\ pending' \in [Sessions -> SUBSET Ops]
        /\ response' \in [Sessions -> Responses]
    BY <1>7, WriteType, ResponseTypes
    DEF Status, Shutdown, SlowTimer, Completions, Diagnostics
  <2> QED
    BY <1>7, <2>1
    DEF Status, Shutdown, SlowTimer, Completions, Diagnostics, ExitAfter, TypeOK
<1>8. ASSUME NEW s \in Sessions, SlowTest(s) \/ CallCompleter(s) PROVE TypeOK'
  <2>1. pending' \in [Sessions -> SUBSET Ops]
    BY <1>8, ReplaceType DEF SlowTest, CallCompleter, Ops, AsioOps
  <2> QED
    BY <1>8, <2>1 DEF SlowTest, CallCompleter, TypeOK
<1>9. ASSUME NEW s \in Sessions, BodyThrows(s) PROVE TypeOK'
  BY <1>9 DEF BodyThrows, TypeOK
<1>10. CASE OnAcceptError
  <2>1. stopped' \in BOOLEAN
    BY <1>10, Zenon DEF OnAcceptError, StopIfIdle, TypeOK
  <2> QED
    BY <1>10, <2>1 DEF OnAcceptError, TypeOK
<1>11. CASE ExitTimer
  BY <1>11 DEF ExitTimer, TypeOK
<1>12. CASE UNCHANGED vars
  BY <1>12 DEF vars, TypeOK
<1> QED
  BY <1>1, <1>2, <1>3, <1>4, <1>5, <1>6, <1>7, <1>8, <1>9, <1>10, <1>11, <1>12,
     <1>13
  DEF Next, ReadHandler, Callback, Endpoint

\* The server starts with nothing under way.
LEMMA InitType == Init => TypeOK
<1> SUFFICES ASSUME Init PROVE TypeOK
  OBVIOUS
<1>1. stopped \in BOOLEAN
  BY Zenon DEF Init
<1>2. Nothing \in Receivable
  BY DEF Nothing, Receivable
<1> QED
  BY <1>1, <1>2, ResponseTypes, EmptySeq DEF Init, TypeOK

\* Every response is one that an endpoint or onRead builds, with status 200
\* or 404, whatever is sent to the server.
THEOREM TypeCorrect == Spec => []TypeOK
  BY InitType, NextType, PTL DEF Spec

-----------------------------------------------------------------------------
(* Sessions *)

\* A step of one session leaves the invariant of another alone.
LEMMA Others ==
  ASSUME NEW r \in Sessions, SessionInv(r),
         conn'[r] = conn[r], sent'[r] = sent[r], taken'[r] = taken[r],
         pending'[r] = pending[r], response'[r] = response[r],
         received'[r] = received[r]
  PROVE  SessionInv(r)'
  BY DEF SessionInv, UpToDate, Owes, Arrived, Incoming, request

\* The only pending operation of a session gives way to the next one.
LEMMA OnlyOne ==
  ASSUME TypeOK, NEW s \in Sessions, SessionInv(s), NEW op, NEW next,
         Replace(s, op, next)
  PROVE  /\ pending[s] = {op} /\ pending'[s] = next
         /\ \A r \in Sessions \ {s} : pending'[r] = pending[r]
         /\ conn[s] \in {"open", "gone"}
<1>1. pending[s] = {op}
  BY DEF SessionInv, Replace
<1>2. (pending[s] \ {op}) \cup next = next
  BY <1>1
<1>3. conn[s] \in {"open", "gone"}
  BY <1>1 DEF SessionInv, TypeOK
<1> QED
  BY <1>1, <1>2, <1>3 DEF Replace, TypeOK
\* An operation that owes a response gives way to another that does.
LEMMA OwingStep ==
  ASSUME IndInv, NEW s \in Sessions, NEW op \in OwingOps \ {"write"},
         NEW next \in OwingOps, Replace(s, op, {next}),
         UNCHANGED <<conn, sent, taken, received>>,
         \A r \in Sessions \ {s} : response'[r] = response[r],
         next = "write" => response'[s] = Exchange!Response(request(s))
  PROVE  \A r \in Sessions : SessionInv(r)'
<1>1. /\ pending[s] = {op} /\ pending'[s] = {next}
      /\ \A r \in Sessions \ {s} : pending'[r] = pending[r]
      /\ SessionInv(s) /\ conn[s] \in {"open", "gone"}
  BY OnlyOne DEF IndInv
<1>2. \A r \in Sessions \ {s} : SessionInv(r)'
  BY <1>1, Others DEF IndInv
<1>3. Owes(s) /\ Owes(s)' /\ next \in Ops
  BY <1>1 DEF Owes, OwingOps, Ops, AsioOps
<1>4. "write" \in pending'[s] => response'[s] = Exchange!Response(request(s)')
  BY <1>1 DEF request
<1>5. UpToDate(s) => UpToDate(s)'
  BY <1>1, <1>3 DEF UpToDate
<1>6. SessionInv(s)'
  BY <1>1, <1>3, <1>4, <1>5 DEF SessionInv, Arrived, Incoming
<1> QED
  BY <1>2, <1>6

\* The endpoints answer the request they were given.
LEMMA WriteStep ==
  ASSUME IndInv, NEW s \in Sessions, NEW op \in OwingOps \ {"write"}, NEW url, NEW res,
         Runs(s, op, url), Write(s, op, res),
         UNCHANGED <<conn, sent, taken, received>>,
         \A m : m.url = url => Exchange!Response(m) = res
  PROVE  \A r \in Sessions : SessionInv(r)'
<1>1. Replace(s, op, {"write"}) /\ response' = [response EXCEPT ![s] = res]
  BY DEF Write
<1>2. /\ response'[s] = Exchange!Response(request(s))
      /\ \A r \in Sessions \ {s} : response'[r] = response[r]
  BY <1>1 DEF Runs, IndInv, TypeOK
<1>3. "write" \in OwingOps
  BY DEF OwingOps
<1> QED
  BY <1>1, <1>2, <1>3, OwingStep

\* What the endpoints write is what the exchange promises.
LEMMA EndpointResponses ==
  /\ \A m : m.url = "/status" => Exchange!Response(m) = Ok("empty")
  /\ \A m : m.url = "/shutdown" => Exchange!Response(m) = Ok("empty")
  /\ \A m : m.url = "/slow_test" => Exchange!Response(m) = Ok("Hello World")
  /\ \A m : m.url = "/completions" => Exchange!Response(m) = Ok("candidates")
  /\ \A m : m.url = "/diagnostics" => Exchange!Response(m) = Ok("diagnostics")
  /\ \A m : m.url = "/unknown" => Exchange!Response(m) = notFoundResponse
  BY DEF Exchange!Response, Ok, notFoundResponse

\* Blocks and timers keep the invariant.
LEMMA BlockStep ==
  ASSUME IndInv, NEW s \in Sessions,
         Endpoint(s) \/ Completions(s) \/ Diagnostics(s) \/ SlowTimer(s)
  PROVE  \A r \in Sessions : SessionInv(r)'
<1> USE DEF clientVars, sessionVars, serverVars
<1> /\ \A op \in {"block", "semantic", "timer"} : op \in OwingOps \ {"write"}
    /\ "timer" \in OwingOps /\ "semantic" \in OwingOps
  BY DEF OwingOps
<1>1. CASE Status(s)
  BY <1>1, WriteStep, EndpointResponses DEF Status
<1>2. CASE Shutdown(s)
  BY <1>2, WriteStep, EndpointResponses DEF Shutdown
<1>3. CASE SlowTimer(s)
  BY <1>3, WriteStep, EndpointResponses DEF SlowTimer
<1>4. CASE Completions(s)
  BY <1>4, WriteStep, EndpointResponses DEF Completions
<1>5. CASE Diagnostics(s)
  BY <1>5, WriteStep, EndpointResponses DEF Diagnostics
<1>6. CASE SlowTest(s)
  <2>1. Replace(s, "block", {"timer"}) /\ UNCHANGED <<conn, sent, taken, received, response>>
    BY <1>6 DEF SlowTest
  <2> QED
    BY <2>1, OwingStep
<1>7. CASE CallCompleter(s)
  <2>1. Replace(s, "block", {"semantic"}) /\ UNCHANGED <<conn, sent, taken, received, response>>
    BY <1>7 DEF CallCompleter
  <2> QED
    BY <2>1, OwingStep
<1>8. CASE BodyThrows(s)
  BY <1>8, Others DEF BodyThrows, IndInv
<1> QED
  BY <1>1, <1>2, <1>3, <1>4, <1>5, <1>6, <1>7, <1>8 DEF Endpoint

\* onRead takes the next request, and owes it a response.
LEMMA ReadStep ==
  ASSUME IndInv, NEW s \in Sessions, OnRead(s) \/ OnReadUnknown(s)
  PROVE  \A r \in Sessions : SessionInv(r)'
<1> USE DEF clientVars, sessionVars, serverVars
<1>1. /\ taken' = [taken EXCEPT ![s] = taken[s] + 1] /\ Arrived(s)
      /\ UNCHANGED <<conn, sent, received>>
  BY DEF OnRead, OnReadUnknown
<1>2. PICK next \in {"block", "write"} : Replace(s, "read", {next})
  BY DEF OnRead, OnReadUnknown, Handled
<1>3. /\ pending[s] = {"read"} /\ pending'[s] = {next}
      /\ \A r \in Sessions \ {s} : pending'[r] = pending[r]
      /\ SessionInv(s) /\ conn[s] \in {"open", "gone"}
  BY <1>2, OnlyOne DEF IndInv
<1>4. \A r \in Sessions \ {s} : taken'[r] = taken[r] /\ response'[r] = response[r]
  BY <1>1 DEF OnRead, OnReadUnknown, IndInv, TypeOK
<1>5. \A r \in Sessions \ {s} : SessionInv(r)'
  BY <1>1, <1>3, <1>4, Others DEF IndInv
<1>6. taken'[s] = taken[s] + 1 /\ taken[s] \in Nat /\ Len(sent[s]) \in Nat
  BY <1>1, LenProperties DEF IndInv, TypeOK
<1>7. Owes(s)' /\ ~Owes(s) /\ next \in Ops
  BY <1>3 DEF Owes, OwingOps, Ops, AsioOps
<1>8. next = "write" => response'[s] = Exchange!Response(request(s)')
  <2> SUFFICES ASSUME next = "write"
               PROVE  response'[s] = Exchange!Response(request(s)')
    OBVIOUS
  <2>1. OnReadUnknown(s)
    <3>1. ASSUME OnRead(s) PROVE FALSE
      <4>1. pending'[s] = {"block"}
        BY <3>1, OnlyOne DEF OnRead, Handled, IndInv
      <4> QED
        BY <1>3, <4>1
    <3> QED
      BY <3>1
  <2>2. request(s)' = Incoming(s)
    BY <1>1, <1>6 DEF request, Incoming
  <2>3. response'[s] = notFoundResponse /\ Incoming(s).url = "/unknown"
    BY <2>1 DEF OnReadUnknown, IndInv, TypeOK
  <2> QED
    BY <2>2, <2>3, EndpointResponses
<1>9. "write" \in pending'[s] => response'[s] = Exchange!Response(request(s)')
  BY <1>3, <1>8
<1>10. taken'[s] <= Len(sent'[s]) /\ taken'[s] > 0
  BY <1>1, <1>6 DEF Arrived
<1>11. conn'[s] = "open" => UpToDate(s)'
  BY <1>1, <1>3, <1>6, <1>7 DEF SessionInv, UpToDate
<1>12. SessionInv(s)'
  BY <1>1, <1>3, <1>7, <1>9, <1>10, <1>11 DEF SessionInv
<1> QED
  BY <1>5, <1>12
\* A read that fails lets go of the session, which owes nothing; onWrite
\* reads on, and owes nothing either.
LEMMA RestStep ==
  ASSUME IndInv, NEW s \in Sessions, OnReadError(s) \/ OnWrite(s)
  PROVE  \A r \in Sessions : SessionInv(r)'
<1> USE DEF clientVars, sessionVars, serverVars
<1>1. UNCHANGED <<conn, sent, received, taken, response>>
  BY DEF OnReadError, OnWrite
<1>2. PICK op \in {"read", "written"}, next \in {{}, {"read"}} :
        /\ Replace(s, op, next)
        /\ next = {} => conn[s] = "gone" \/ (Arrived(s) /\ Incoming(s).url = "malformed")
  <2>1. CASE OnReadError(s)
    <3>1. /\ Replace(s, "read", {})
          /\ conn[s] = "gone" \/ (Arrived(s) /\ Incoming(s).url = "malformed")
      BY <2>1, Zenon DEF OnReadError, ReadFailed
    <3> QED
      BY <3>1, Zenon
  <2>2. CASE OnWrite(s)
    <3>1. Replace(s, "written", {"read"}) /\ {"read"} # {}
      BY <2>2 DEF OnWrite, Answered
    <3> QED
      BY <3>1, Zenon
  <2> QED
    BY <2>1, <2>2
<1>3. /\ pending[s] = {op} /\ pending'[s] = next
      /\ \A r \in Sessions \ {s} : pending'[r] = pending[r]
      /\ SessionInv(s) /\ conn[s] \in {"open", "gone"}
  BY <1>2, OnlyOne DEF IndInv
<1>4. \A r \in Sessions \ {s} : SessionInv(r)'
  BY <1>1, <1>3, Others DEF IndInv
<1>5. ~Owes(s) /\ ~Owes(s)' /\ "read" \in Ops
  BY <1>3 DEF Owes, OwingOps, Ops, AsioOps
<1>6. SessionInv(s)'
  BY <1>1, <1>2, <1>3, <1>5 DEF SessionInv, UpToDate, Arrived, Incoming
<1> QED
  BY <1>4, <1>6

\* What a copy that reaches a client says.
LEMMA Delivered ==
  ASSUME IndInv, NEW s \in Sessions, NEW body, Deliver(s, body)
  PROVE  /\ \A r \in Sessions \ {s} : received'[r] = received[r]
         /\ conn[s] # "open" => received' = received
         /\ conn[s] = "open" =>
              /\ received'[s].to = taken[s] /\ received'[s].body = body
              /\ received' = [received EXCEPT ![s] =
                                [to |-> taken[s], copy |-> CopiesSent(s) + 1,
                                 status |-> response[s].status, body |-> body]]
<1>1. received \in [Sessions -> Receivable]
  BY DEF IndInv, TypeOK
<1>2. CASE conn[s] = "open"
  BY <1>1, <1>2 DEF Deliver
<1>3. CASE conn[s] # "open"
  BY <1>1, <1>3 DEF Deliver
<1> QED
  BY <1>2, <1>3

\* Transmit gives the client what it is owed, if it is still there.
LEMMA TransmitStep ==
  ASSUME IndInv, NEW s \in Sessions, Transmit(s)
  PROVE  \A r \in Sessions : SessionInv(r)'
<1> USE DEF clientVars, sessionVars, serverVars
<1>1. UNCHANGED <<conn, sent, taken, response>> /\ Replace(s, "write", {"written"})
  BY DEF Transmit
<1>2. /\ pending[s] = {"write"} /\ pending'[s] = {"written"}
      /\ \A r \in Sessions \ {s} : pending'[r] = pending[r]
      /\ SessionInv(s) /\ conn[s] \in {"open", "gone"}
  BY <1>1, OnlyOne DEF IndInv
<1>3. PICK body \in LastBodies(s) : Deliver(s, body)
  BY DEF Transmit
<1>4. \A r \in Sessions \ {s} : SessionInv(r)'
  BY <1>1, <1>2, <1>3, Delivered, Others DEF IndInv
<1>5. Owes(s) /\ ~Owes(s)' /\ "written" \in Ops
  BY <1>2 DEF Owes, OwingOps, Ops, AsioOps
<1>6. conn'[s] = "open" => UpToDate(s)'
  BY <1>1, <1>3, <1>5, Delivered DEF UpToDate
<1>7. SessionInv(s)'
  BY <1>1, <1>2, <1>5, <1>6 DEF SessionInv, Arrived, Incoming
<1> QED
  BY <1>4, <1>7

\* A copy that is followed by another is not spoilt, and the session goes on
\* writing.
LEMMA TransmitAgainStep ==
  ASSUME IndInv, NEW s \in Sessions, TransmitAgain(s)
  PROVE  \A r \in Sessions : SessionInv(r)'
<1> USE DEF clientVars, sessionVars, serverVars
<1>1. /\ UNCHANGED <<conn, sent, taken, pending, response>>
      /\ "write" \in pending[s] /\ conn[s] = "open"
      /\ Deliver(s, response[s].body)
  BY DEF TransmitAgain
<1>2. \A r \in Sessions \ {s} : SessionInv(r)'
  BY <1>1, Delivered, Others DEF IndInv
<1>3. SessionInv(s) /\ pending[s] = {"write"}
  BY <1>1 DEF IndInv, SessionInv
<1>4. Owes(s) /\ Owes(s)'
  BY <1>1, <1>3 DEF Owes, OwingOps
<1>5. UpToDate(s)'
  BY <1>1, <1>4, Delivered DEF UpToDate
<1>6. request(s)' = request(s)
  BY <1>1 DEF request
<1>7. SessionInv(s)'
  BY <1>1, <1>3, <1>4, <1>5, <1>6 DEF SessionInv, Arrived, Incoming
<1> QED
  BY <1>2, <1>7

\* What a client sends does not touch what has been sent before.
LEMMA ClientStep ==
  ASSUME IndInv, NEW s \in Sessions, Client(s)
  PROVE  \A r \in Sessions : SessionInv(r)'
<1> USE DEF clientVars, sessionVars, serverVars
<1>1. UNCHANGED <<taken, pending, response, received>>
  BY DEF Client, Connect, ClientSend, ClientClose
<1>2. \A r \in Sessions \ {s} : conn'[r] = conn[r] /\ sent'[r] = sent[r]
  BY DEF Client, Connect, ClientSend, ClientClose, IndInv, TypeOK
<1>3. \A r \in Sessions \ {s} : SessionInv(r)'
  BY <1>1, <1>2, Others DEF IndInv
<1>4. /\ Len(sent[s]) \in Nat /\ Len(sent'[s]) >= Len(sent[s])
      /\ \A i \in 1..Len(sent[s]) : sent'[s][i] = sent[s][i]
  <2>1. CASE sent' = sent
    BY <2>1, LenProperties DEF IndInv, TypeOK
  <2>2. ASSUME NEW m \in Messages, ClientSend(s, m) PROVE <1>4
    <3>1. sent'[s] = Append(sent[s], m) /\ sent[s] \in Seq(Messages)
      BY <2>2 DEF ClientSend, IndInv, TypeOK
    <3> QED
      BY <3>1, AppendProperties, LenProperties
  <2> QED
    BY <2>1, <2>2 DEF Client, Connect, ClientClose
<1>5. SessionInv(s) /\ taken[s] \in Nat
  BY DEF IndInv, TypeOK
<1>6. /\ taken'[s] <= Len(sent'[s])
      /\ Arrived(s) => Arrived(s)' /\ Incoming(s)' = Incoming(s)
      /\ Owes(s) => request(s)' = request(s)
      /\ Owes(s)' <=> Owes(s)
  <2>1. taken[s] <= Len(sent[s]) /\ (Owes(s) => taken[s] > 0)
    BY <1>5 DEF SessionInv
  <2>2. Owes(s)' <=> Owes(s)
    BY <1>1 DEF Owes
  <2>3. Owes(s) => request(s)' = request(s)
    BY <1>1, <1>4, <1>5, <2>1 DEF request
  <2>4. Arrived(s) => Arrived(s)' /\ Incoming(s)' = Incoming(s)
    BY <1>1, <1>4, <1>5, <2>1 DEF Arrived, Incoming
  <2>5. taken'[s] <= Len(sent'[s])
    BY <1>1, <1>4, <1>5, <2>1, LenProperties, NextType DEF IndInv, TypeOK
  <2> QED
    BY <2>2, <2>3, <2>4, <2>5
<1>7. \/ conn'[s] = conn[s]
      \/ conn[s] = "closed" /\ conn'[s] = "backlog"
      \/ conn[s] = "open" /\ conn'[s] = "gone"
  BY DEF Client, Connect, ClientSend, ClientClose, IndInv, TypeOK
<1>8. "write" \in pending[s] => Owes(s)
  BY <1>5 DEF SessionInv, Owes, OwingOps
<1>9. SessionInv(s)'
  BY <1>1, <1>5, <1>6, <1>7, <1>8 DEF SessionInv, UpToDate
<1> QED
  BY <1>3, <1>9

\* A session starts by reading, with nothing read or written before.
LEMMA AcceptStep ==
  ASSUME IndInv, NEW s \in Sessions, OnAccept(s)
  PROVE  \A r \in Sessions : SessionInv(r)'
<1>1. UNCHANGED <<sent, received, taken, response>>
  BY DEF OnAccept
<1>2. \A r \in Sessions \ {s} : conn'[r] = conn[r] /\ pending'[r] = pending[r]
  BY DEF OnAccept, IndInv, TypeOK
<1>3. \A r \in Sessions \ {s} : SessionInv(r)'
  BY <1>1, <1>2, Others DEF IndInv
<1>4. conn[s] = "backlog" /\ conn'[s] = "open" /\ pending'[s] = {"read"}
  BY DEF OnAccept, IndInv, TypeOK
<1>5. taken[s] = 0 /\ received[s] = Nothing /\ taken[s] <= Len(sent[s])
  BY <1>4 DEF IndInv, SessionInv
<1>6. ~Owes(s)' /\ "read" \in Ops
  BY <1>4 DEF Owes, OwingOps, Ops, AsioOps
<1>7. UpToDate(s)'
  BY <1>1, <1>5, <1>6 DEF UpToDate, Nothing
<1>8. SessionInv(s)'
  BY <1>1, <1>4, <1>5, <1>6, <1>7 DEF SessionInv
<1> QED
  BY <1>3, <1>8

\* Every step keeps the invariant.
LEMMA NextInv == IndInv /\ [Next]_vars => IndInv'
<1> SUFFICES ASSUME IndInv, [Next]_vars PROVE IndInv'
  OBVIOUS
<1>1. TypeOK'
  BY NextType DEF IndInv
<1>2. CASE OnAcceptError \/ ExitTimer \/ UNCHANGED vars
  <2>1. UNCHANGED <<conn, sent, taken, pending, response, received>>
    BY <1>2 DEF OnAcceptError, ExitTimer, vars, clientVars, sessionVars
  <2> QED
    BY <1>1, <2>1, Others DEF IndInv
<1>3. ASSUME NEW s \in Sessions,
             \/ Client(s) \/ OnAccept(s) \/ ReadHandler(s) \/ Callback(s)
             \/ Endpoint(s) \/ Completions(s) \/ Diagnostics(s)
      PROVE  \A r \in Sessions : SessionInv(r)'
  BY <1>3, ClientStep, AcceptStep, ReadStep, RestStep, TransmitStep,
     TransmitAgainStep, BlockStep
  DEF ReadHandler, Callback
<1> QED
  BY <1>1, <1>2, <1>3 DEF Next, IndInv

\* It holds when the server starts.
LEMMA InitInv == Init => IndInv
<1> SUFFICES ASSUME Init PROVE IndInv
  OBVIOUS
<1>1. ASSUME NEW s \in Sessions PROVE SessionInv(s)
  <2>1. /\ conn[s] = "closed" /\ sent[s] = <<>> /\ taken[s] = 0
        /\ pending[s] = {} /\ received[s] = Nothing
    BY DEF Init
  <2>2. Len(sent[s]) = 0
    BY <2>1
  <2> QED
    BY <2>1, <2>2 DEF SessionInv, Owes
<1> QED
  BY <1>1, InitType DEF IndInv

\* The inductive invariant holds in every state.
THEOREM Invariant == Spec => []IndInv
  BY InitInv, NextInv, PTL DEF Spec

\* What the invariant says of the operations pending on a session ...
LEMMA InvSingleFlight == IndInv => SingleFlight
<1> SUFFICES ASSUME IndInv, NEW s \in Sessions
             PROVE  Cardinality(pending[s]) <= 1
  BY DEF SingleFlight
<1>1. CASE pending[s] = {}
  BY <1>1, FS_EmptySet
<1>2. ASSUME NEW op, pending[s] = {op} PROVE Cardinality(pending[s]) <= 1
  <2>1. Cardinality({op}) = 1
    BY FS_Singleton, Zenon
  <2> QED
    BY <1>2, <2>1
<1> QED
  BY <1>1, <1>2 DEF IndInv, SessionInv

\* ... and of a session that nothing retains.
LEMMA InvKept == IndInv => KeptWhileOpen
  BY DEF IndInv, SessionInv, KeptWhileOpen, Released

\* The io_service threads, the workers and the main queue never have two
\* operations under way on a session.
THEOREM OneAtATime == Spec => []SingleFlight
  BY InvSingleFlight, Invariant, PTL

\* A session is kept as long as its client is there and sends HTTP.
THEOREM Kept == Spec => []KeptWhileOpen
  BY InvKept, Invariant, PTL

\* The first copy of a response is the exchange's answer to the next
\* request, and any other copy repeats it.
LEMMA CopyStep ==
  ASSUME IndInv, NEW s \in Sessions, conn[s] = "open", "write" \in pending[s],
         NEW body \in LastBodies(s), Deliver(s, body), sent' = sent
  PROVE  Exchange!Next
<1>1. SessionInv(s) /\ pending[s] = {"write"} /\ Owes(s)
  BY DEF IndInv, SessionInv, Owes, OwingOps
<1>2. /\ taken[s] \in Nat /\ taken[s] > 0 /\ taken[s] <= Len(sent[s])
      /\ Len(sent[s]) \in Nat /\ UpToDate(s)
  BY <1>1, LenProperties DEF SessionInv, IndInv, TypeOK
<1>3. response[s] = Exchange!Response(sent[s][taken[s]])
  BY <1>1 DEF SessionInv, request
<1>4. received' = [received EXCEPT ![s] =
                     [to |-> taken[s], copy |-> CopiesSent(s) + 1,
                      status |-> response[s].status, body |-> body]]
  BY Delivered
<1>5. received[s].to \in Nat /\ received[s].copy \in Nat
  BY DEF IndInv, TypeOK, Receivable
<1>6. CASE received[s].to = taken[s] - 1
  <2>1. CopiesSent(s) = 0
    BY <1>2, <1>6 DEF CopiesSent
  <2>2. body \in {response[s].body, "torn", "cut"}
    BY <2>1 DEF LastBodies
  <2>3. received[s].to + 1 = taken[s]
    BY <1>2, <1>6
  <2>4. Exchange!Receive(s, taken[s], 1, body)
    BY <1>3, <1>4, <2>1 DEF Exchange!Receive
  <2>5. Exchange!Answer(s)
    BY <1>2, <1>3, <2>2, <2>3, <2>4 DEF Exchange!Answer
  <2> QED
    BY <2>5 DEF Exchange!Next
<1>7. CASE received[s].to = taken[s] /\ received[s].body = response[s].body
  <2>1. CopiesSent(s) = received[s].copy
    BY <1>7 DEF CopiesSent
  <2>2. body \in {response[s].body, "torn", "cut", "misframed"}
    BY DEF LastBodies
  <2>3. Exchange!Receive(s, taken[s], received[s].copy + 1, body)
    BY <1>3, <1>4, <2>1 DEF Exchange!Receive
  <2>4. Exchange!Repeat(s)
    BY <1>2, <1>3, <1>7, <2>2, <2>3 DEF Exchange!Repeat
  <2> QED
    BY <2>4 DEF Exchange!Next
<1> QED
  BY <1>1, <1>2, <1>6, <1>7 DEF UpToDate

\* A step of the server sends a connection the response it owes, a copy of
\* the latest one, or nothing.
LEMMA ExchangeStep == IndInv /\ [Next]_vars => [Exchange!Next]_<<sent, received>>
<1> SUFFICES ASSUME IndInv, [Next]_vars
             PROVE  Exchange!Next \/ UNCHANGED <<sent, received>>
  OBVIOUS
<1> USE DEF clientVars, sessionVars, serverVars
<1>1. ASSUME NEW s \in Sessions, NEW m \in Messages, ClientSend(s, m)
      PROVE  Exchange!Next
  BY <1>1 DEF ClientSend, Exchange!Next, Exchange!Ask
<1>2. ASSUME NEW s \in Sessions, Transmit(s)
      PROVE  Exchange!Next \/ UNCHANGED <<sent, received>>
  <2>1. PICK body \in LastBodies(s) : Deliver(s, body)
    BY <1>2 DEF Transmit
  <2>2. sent' = sent /\ "write" \in pending[s]
    BY <1>2 DEF Transmit, Replace
  <2> QED
    BY <2>1, <2>2, CopyStep, Delivered
<1>3. ASSUME NEW s \in Sessions, TransmitAgain(s)
      PROVE  Exchange!Next
  <2>1. /\ conn[s] = "open" /\ "write" \in pending[s] /\ sent' = sent
        /\ Deliver(s, response[s].body) /\ response[s].body \in LastBodies(s)
    BY <1>3 DEF TransmitAgain, LastBodies
  <2> QED
    BY <2>1, CopyStep
<1>4. ASSUME NEW s \in Sessions,
             \/ Connect(s) \/ ClientClose(s) \/ OnAccept(s) \/ ReadHandler(s)
             \/ OnWrite(s) \/ SlowTimer(s) \/ Endpoint(s) \/ Completions(s)
             \/ Diagnostics(s)
      PROVE  UNCHANGED <<sent, received>>
  BY <1>4 DEF Connect, ClientClose, OnAccept, ReadHandler, OnRead,
     OnReadUnknown, OnReadError, OnWrite, SlowTimer, Endpoint, Status,
     Shutdown, SlowTest, BodyThrows, CallCompleter, Completions, Diagnostics
<1>5. CASE OnAcceptError \/ ExitTimer \/ UNCHANGED vars
  BY <1>5 DEF OnAcceptError, ExitTimer, vars
<1> QED
  BY <1>1, <1>2, <1>3, <1>4, <1>5 DEF Next, Client, Callback

\* On every connection the responses come in the order of the requests, none
\* left out, each from the endpoint its own request named; copies of a
\* response come before the next one, and only the last may be spoilt.
THEOREM Refinement == Spec => ImplementsHTTPExchange
<1>1. Init => Exchange!Init
  BY DEF Init, Exchange!Init, Nothing
<1> QED
  BY <1>1, ExchangeStep, Invariant, PTL DEF Spec, Exchange!Spec, ImplementsHTTPExchange
=============================================================================

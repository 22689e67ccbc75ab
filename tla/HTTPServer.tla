----------------------------- MODULE HTTPServer -----------------------------
(***************************************************************************)
(* The HTTP front end: SemanticHTTPServer accepts connections, a Session   *)
(* per connection reads a request, hands it to the endpoint its url names, *)
(* and reads the next one when the response has been written.              *)
(*                                                                         *)
(* Three kinds of threads touch a session: the io_service threads run      *)
(* onAccept, onRead and onWrite; the workers of the global dispatch queue  *)
(* run the endpoint blocks; the main queue runs the timers of /slow_test   *)
(* and /shutdown.  A session lives as long as a closure that retains it    *)
(* does, so the operations pending on a session are also what keeps it,    *)
(* and its socket, alive.                                                  *)
(***************************************************************************)
EXTENDS Naturals, Sequences, FiniteSets

CONSTANTS Sessions,       \* connections, one Session each
          Messages,       \* what clients send: records [url, body]
          MaxRequests,    \* bound: requests that clients send in all
          MaxCopies,      \* bound: times a response is sent
          AcceptMayFail   \* TRUE: async_accept may complete with an error

\* The keys of the map _endpoints.
Endpoints == {"/status", "/shutdown", "/completions", "/diagnostics",
              "/slow_test"}

\* "malformed" is what the HTTP parser rejects.  A body is good JSON with
\* the fields an endpoint asks for, the same with empty contents, or garbage.
Urls == Endpoints \cup {"/unknown", "malformed"}
Bodies == {"good", "hollow", "garbage"}

ASSUME HTTPAssumption ==
  /\ Messages \subseteq [url : Urls, body : Bodies]
  /\ MaxRequests \in Nat /\ MaxCopies \in Nat
  /\ AcceptMayFail \in BOOLEAN

VARIABLES
  conn,      \* per connection: "closed", "backlog", "open", "gone"
  sent,      \* requests the client sent, oldest first
  taken,     \* how many of them onRead got: _request is the last of these
  pending,   \* operations under way that retain the session
  response,  \* the message passed to write()
  received,  \* the latest response the client got: to which request, which
             \* copy of it, and what it says
  exits,     \* sessions retained by the exit timer of /shutdown
  acceptor,  \* "armed": async_accept is pending; "dead": it is not
  stopped,   \* the io_service ran out of work: run() returned in all threads
  process    \* "up", "exited" (exit(0)) or "aborted" (terminate or assert)

sessionVars == <<taken, pending, response>>
clientVars == <<conn, sent, received>>
serverVars == <<exits, acceptor, stopped, process>>
vars == <<sessionVars, clientVars, serverVars>>

\* "write": not all bytes are in the socket; "written": onWrite is queued.
AsioOps == {"read", "write", "written"}
Ops == AsioOps \cup {"block", "semantic", "timer"}

NoResponse == [status |-> 0, body |-> "none"]
Nothing == [to |-> 0, copy |-> 0, status |-> 0, body |-> "none"]
Ok(body) == [status |-> 200, body |-> body]
\* Mutant: the error response.
notFoundResponse_Error == [status |-> 500, body |-> "internal error"]
notFoundResponse == [status |-> 404, body |-> "not found"]

\* The constructor of SemanticHTTPServer has listened and armed the acceptor.
Init ==
  /\ conn = [s \in Sessions |-> "closed"]
  /\ sent = [s \in Sessions |-> <<>>]
  /\ taken = [s \in Sessions |-> 0]
  /\ pending = [s \in Sessions |-> {}]
  /\ response = [s \in Sessions |-> NoResponse]
  /\ received = [s \in Sessions |-> Nothing]
  /\ exits = {}
  /\ acceptor = "armed"
  /\ stopped = FALSE
  /\ process = "up"

Up == process = "up"

\* Operation op of session s ends and next takes its place.
Replace(s, op, next) ==
  /\ op \in pending[s]
  /\ pending' = [pending EXCEPT ![s] = (@ \ {op}) \cup next]

\* The io_service stops for good once no asynchronous operation is pending.
\* An endpoint block is not one: nothing holds an io_service::work.
StopIfIdle ==
  stopped' = (stopped \/ (/\ acceptor' = "dead"
                          /\ \A s \in Sessions : pending'[s] \cap AsioOps = {}))

\* The last closure retaining the session is gone, and its socket closed.
Released(s) ==
  /\ conn[s] \in {"open", "gone"}
  /\ pending[s] = {}
  /\ s \notin exits

-----------------------------------------------------------------------------
(* Clients (external) *)

Connect(s) ==
  /\ Up
  /\ conn[s] = "closed"
  /\ conn' = [conn EXCEPT ![s] = "backlog"]
  /\ UNCHANGED <<sent, received, sessionVars, serverVars>>

\* The requests sent on all connections.
Requests == UNION {{c} \X DOMAIN sent[c] : c \in Sessions}

\* Requests may be pipelined: nobody waits for the previous response.
ClientSend(s, m) ==
  /\ Up
  /\ conn[s] \in {"backlog", "open"} /\ ~Released(s)
  /\ Cardinality(Requests) < MaxRequests
  /\ sent' = [sent EXCEPT ![s] = Append(@, m)]
  /\ UNCHANGED <<conn, received, sessionVars, serverVars>>

ClientClose(s) ==
  /\ Up
  /\ conn[s] = "open"
  /\ conn' = [conn EXCEPT ![s] = "gone"]
  /\ UNCHANGED <<sent, received, sessionVars, serverVars>>

-----------------------------------------------------------------------------
(* io_service threads *)

\* What retains the session after onRead has called handleRequest, after
\* onRead has failed, and after onWrite.
\* Mutants: onRead reads on before the request is answered; it logs an error
\* and reads again, as onWrite does; a session serves one request.
Handled_ReadOn == {"block", "read"}
Handled == {"block"}
ReadFailed_Again == {"read"}
ReadFailed == {}
Answered_Last == {}
Answered == {"read"}

\* onAccept moves the socket, arms the acceptor again, makes the session and
\* starts it, which reads.
OnAccept(s) ==
  /\ Up /\ ~stopped
  /\ acceptor = "armed"
  /\ conn[s] = "backlog"
  /\ conn' = [conn EXCEPT ![s] = "open"]
  /\ pending' = [pending EXCEPT ![s] = {"read"}]
  /\ UNCHANGED <<sent, received, taken, response, serverVars>>

\* onAccept with an error returns without arming the acceptor again.
OnAcceptError ==
  /\ Up /\ ~stopped
  /\ AcceptMayFail
  /\ acceptor = "armed"
  /\ acceptor' = "dead"
  /\ UNCHANGED <<clientVars, sessionVars, exits, process>>
  /\ StopIfIdle

\* The next request in the socket or in _streambuf.
Arrived(s) == taken[s] < Len(sent[s])
Incoming(s) == sent[s][taken[s] + 1]

\* onRead finds the endpoint of the url and dispatches its block ...
OnRead(s) ==
  /\ Up /\ ~stopped
  /\ Arrived(s)
  /\ Incoming(s).url \in Endpoints
  /\ taken' = [taken EXCEPT ![s] = @ + 1]
  /\ Replace(s, "read", Handled)
  /\ UNCHANGED <<clientVars, response, exits, acceptor, process>>
  /\ StopIfIdle

\* ... or writes a not-found response.
OnReadUnknown(s) ==
  /\ Up /\ ~stopped
  /\ Arrived(s)
  /\ Incoming(s).url = "/unknown"
  /\ taken' = [taken EXCEPT ![s] = @ + 1]
  /\ response' = [response EXCEPT ![s] = notFoundResponse]
  /\ Replace(s, "read", {"write"})
  /\ UNCHANGED <<clientVars, serverVars>>

\* onRead with an error lets go of the session: the client has closed, and
\* what it sent may be lost, or the parser rejects what it sent.
OnReadError(s) ==
  /\ Up /\ ~stopped
  /\ \/ conn[s] = "gone"
     \/ Arrived(s) /\ Incoming(s).url = "malformed"
  /\ Replace(s, "read", ReadFailed)
  /\ UNCHANGED <<clientVars, taken, response, exits, acceptor, process>>
  /\ StopIfIdle

\* onWrite logs an error if there is one, and reads the next request.
OnWrite(s) ==
  /\ Up /\ ~stopped
  /\ Replace(s, "written", Answered)
  /\ UNCHANGED <<clientVars, taken, response, serverVars>>

\* The copies that the client got of the response being written.
CopiesSent(s) == IF received[s].to = taken[s] THEN received[s].copy ELSE 0

\* A copy reaches the client, if it is still there.
Deliver(s, body) ==
  received' = [received EXCEPT ![s] =
                 IF conn[s] = "open"
                 THEN [to |-> taken[s], copy |-> CopiesSent(s) + 1,
                       status |-> response[s].status, body |-> body]
                 ELSE @]

\* What the body of the last copy may be: write() destroys the message when
\* it returns, and a body sent later is read from freed memory ("torn"), as
\* far as that can be read ("cut": onWrite gets an error); so is its length,
\* if the copy is not the first ("misframed").  In an io_service that has
\* stopped there is no later: what is sent is sent by write() itself.
\* See ResponseWrite, which implements these steps (ResponseCopies).
LastBodies(s) ==
  {response[s].body}
    \cup (IF response[s].body = "empty" \/ stopped
          THEN {} ELSE {"torn", "cut"})
    \cup (IF CopiesSent(s) = 0 THEN {} ELSE {"misframed"})

\* The socket takes the response: at once, on the thread that calls write(),
\* or later on an io_service thread.  A client that is gone gets nothing,
\* with or without an error for onWrite.
Transmit(s) ==
  /\ Up
  /\ Replace(s, "write", {"written"})
  /\ \E body \in LastBodies(s) : Deliver(s, body)
  /\ UNCHANGED <<conn, sent, taken, response, serverVars>>

\* An io_service thread completes the write before the thread in write() has
\* stored write_op's next state: the whole response is out, and sent again.
TransmitAgain(s) ==
  /\ Up /\ ~stopped
  /\ "write" \in pending[s] /\ conn[s] = "open"
  /\ CopiesSent(s) + 1 < MaxCopies
  /\ Deliver(s, response[s].body)
  /\ UNCHANGED <<conn, sent, sessionVars, serverVars>>

-----------------------------------------------------------------------------
(* Endpoint blocks on the global dispatch queue *)

\* The request an endpoint gets from session s: the last one read.
request(s) == sent[s][taken[s]]

\* A closure of the endpoint url is under way for session s.
Runs(s, op, url) == Up /\ op \in pending[s] /\ request(s).url = url

\* session->write(res), the last thing the closure op does.
Write(s, op, res) ==
  /\ Replace(s, op, {"write"})
  /\ response' = [response EXCEPT ![s] = res]

Status(s) ==
  /\ Runs(s, "block", "/status")
  /\ Write(s, "block", Ok("empty"))
  /\ UNCHANGED <<clientVars, taken, serverVars>>

\* dispatch_after retains the session.  Mutant: no exit is scheduled.
ExitAfter_Never(s) == exits
ExitAfter(s) == exits \cup {s}

Shutdown(s) ==
  /\ Runs(s, "block", "/shutdown")
  /\ exits' = ExitAfter(s)
  /\ Write(s, "block", Ok("empty"))
  /\ UNCHANGED <<clientVars, taken, acceptor, stopped, process>>

\* dispatch_after on the main queue.
SlowTest(s) ==
  /\ Runs(s, "block", "/slow_test")
  /\ Replace(s, "block", {"timer"})
  /\ UNCHANGED <<clientVars, taken, response, serverVars>>

\* readJSONPostBody or a get<> throws: nothing catches it in the block, and
\* std::terminate ends the process.  With empty contents, GetOffset's
\* assertion does, on the completions path only.
Fatal(m) ==
  \/ m.body = "garbage"
  \/ m.body = "hollow" /\ m.url = "/completions"

BodyThrows(s) ==
  /\ \E url \in {"/completions", "/diagnostics"} : Runs(s, "block", url)
  /\ Fatal(request(s))
  /\ process' = "aborted"
  /\ UNCHANGED <<clientVars, sessionVars, exits, acceptor, stopped>>

\* The endpoint calls the completer, which talks to sourcekitd.
CallCompleter(s) ==
  /\ \E url \in {"/completions", "/diagnostics"} : Runs(s, "block", url)
  /\ ~Fatal(request(s))
  /\ Replace(s, "block", {"semantic"})
  /\ UNCHANGED <<clientVars, taken, response, serverVars>>

Completions(s) ==
  /\ Runs(s, "semantic", "/completions")
  /\ Write(s, "semantic", Ok("candidates"))
  /\ UNCHANGED <<clientVars, taken, serverVars>>

Diagnostics(s) ==
  /\ Runs(s, "semantic", "/diagnostics")
  /\ Write(s, "semantic", Ok("diagnostics"))
  /\ UNCHANGED <<clientVars, taken, serverVars>>

-----------------------------------------------------------------------------
(* Timers on the main queue *)

SlowTimer(s) ==
  /\ Runs(s, "timer", "/slow_test")
  /\ Write(s, "timer", Ok("Hello World"))
  /\ UNCHANGED <<clientVars, taken, serverVars>>

\* exit(0), two seconds after a shutdown request.
ExitTimer ==
  /\ Up
  /\ exits # {}
  /\ process' = "exited"
  /\ UNCHANGED <<clientVars, sessionVars, exits, acceptor, stopped>>

-----------------------------------------------------------------------------
Client(s) == Connect(s) \/ ClientClose(s) \/ \E m \in Messages : ClientSend(s, m)

ReadHandler(s) == OnRead(s) \/ OnReadUnknown(s) \/ OnReadError(s)

Callback(s) ==
  OnWrite(s) \/ Transmit(s) \/ TransmitAgain(s) \/ SlowTimer(s)

Endpoint(s) ==
  \/ Status(s) \/ Shutdown(s) \/ SlowTest(s) \/ BodyThrows(s)
  \/ CallCompleter(s)

Next ==
  \/ \E s \in Sessions :
       \/ Client(s) \/ OnAccept(s) \/ ReadHandler(s) \/ Callback(s)
       \/ Endpoint(s) \/ Completions(s) \/ Diagnostics(s)
  \/ OnAcceptError
  \/ ExitTimer

Spec == Init /\ [][Next]_vars

\* The threads of the io_service, of the dispatch queues and of the main
\* queue keep running, timers expire and completion requests to sourcekitd
\* return.  Nothing obliges clients to do anything, diagnostics to arrive
\* (see Diagnostics), or a stopped io_service to finish a write.
Fairness ==
  /\ \A s \in Sessions :
       /\ WF_vars(OnAccept(s)) /\ WF_vars(ReadHandler(s))
       /\ WF_vars(OnWrite(s)) /\ WF_vars(~stopped /\ Transmit(s))
       /\ WF_vars(Endpoint(s)) /\ WF_vars(Completions(s))
       /\ WF_vars(SlowTimer(s))
  /\ WF_vars(ExitTimer)

FairSpec == Spec /\ Fairness

-----------------------------------------------------------------------------
(* Properties *)

\* The responses the server writes, and none.
Responses == [status : {0, 200, 404},
              body : {"none", "empty", "Hello World", "candidates",
                      "diagnostics", "not found"}]

\* What a client may get of them.
Receivable == [to : Nat, copy : Nat, status : {0, 200, 404},
               body : {"none", "empty", "Hello World", "candidates",
                       "diagnostics", "not found", "torn", "cut", "misframed"}]

\* The state of clients, sessions, acceptor and process; a response is one
\* of those the endpoints and onRead build, with status 200 or 404.
TypeOK ==
  /\ conn \in [Sessions -> {"closed", "backlog", "open", "gone"}]
  /\ sent \in [Sessions -> Seq(Messages)]
  /\ taken \in [Sessions -> Nat]
  /\ pending \in [Sessions -> SUBSET Ops]
  /\ response \in [Sessions -> Responses]
  /\ received \in [Sessions -> Receivable]
  /\ exits \in SUBSET Sessions
  /\ acceptor \in {"armed", "dead"}
  /\ stopped \in BOOLEAN
  /\ process \in {"up", "exited", "aborted"}

\* At most one operation is pending on a session: the io_service threads, a
\* worker and the main queue do not touch its _request, its socket or its
\* stream buffer at the same time, although only onRead runs in the strand.
\* (The exit timer of /shutdown may log with the session's logger meanwhile.)
SingleFlight == \A s \in Sessions : Cardinality(pending[s]) <= 1

\* A session is let go of only after its client has closed or sent something
\* that is not HTTP: with an error or without, no handler drops it earlier.
KeptWhileOpen ==
  \A s \in Sessions :
    Released(s) /\ conn[s] = "open" =>
      Arrived(s) /\ Incoming(s).url = "malformed"

Exchange == INSTANCE HTTPExchange WITH
              Connections <- Sessions, asked <- sent, answer <- received

\* Clients get their responses in the order of their requests, none left out,
\* each from the endpoint the request named, whatever is pipelined; a
\* response may come again before the next one, and its last copy may have a
\* spoilt body, but no copy comes after a later request's response.
ImplementsHTTPExchange == Exchange!Spec

\* One of the first n requests of session s has a url of these.
AsksFor(s, n, urls) ==
  \E j \in 1..Len(sent[s]) : j <= n /\ sent[s][j].url \in urls

\* Request i of session s is answered, or need not be: its client is gone,
\* the process has ended, something sent up to there is not HTTP, or asks for
\* diagnostics, which DiagnosticsForFile may wait for forever.
Settled(s, i) ==
  \/ received[s].to >= i \/ conn[s] = "gone" \/ ~Up
  \/ AsksFor(s, i, {"malformed", "/diagnostics"})

\* onAccept does not arm the acceptor after an error, so that the io_service
\* may run out of work while blocks and timers are under way.
Stranded(s) == stopped /\ pending[s] \cap {"write", "written"} # {}

\* A request sent on a connection the client keeps open is answered.  An
\* accept error costs the sessions there are nothing as long as one of them
\* keeps the io_service at work.  If they all leave it, each can still finish
\* the block it is in; it is left with its response unsent, or with its
\* onWrite never called, and in no other place.
RequestAnswered ==
  \A s \in Sessions, i \in 1..MaxRequests :
    (Len(sent[s]) >= i /\ conn[s] = "open") ~> (Settled(s, i) \/ Stranded(s))

\* Once its client has closed, a session is destroyed and its socket closed,
\* unless it is kept by a request for diagnostics or stranded.
SessionReleased ==
  \A s \in Sessions :
    (conn[s] = "gone")
      ~> \/ Released(s) \/ Stranded(s) \/ ~Up
         \/ AsksFor(s, taken[s], {"/diagnostics"})

\* A shutdown request makes the process exit, if its client waits.
ShutdownExits ==
  \A s \in Sessions :
    (Len(sent[s]) > 0 /\ sent[s][1].url = "/shutdown" /\ conn[s] = "open")
      ~> (~Up \/ conn[s] = "gone")

\* "Send a request, and then check if its still up": whatever the body of a
\* request, the server goes on.
RunningAfterGarbageJSON == process # "aborted"
=============================================================================

------------------------------- MODULE Server -------------------------------
(***************************************************************************)
(* The HTTP server with the diagnostics path behind it: HTTPServer and     *)
(* Diagnostics on one pool of worker threads, in one process.              *)
(*                                                                         *)
(* Session s is also the diagnostics request s.  The two share these steps *)
(* and no other: onRead dispatches the block of /diagnostics, the block    *)
(* calls DiagnosticsForFile when it gets a worker, and what that returns   *)
(* is written at once.  Every endpoint's block needs a worker, and keeps   *)
(* it until it returns.                                                    *)
(***************************************************************************)
EXTENDS Naturals, Sequences, FiniteSets

CONSTANTS Sessions,   \* connections, one request each (named bound)
          Messages,   \* what clients may have sent
          MaxCopies,  \* as in HTTPServer
          Files, Unnamed, Workers, None,  \* as in Diagnostics
          CrashLoad   \* bound: sourcekitd goes down only if no more than so
                      \* many sessions ask for diagnostics

VARIABLES
  conn, sent, taken, pending, response, received,
  exits, acceptor, stopped, process,             \* of HTTPServer
  file, pc, edited, answer, initialized, building, ast, note, reply,
  interrupt, registered, result, fired, delivered,
  missed                                         \* of Diagnostics

httpVars == <<conn, sent, taken, pending, response, received,
              exits, acceptor, stopped, process>>
semaVars == <<file, pc, edited, answer, initialized, building, ast, note,
              reply, interrupt, registered, result, fired, delivered, missed>>
vars == <<httpVars, semaVars>>

H == INSTANCE HTTPServer WITH MaxRequests <- 1, AcceptMayFail <- FALSE
D == INSTANCE Diagnostics WITH
       Requests <- Sessions, response <- edited, MayCrash <- TRUE

ASSUME ServerAssumption ==
  /\ IsFiniteSet(Sessions)
  /\ Sessions \cap {None, D!Empty, D!Failed} = {}
  /\ None \notin D!Edits
  /\ Messages \subseteq [url : H!Urls, body : H!Bodies]
  /\ Workers \in Nat \ {0} /\ MaxCopies \in Nat

\* The clients have been accepted and have sent their requests.
Init ==
  /\ D!Init
  /\ conn = [s \in Sessions |-> "open"]
  /\ sent \in [Sessions -> {<<m>> : m \in Messages}]
  /\ taken = [s \in Sessions |-> 0]
  /\ pending = [s \in Sessions |-> {"read"}]
  /\ response = [s \in Sessions |-> H!NoResponse]
  /\ received = [s \in Sessions |-> H!Nothing]
  /\ exits = {} /\ acceptor = "armed" /\ stopped = FALSE /\ process = "up"

-----------------------------------------------------------------------------
(* The pool of workers *)

\* Blocks of /completions that wait for sourcekitd.
Completing ==
  {s \in Sessions : "semantic" \in pending[s] /\ sent[s][1].url = "/completions"}

\* A worker for one more block.  Mutant: one is kept back.
WorkerFree_KeepOne == D!Busy + Cardinality(Completing) + 1 < Workers
WorkerFree == D!Busy + Cardinality(Completing) < Workers

-----------------------------------------------------------------------------
(* Steps of HTTPServer *)

ForDiagnostics(s) == sent[s][1].url = "/diagnostics"

ClientClose(s) == H!ClientClose(s) /\ UNCHANGED semaVars

\* The io_service threads and the timers of the main queue.
Handler(s) ==
  /\ H!ReadHandler(s) \/ H!Callback(s)
  /\ ForDiagnostics(s) => taken' = taken
  /\ UNCHANGED semaVars

\* Blocks of the other endpoints, and one of /diagnostics that throws.
OtherBlock(s) ==
  /\ \/ WorkerFree /\ H!Endpoint(s)
     \/ H!Completions(s)
  /\ ForDiagnostics(s) => process' = "aborted"
  /\ UNCHANGED semaVars

-----------------------------------------------------------------------------
(* Joint steps *)

OnReadDiagnostics(s) ==
  H!OnRead(s) /\ ForDiagnostics(s) /\ D!HandleRequest(s)

CallDiagnosticsForFile(s) ==
  H!CallCompleter(s) /\ ForDiagnostics(s) /\ WorkerFree /\ D!StartBlock(s)

WriteDiagnostics(s) ==
  H!Diagnostics(s) /\ (D!ReturnEmpty(s) \/ D!FutureGet(s))

-----------------------------------------------------------------------------
(* Steps of Diagnostics *)

DiagnosticsForFile(s) ==
  /\ H!Up
  /\ \/ D!CreateService(s) \/ D!EditorOpen(s) \/ D!EditorReplaceText(s)
     \/ D!RegisterFuture(s)
  /\ UNCHANGED httpVars

Receiver(e) ==
  /\ H!Up
  /\ D!Receiver(e)
  /\ note[e] = "global" => WorkerFree
  /\ UNCHANGED httpVars

SemaReady(f) == H!Up /\ D!SemaReady(f) /\ UNCHANGED httpVars

SourceKitDown ==
  /\ H!Up
  /\ Cardinality({s \in Sessions : ForDiagnostics(s)}) <= CrashLoad
  /\ D!SourceKitDown
  /\ UNCHANGED httpVars

OnInterrupt ==
  /\ H!Up
  /\ D!OnInterrupt
  /\ interrupt = "global" => WorkerFree
  /\ UNCHANGED httpVars

ExitTimer == H!ExitTimer /\ UNCHANGED semaVars

-----------------------------------------------------------------------------
Session(s) ==
  \/ Handler(s) \/ OtherBlock(s) \/ OnReadDiagnostics(s)
  \/ CallDiagnosticsForFile(s) \/ DiagnosticsForFile(s) \/ WriteDiagnostics(s)

\* What threads, timers and sourcekitd do unless something stops them.
Step ==
  \/ \E s \in Sessions : Session(s)
  \/ \E e \in D!Edits : Receiver(e)
  \/ \E f \in Files : SemaReady(f)
  \/ OnInterrupt \/ ExitTimer

Next == Step \/ SourceKitDown \/ \E s \in Sessions : ClientClose(s)

Spec == Init /\ [][Next]_vars

-----------------------------------------------------------------------------
(* Properties.  Every step brings some request, notification or timer      *)
(* further, and there are finitely many of them, so that whatever must     *)
(* happen has happened when no step is left.                               *)

\* Blocks in future.get() without a value: each keeps a worker.
Waiting == {s \in Sessions : pc[s] = "get" /\ result[s] = None}

\* Every worker waits.
Exhausted == Cardinality(Waiting) >= Workers

\* Session s is gone, or it waits: for its client, for a worker, or for the
\* notification of its document.
Idle(s) ==
  \/ pending[s] = {}
  \/ pending[s] = {"read"} /\ ~H!Arrived(s) /\ conn[s] = "open"
  \/ pending[s] = {"block"} /\ ~WorkerFree
  \/ s \in Waiting

\* A notification has not been posted, is done with, or waits for a worker.
Resting(where) == where \in {"none", "done"} \/ (where = "global" /\ ~WorkerFree)

\* The process has ended, or nothing is left to do.
Quiet ==
  \/ ~H!Up
  \/ /\ exits = {}
     /\ \A s \in Sessions : Idle(s)
     /\ \A e \in D!Edits : Resting(note[e])
     /\ Resting(interrupt)
     /\ \A f \in Files : building[f] = None

\* Quiet states are those in which no thread, timer or notification can go
\* on: a free worker is all that a block or a receiver in the queue needs,
\* and neither the channel nor the session it belongs to holds it up.
QuietIsStuck == Quiet <=> ~ENABLED Step

\* Once every worker waits in future.get(), the receivers that would wake
\* one of them have no worker to run on: there is no way back.
NoWayBack == [][Exhausted /\ process' = "up" => Exhausted']_vars

\* When all is quiet, a request that is not for diagnostics has been answered
\* if it was HTTP and its client waited, however many sessions wait for
\* diagnostics, whether or not sourcekitd went down, unless every worker
\* waits.
OthersAnswered ==
  Quiet /\ H!Up /\ ~Exhausted =>
    \A s \in Sessions :
      conn[s] = "open" /\ ~ForDiagnostics(s)
        => received[s].to = 1 \/ sent[s][1].url = "malformed"

\* When all is quiet, no notification is left on its way to a block that
\* waits for it, unless every worker waits.
NotificationsSet ==
  Quiet /\ H!Up /\ ~Exhausted =>
    \A s \in Waiting : file[s] # Unnamed => ~D!UnderWay(file[s])

\* When all is quiet, the session of a client that has closed is destroyed,
\* unless its block waits: there is no timeout to end the wait.
OnlyWaitersKept ==
  Quiet /\ H!Up /\ ~Exhausted =>
    \A s \in Sessions : conn[s] = "gone" => H!Released(s) \/ s \in Waiting
=============================================================================

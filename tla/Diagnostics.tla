----------------------------- MODULE Diagnostics -----------------------------
(***************************************************************************)
(* The diagnostics path: SwiftCompleter::DiagnosticsForFile, the requests  *)
(* it sends to sourcekitd, the notifications sourcekitd posts when the     *)
(* semantic analysis of a document is ready, NotificationReceiver, and the *)
(* global dispatch queue whose worker threads run both sides.              *)
(*                                                                         *)
(* A request stands for the buffer contents it carries, so an answer is    *)
(* the request whose contents were analysed.  The FutureChannel is used    *)
(* through the atomic operations of PromiseChannel, which FutureChannel    *)
(* implements.  sourcekitd and the dispatch queues are external: they are  *)
(* modelled from what SwiftCompleter.cpp relies on.                        *)
(***************************************************************************)
EXTENDS Naturals, FiniteSets

CONSTANTS Requests,   \* diagnostics requests, one GCD block each
          Files,      \* document names
          Unnamed,    \* the empty document name
          Workers,    \* worker threads of the global dispatch queue
          MayCrash,   \* TRUE: sourcekitd may go down once (named bound)
          None        \* absent value

\* The two document edits a request makes; each may cause one notification.
Edits == Requests \X {"open", "replace"}

Empty == "empty"    \* the EmptyResponse literal
Failed == "failed"  \* the description of a sourcekitd error

ASSUME DiagnosticsAssumption ==
  /\ Requests \cap {None, Empty, Failed} = {}
  /\ None \notin Edits
  /\ Workers \in Nat \ {0}
  /\ MayCrash \in BOOLEAN

VARIABLES
  file,        \* the document each request is about
  pc,          \* where the block of each request is
  response,    \* whether *oresponse was set by a successful edit
  answer,      \* what DiagnosticsForFile returned
  initialized, \* dispatch_once has run: the notification handler is set
  building,    \* per document, the edit whose analysis is under way
  ast,         \* per document, the contents last analysed
  note,        \* per edit, where its notification is
  reply,       \* per edit, the receiver's answer from sourcekitd
  interrupt,   \* the notification without payload of a sourcekitd crash
  registered, result, fired, delivered,  \* SemaFutureChannel
  missed       \* history: since the last successful edit of the request, a
               \* set for its document came before it had registered, or
               \* sourcekitd went down

requestVars == <<pc, response, answer>>
sourcekitVars == <<building, ast>>
receiverVars == <<note, reply, interrupt>>
channelVars == <<registered, result, fired, delivered>>
vars == <<file, requestVars, initialized, sourcekitVars, receiverVars,
          channelVars, missed>>

SemaFutureChannel == INSTANCE PromiseChannel WITH
  Waiters <- Requests, Setters <- Edits, Unset <- None,
  wkey <- file, skey <- [e \in Edits |-> file[e[1]]]

RequestPC == {"idle", "queued", "service", "open", "replace", "check",
              "get", "done"}
NotePC == {"none", "main", "global", "running", "fetched", "done"}

Init ==
  /\ file \in [Requests -> Files]
  /\ pc = [r \in Requests |-> "idle"]
  /\ response = [r \in Requests |-> FALSE]
  /\ answer = [r \in Requests |-> None]
  /\ initialized = FALSE
  /\ building = [f \in Files |-> None]
  /\ ast = [f \in Files |-> None]
  /\ note = [e \in Edits |-> "none"]
  /\ reply = [e \in Edits |-> None]
  /\ interrupt = "none"
  /\ SemaFutureChannel!Init
  /\ missed = [r \in Requests |-> FALSE]

-----------------------------------------------------------------------------
(* The global dispatch queue: a block occupies a worker until it returns,  *)
(* and a block in future.get() has not returned.                           *)

\* Mutant: a block in future.get() gives its worker back.
InBlock_Async(r) == pc[r] \in {"service", "open", "replace", "check"}
InBlock(r) == pc[r] \in {"service", "open", "replace", "check", "get"}
\* Mutant: a receiver that has returned keeps its worker.
InReceiver_Leak(e) == note[e] \in {"running", "fetched", "done"}
InReceiver(e) == note[e] \in {"running", "fetched"}

Busy == Cardinality({r \in Requests : InBlock(r)})
          + Cardinality({e \in Edits : InReceiver(e)})
          + (IF interrupt = "running" THEN 1 ELSE 0)

\* Mutant: the queue keeps a worker back.
WorkerFree_KeepOne == Busy + 1 < Workers
WorkerFree == Busy < Workers

Goto(r, from, to) == pc[r] = from /\ pc' = [pc EXCEPT ![r] = to]

\* EndpointImpl::handleRequest: dispatch_async of the endpoint's block.
HandleRequest(r) ==
  /\ Goto(r, "idle", "queued")
  /\ UNCHANGED <<file, response, answer, initialized, sourcekitVars,
                 receiverVars, channelVars, missed>>

StartBlock(r) ==
  /\ WorkerFree
  /\ Goto(r, "queued", "service")
  /\ UNCHANGED <<file, response, answer, initialized, sourcekitVars,
                 receiverVars, channelVars, missed>>

-----------------------------------------------------------------------------
(* DiagnosticsForFile *)

\* SourceKitService's constructor: dispatch_once initialises sourcekitd and
\* sets the notification handler; later calls find it done.
CreateService(r) ==
  /\ Goto(r, "service", "open")
  /\ initialized' = TRUE
  /\ UNCHANGED <<file, response, answer, sourcekitVars, receiverVars,
                 channelVars, missed>>

\* What sourcekitd does with an edit: it analyses the new contents, giving
\* up on contents it had not finished with.
Analyse(r, kind) ==
  /\ building' = [building EXCEPT ![file[r]] = <<r, kind>>]
  /\ UNCHANGED ast

\* BasicRequest and the handler it is given: a reply without error becomes
\* the response; on an error the response stays as it was.
BasicRequest(r, kind) ==
  \/ /\ Analyse(r, kind)
     /\ response' = [response EXCEPT ![r] = TRUE]
     /\ missed' = [missed EXCEPT ![r] = FALSE]
  \/ UNCHANGED <<sourcekitVars, response, missed>>

EditorOpen(r) ==
  /\ Goto(r, "open", "replace")
  /\ BasicRequest(r, "open")
  /\ UNCHANGED <<file, answer, initialized, receiverVars, channelVars>>

EditorReplaceText(r) ==
  /\ Goto(r, "replace", "check")
  /\ BasicRequest(r, "replace")
  /\ UNCHANGED <<file, answer, initialized, receiverVars, channelVars>>

\* response == NULL: both requests failed.
ReturnEmpty(r) ==
  /\ ~response[r]
  /\ Goto(r, "check", "done")
  /\ answer' = [answer EXCEPT ![r] = Empty]
  /\ UNCHANGED <<file, response, initialized, sourcekitVars, receiverVars,
                 channelVars, missed>>

RegisterFuture(r) ==
  /\ response[r]
  /\ Goto(r, "check", "get")
  /\ UNCHANGED <<file, response, answer, initialized, sourcekitVars,
                 receiverVars, missed>>
  /\ SemaFutureChannel!Register(r)

\* Mutant: the caller gets the name of the notification, not its value.
Value_Raw(r) == result[r]
Value(r) == reply[result[r]]

FutureGet(r) ==
  /\ Goto(r, "get", "done")
  /\ UNCHANGED <<file, response, initialized, sourcekitVars, receiverVars,
                 missed>>
  /\ SemaFutureChannel!Deliver(r)
  /\ answer' = [answer EXCEPT ![r] = Value(r)]

-----------------------------------------------------------------------------
(* sourcekitd (external) *)

\* The analysis of document f is ready; the notification is put on the main
\* queue, if a handler is set.
SemaReady(f) ==
  /\ building[f] # None
  /\ building' = [building EXCEPT ![f] = None]
  /\ ast' = [ast EXCEPT ![f] = building[f][1]]
  /\ note' = [note EXCEPT ![building[f]] =
                IF initialized THEN "main" ELSE "none"]
  /\ UNCHANGED <<file, requestVars, initialized, reply, interrupt,
                 channelVars, missed>>

\* Requests that have edited their document and have no result yet.
Edited(r) == response[r] /\ pc[r] \in {"replace", "check", "get"}

\* sourcekitd goes down: it forgets its documents and the analyses under
\* way, and the client library posts a notification without payload.
SourceKitDown ==
  /\ MayCrash /\ initialized /\ interrupt = "none"
  /\ interrupt' = "main"
  /\ building' = [f \in Files |-> None]
  /\ ast' = [f \in Files |-> None]
  /\ missed' = [r \in Requests |-> missed[r] \/ Edited(r)]
  /\ UNCHANGED <<file, requestVars, initialized, note, reply, channelVars>>

-----------------------------------------------------------------------------
(* Notifications: the handler runs on the main queue and dispatches        *)
(* NotificationReceiver to the global queue.                               *)

OnNotification(e) ==
  /\ note[e] = "main"
  /\ note' = [note EXCEPT ![e] = "global"]
  /\ UNCHANGED <<file, requestVars, initialized, sourcekitVars, reply,
                 interrupt, channelVars, missed>>

StartReceiver(e) ==
  /\ WorkerFree
  /\ note[e] = "global"
  /\ note' = [note EXCEPT ![e] = "running"]
  /\ UNCHANGED <<file, requestVars, initialized, sourcekitVars, reply,
                 interrupt, channelVars, missed>>

\* A payload without a name: the receiver returns and sets nothing.
ReturnUnnamed(e) ==
  /\ note[e] = "running"
  /\ file[e[1]] = Unnamed
  /\ note' = [note EXCEPT ![e] = "done"]
  /\ UNCHANGED <<file, requestVars, initialized, sourcekitVars, reply,
                 interrupt, channelVars, missed>>

\* The receiver's editor.replacetext with empty text: no edit, it returns
\* the semantic information sourcekitd has now.
FetchSema(e) ==
  LET f == file[e[1]] IN
  /\ note[e] = "running"
  /\ f # Unnamed
  /\ note' = [note EXCEPT ![e] = "fetched"]
  /\ reply' = [reply EXCEPT ![e] = IF ast[f] = None THEN Failed ELSE ast[f]]
  /\ UNCHANGED <<file, requestVars, initialized, sourcekitVars, interrupt,
                 channelVars, missed>>

\* Requests for document f that have edited it and not yet registered.
Unregistered(f) ==
  {r \in Requests : file[r] = f /\ Edited(r) /\ pc[r] # "get"}

SetSema(e) ==
  /\ note[e] = "fetched"
  /\ note' = [note EXCEPT ![e] = "done"]
  /\ missed' = [r \in Requests |->
                  missed[r] \/ r \in Unregistered(file[e[1]])]
  /\ UNCHANGED <<file, requestVars, initialized, sourcekitVars, reply,
                 interrupt>>
  /\ SemaFutureChannel!Fulfil(e)

\* A notification without payload goes the same way and returns early.
OnInterrupt ==
  /\ \/ interrupt = "main" /\ interrupt' = "global"
     \/ interrupt = "global" /\ WorkerFree /\ interrupt' = "running"
     \/ interrupt = "running" /\ interrupt' = "done"
  /\ UNCHANGED <<file, requestVars, initialized, sourcekitVars, note, reply,
                 channelVars, missed>>

-----------------------------------------------------------------------------
Block(r) ==
  \/ StartBlock(r) \/ CreateService(r) \/ EditorOpen(r)
  \/ EditorReplaceText(r) \/ ReturnEmpty(r) \/ RegisterFuture(r)
  \/ FutureGet(r)

Receiver(e) ==
  \/ OnNotification(e) \/ StartReceiver(e) \/ ReturnUnnamed(e)
  \/ FetchSema(e) \/ SetSema(e)

Next ==
  \/ \E r \in Requests : HandleRequest(r) \/ Block(r)
  \/ \E e \in Edits : Receiver(e)
  \/ \E f \in Files : SemaReady(f)
  \/ SourceKitDown
  \/ OnInterrupt

Spec == Init /\ [][Next]_vars

\* Worker threads and the main queue keep running, the dispatch queue starts
\* a queued block when it has a worker, and sourcekitd finishes an analysis
\* unless it goes down.  Nobody is obliged to send requests.
Fairness ==
  /\ \A r \in Requests : WF_vars(Block(r))
  /\ \A e \in Edits : WF_vars(Receiver(e))
  /\ \A f \in Files : WF_vars(SemaReady(f))
  /\ WF_vars(OnInterrupt)

FairSpec == Spec /\ Fairness

-----------------------------------------------------------------------------
(* Properties *)

\* What DiagnosticsForFile may return, and None before it does.
Answers == Requests \cup {None, Empty, Failed}

\* The state of the blocks, sourcekitd, the receiver and the channel; an
\* answer is diagnostics, a literal or an error, never the name of an edit.
TypeOK ==
  /\ file \in [Requests -> Files]
  /\ pc \in [Requests -> RequestPC]
  /\ response \in [Requests -> BOOLEAN]
  /\ answer \in [Requests -> Answers]
  /\ initialized \in BOOLEAN
  /\ building \in [Files -> Edits \cup {None}]
  /\ ast \in [Files -> Requests \cup {None}]
  /\ note \in [Edits -> NotePC]
  /\ reply \in [Edits -> Answers]
  /\ interrupt \in {"none", "main", "global", "running", "done"}
  /\ registered \in SUBSET Requests
  /\ result \in [Requests -> Edits \cup {None}]
  /\ fired \in SUBSET Edits
  /\ delivered \in SUBSET Requests
  /\ missed \in [Requests -> BOOLEAN]

\* Diagnostics are never those of another document: whatever request's
\* notification resolves a future, the contents analysed were sent for the
\* file the answered request is about.
AnswerIsForOwnFile ==
  \A r \in Requests :
    answer[r] \in Requests => file[answer[r]] = file[r]

\* A notification for document f is posted and still to be set.
UnderWay(f) ==
  \E e \in Edits :
    file[e[1]] = f /\ note[e] \in {"main", "global", "running", "fetched"}

\* A notification for document f is still to come.
Coming(f) == building[f] # None \/ UnderWay(f)

\* DiagnosticsForFile loses its wake-up in three ways and in no other: the
\* notification was set in the window between its last successful edit and
\* SemaFutureChannel.future(), sourcekitd went down after that edit, or the
\* document has no name.  Any other request that waits has one coming.
NoOtherLostWakeUp ==
  \A r \in Requests :
    pc[r] = "get" /\ result[r] = None /\ ~Coming(file[r])
      => missed[r] \/ file[r] = Unnamed

\* The wait in DiagnosticsForFile ends: once a request waits and the
\* notification of its own replacetext has been received and answered
\* ("the semantic request completes"), it returns.
WaitEnds ==
  \A r \in Requests :
    (pc[r] = "get" /\ note[<<r, "replace">>] = "done") ~> (pc[r] = "done")
=============================================================================

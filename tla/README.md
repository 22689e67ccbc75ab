# Specifications of SwiftySwiftVim

SwiftySwiftVim is an HTTP server that gives editors Swift completions and
diagnostics. It is a few hundred lines of C++ that put four kinds of threads to
work at once: the threads of a Boost.Asio `io_service`, the workers of the
global dispatch queue, the main queue, and sourcekitd. These modules specify
what those threads do to each other. TLC checks them on small instances; TLAPS
proves their safety properties for any number of threads, clients, requests and
documents.

## The system: components, state, operations

| Component | Source | State | Operations |
|---|---|---|---|
| FutureChannel | `SwiftCompleter.cpp` 20-57 | map from key to a vector of promises, a mutex | `future(key)`, `set(key, value)`, `get()` on what `future` returned |
| Diagnostics path | `SwiftCompleter.cpp` 98-177, 322-345, 396-438, 490-522 | sourcekitd's documents, notifications on their way, the shared `SemaFutureChannel` | `DiagnosticsForFile`, `EditorOpen`, `EditorReplaceText`, the notification handler, `NotificationReceiver` |
| Completions path | `SwiftCompleter.cpp` 265-320, 347-394, 466-488 | none of its own | `GetOffset`, `CompletionOpen`, `CompletionUpdate`, `CandidatesForLocationInFile` |
| HTTP server | `SemanticHTTPServer.hpp`, `SemanticHTTPServer.cpp` 193-208 | acceptor, `io_service`, its threads | constructor, `onAccept` |
| Session | `SemanticHTTPServer.cpp` 76-189 | socket, stream buffer, `_request`, `_endpoint`, a strand | `doRead`, `onRead`, `write`, `onWrite` |
| Endpoints | `SemanticHTTPServer.cpp` 212-401 | timers | `/status`, `/shutdown`, `/completions`, `/diagnostics`, `/slow_test` |
| Response writing | `SemanticHTTPServer.cpp` 170-175, Beast's `write_op` | the message, `write_op`'s data | `async_write` and its continuations |
| Logging | `Logging.*` | a mutex around standard output | `log`, `operator<<` |
| Main loop | `HTTPServerMain.cpp` | signal set, dispatch source on standard input | `main`, `RunMainLoop` |
| Integration tests | `APIIntegrationTests.cpp` | the port of the server they start | `testBind`, `PostRequest`, the three tests |
| file_body | `file_body.hpp` | a file | not used by any endpoint |

**How they interact.** `onAccept` makes a `Session` per connection. A session
reads one request at a time, finds the endpoint by url, and has the endpoint run
as a block on the global dispatch queue; the endpoint ends with
`session->write`, and `onWrite`, back on an `io_service` thread, reads the next
request. A session has no owner: it lives as long as the closure of a pending
operation retains it. `/diagnostics` runs `DiagnosticsForFile` in its block:
two synchronous edits of the document in sourcekitd, then a wait on a future of
the `SemaFutureChannel` under the document's name. sourcekitd posts a
notification on the main queue when it has analysed a document; the handler
dispatches `NotificationReceiver` to the global queue, which asks sourcekitd
for the semantic information and sets the channel. Waiting blocks and receivers
therefore compete for the same workers. Every handler, block and timer logs, and
takes the one mutex of `Logging.cpp` to do so. The main queue carries the
timers, the notifications and the source that polls for signals.

**What is hard.** The wait is registered after the edits that cause the
notification. Keys are document names shared by all requests. Nothing times out.
Exceptions in a dispatch block end the process. A response is written from a
thread that does not run the `io_service`, with a message that does not outlive
the call, by an operation whose state two threads share. A log line is flushed
with the mutex held, to an output that may be closed. The process announces
itself before it listens, and swallows signals. `hazards` in `PROJECT.json` has the full list, each at its line.

**What makes each part correct.**

- FutureChannel: a set reaches exactly the waiters registered for its key, once
  each; no promise is used after its delete, set twice, or lost.
- Diagnostics: an answer is never another document's; a request whose
  notification is coming is answered; what the exceptions are.
- HTTP server: one operation at a time on a session, responses in the order of
  the requests, no session dropped under a client that is there nor kept after
  one that is gone; requests answered, also after an accept error; the process
  ends after `/shutdown`.
- Response writing: `onWrite` is called, and before it the message goes out.
  That it goes out once and as the endpoint wrote it is what Beast promises and
  the program does not get: two findings. What is left is that copies go out and
  only the last one can be spoilt.
- Completions: the part of the buffer up to the right place, for any cursor;
  open and update ask about the same place, and the latest results are returned.
- All of it together: a wait for diagnostics costs nobody else more than a
  worker.
- Process: whole log lines; an end after `/shutdown`; once the main loop runs, no
  end but that, an exception from a block, and SIGPIPE.

## Modules

| Module | Models | Role |
|---|---|---|
| `PromiseChannel` | what a FutureChannel promises | abstract: `Register`, `Fulfil`, `Deliver` are single steps |
| `FutureChannel` | `future`, `get`, `set` | detailed: one step per access to heap, map or mutex |
| `Diagnostics`, `MCDiagnostics` | diagnostics path, dispatch queue, sourcekitd | uses the channel through an instance of `PromiseChannel` |
| `HTTPExchange` | what a client is promised | abstract: `Ask`, `Answer`, `Repeat` |
| `HTTPServer`, `MCHTTPServer` | acceptor, sessions, endpoints, timers | detailed |
| `Server`, `MCServer` | both on one pool of workers | composes `HTTPServer` and `Diagnostics` |
| `ResponseCopies` | what a session may rely on when it calls `write` | abstract: `Again`, `Last`, `Fail`, which are `TransmitAgain` and `Transmit` of `HTTPServer` |
| `ResponseWrite` | `Session::write` and Beast's `write_op` | detailed: implements `ResponseCopies` |
| `CompletionOffset` | `GetOffset` | an algorithm as a process, against a reference |
| `Completions` | `CandidatesForLocationInFile` | extends `CompletionOffset`, calls it twice |
| `Logging` | `Logger` and its mutex | used by `Process` |
| `Process` | `main`, `RunMainLoop`, the main queue, the integration tests | extends `Logging` |
| `FutureChannelProofs`, `DiagnosticsProofs`, `HTTPServerProofs`, `ServerProofs`, `ResponseWriteProofs`, `CompletionsProofs`, `ProcessProofs` | | theorems about the module named; `CompletionsProofs` has those about `CompletionOffset`, `ProcessProofs` those about `Logging` |

`X_Something` is a mutated form of the definition `X`, kept beside it to show
that some property of a run would notice.

### FutureChannel

Every block makes one call, so promises are named after waiters and values after
setters. `wpc` and `spc` say where a block is; the variables `promises`,
`mutex` and `heap` are `_promises`, `_shared_mutex` and the life of the
`std::promise` objects, `state` is the shared state between promise and future,
`index` the range-for of `set`. `NewPromise` allocates before the lock is taken
and `GetFuture` reads the promise after it has been published, as in the code:
what protects this read is that the `lock_guard` lives to the end of the return
statement, and `Acquire_NoWait` shows what happens without a lock. `Get`
is the `future.get()` of `DiagnosticsForFile`.

### Diagnostics

A request stands for the buffer contents it carries, so an answer is the request
whose contents sourcekitd analysed. `pc` walks a block through
`handleRequest`, the worker, the constructor of `SourceKitService`
(`initialized` is its `dispatch_once`), the two edits and the wait. `response`
says whether `*oresponse` was set by either edit, `note` where the notification
of an edit is (main queue, global queue, receiver), `reply` what the receiver
got from sourcekitd. `interrupt` is the notification without payload that the
client library posts when sourcekitd goes down, which the receiver drops.
`Unnamed` is the empty document name, which makes the receiver return too.
sourcekitd (`Analyse`, `SemaReady`, `SourceKitDown`) and the workers (`Busy`,
`WorkerFree`) are external: an edit supersedes the analysis under way, a
finished analysis is notified once, an edit may fail.

`missed` is a history variable: since the request's last successful edit, a set
for its document fell before its registration, or sourcekitd went down.
`NoOtherLostWakeUp` uses it to say that these, and a document without a name, are
the only ways to lose a wake-up. That a notification under way is set, as long as a
worker is left to do it, is `NotificationsSet` of `Server`; together they say that
a request that has not lost its wake-up is answered.

### HTTPServer

`pending[s]` is the set of operations that retain session `s`: a read, an
endpoint's block, a block that has called the completer, a timer, a write, or an
`onWrite` ready to run. That it never has two members is `SingleFlight`, not an
assumption: the actions add and remove members. `exits` has the sessions retained
by the timer of `/shutdown`. `stopped` says that the `io_service` ran out of
work, which, as nothing holds an `io_service::work`, an accept error can bring
about. Requests may be pipelined; a client may close at any time, and a read of
a closed connection may fail before or after what was sent is consumed. A body is
`good`, `garbage` (not JSON, or a field missing: `read_json` or `get` throws) or
`hollow` (empty contents, which `GetOffset` asserts against). Whether the
completer returns is not `HTTPServer`'s business: `Completions` does,
`Diagnostics` may not, and has no fairness.

A response goes out as `ResponseCopies` says: `TransmitAgain` sends a whole copy
after which another one follows, `Transmit` the last one, whose body may be
`torn` (other bytes), `cut` (the rest could not be read, `onWrite` gets an
error) or, in a repeated copy, `misframed` (of another length than its header
says). `received` is what the client got last: which request it answers, which
copy it is, its status and its body. A client that pipelines cannot tell a
second copy from the next response, which is why `HTTPExchange` has `Repeat` and
promises the order of the responses and that none is left out, but not their
number.

### Server

An instance of `HTTPServer` and one of `Diagnostics` with the sessions as
requests, one request per session. Three steps are joint, as they are one step in
the code: `OnReadDiagnostics` (onRead and dispatch_async),
`CallDiagnosticsForFile` (the block has a worker and calls the completer) and
`WriteDiagnostics` (what it returns is written). All other steps are those of one
module and leave the other's variables alone. The pool is what the two share:
`WorkerFree` counts the blocks of `Diagnostics` and those of `/completions`
that wait for sourcekitd; the blocks of the other endpoints are over in one step,
for which they need a worker too.

### ResponseWrite

One response. `Caller` is the thread of the endpoint. The step that hands the
write to asio (`AsyncWrite`) and the step that stores the next state
(`SetState`) are apart, as they are in `write.ipp` 439-457; between them any
`io_service` thread may run. `wire` has what each asio write has sent; there
is a second one if a thread completes the first before the state is stored
(`CompleteEarly`). After `Return` the message is destroyed, and what is read of it
is undefined behaviour, as a nondeterministic choice: the bytes that follow are
the old ones or others (`Pieces`), and an asio write started then takes the
length that `buffer(body_)` finds in a destroyed string (`Lengths`). The header is
in `write_op`'s own buffer. Memory that cannot be read at all ends the write with
an error. `asyncWrite` and `writeOp` of `SemanticHTTPServer.hpp`, with which the
message would have an owner, have no caller and are not modelled.

### CompletionOffset and Completions

`GetOffset` as a process: one step per line read and per character scanned.
Characters are a space, a dot, a newline or another. Line and column are `int`s
of the JSON body converted to `unsigned`, `Width` bits wide. The reference is
the comment on `GetOffset`: the file ends after the last space or dot of the line
that is not behind the cursor (`Reference`). `OffsetIsReference` says when the
code follows it and what it does when not.

`Completions` goes through `GetOffset` for `CompletionOpen`, sends what it
found, starts `GetOffset` again on new locals for `CompletionUpdate`, sends
that, and returns what `*oresponse` holds. sourcekitd is external: either
request may fail, an update has results only in a session opened at its offset.
`response` is whose results `*oresponse` holds, `sent` what was asked, and
whether it had results.

### Logging and Process

A line of the log is three insertions into `std::cout`, the last of which
flushes and blocks while the pipe is full; a call of `log` takes the mutex once
per argument. `Process` has the main thread, one worker and the `io_service`
threads log what the code logs on the way of one request (`Lines` arguments in a
handler or a block). `phase` is how far `main` has come, `queue` the main queue,
with the event of the source on standard input, which nobody reads, and the exit
of `/shutdown`. `signals` are those received, `armed` whether the wait of the
signal set is pending. The client is the suite of the integration tests, which
sleeps instead of waiting for the server and asks for a port it has not bound
(`port` may be taken). The test of a garbage body, which is commented out, is
enabled or not (`garbage`); its block throws (`BodyThrows`) and the process
aborts. `reader` says whether somebody reads the output, has stopped to, or has
closed it: in that case the next flush raises SIGPIPE (`SigPipe`).

## Runs

| Run | Question | Bounds | Result |
|---|---|---|---|
| `FutureChannel` | is the locking of the channel right, and does it do what `PromiseChannel` says? | 3 waiters, 2 setters, 2 keys | holds, 64 thousand states |
| `DiagnosticsSafety` | whose diagnostics can a request get, and how can it get none? | 2 requests, 2 documents and the unnamed one, 3 workers, sourcekitd down once | holds, 1.8 million states up to symmetry |
| `DiagnosticsLostWakeup` | does the wait end when everything it waits for has happened? | 1 request | violated |
| `Server` | what do requests, sessions and notifications lose to blocks that wait? | 2 sessions, 1 document, 2 workers; sourcekitd goes down only if at most one session asks for diagnostics | holds, 756 thousand states up to symmetry |
| `HTTPServer` | do threads and queues keep out of each other's sessions, and does a client get what it asked for, in order and in the end? | 2 connections, 2 requests on one or on both, all messages, 2 copies, accept errors | holds, 319 thousand states |
| `HTTPServerGarbage` | is the server up after a body that is not JSON? | 2 messages | violated |
| `ResponseWrite` | what can go out when a response is written? | 2 `io_service` threads, a header and 3 chunks, 2 per send, written at most 3 times, up to 4 chunks in freed memory | holds, 1018 states |
| `ResponseWriteLifetime` | does the message outlive its write, as Beast asks? | same | violated |
| `ResponseWriteTwice` | does the operation end when the message is written, as Beast says? | same | violated |
| `Completions` | is the offset the right one, and the answer the best there is? | contents up to 4 characters, lines and columns -4 to 4, 4-bit `unsigned` | holds, 644 thousand states |
| `CompletionsComment` | does the file end after the character of interest, as the comment says? | contents up to 3 characters, 3-bit `unsigned` | violated |
| `Process` | does the process log whole lines, end when asked to and for what other reasons, and pass its own tests? | 2 `io_service` threads, all log levels, 1 signal, 2 lines per handler, a pipe of 1 line, the output read, stopped or closed | holds, 496 thousand states |

Why the bounds are enough. Two setters and three waiters on two keys have a key
with two promises while both setters come for it and a third waiter is pushed,
and another key that must not be touched. Two requests have every overlap of two
edits, two notifications and one registration on one document; three workers
leave one for a receiver while both requests wait;
`Server` has two, so that two waiting sessions are the whole pool and one is not. Connections
interact only through the acceptor, the `io_service` and the process, so two are
enough for one to be in a block while the other reads; two requests on one
connection have one being answered and one in the buffer. That more change
nothing is proved for all but liveness. Two copies of a
response are a whole one and a last one, which is all that `ResponseCopies`
tells apart; `Server`, whose question is about responses that do not come at
all, has one (`MaxCopies`), and the proofs any number. Four characters hold
two lines, one of them with a space or a dot and a character; columns go past
every line, and 4 bits are enough for a negative one to wrap past the contents. A
pipe of one line is full whenever a second one comes, and two lines per handler
let another thread in between.

What the violations show (each is a `finding`, with the line it contradicts):

- **Lost wake-up.** Both edits are sent, sourcekitd notifies, the receiver sets
  the channel, and only then does `DiagnosticsForFile` register its future. The
  value is dropped and `get()` never returns. The same happens to a request that
  registers late when another one's edit was the last.
- **Garbage JSON.** The exception is caught by nobody on the dispatch queue.
- **Lifetime.** `write()` passes its own parameter to `async_write`, which keeps
  a reference; a response that does not fit in the first send is read from freed
  memory.
- **Written twice.** `write_op` starts the asio write and then stores its next
  state (`write.ipp` 441-453). Its caller is a worker or the main queue, so an
  `io_service` thread may complete the write in between, find state 1 and write
  the message again. Beast says that the operation continues until "The entire
  message is written".
- **The comment on `GetOffset`.** "The file ends after the first interesting
  character": not if that is the first character of the line. The scan stops
  there in any case, and the branch `i == 0` takes the whole line, what follows
  the cursor included.

More that the models show, and that contradicts no document as clearly:

- With one key per document, the notification of another request's edit, even of
  one that has been answered already, resolves a request whose own contents have
  not been analysed; `AnswerIsForOwnFile` is what remains true.
- Blocks in `get()` keep the workers that the receivers need. `NoWayBack` says
  that once all workers wait they wait for good; the other properties of
  `Server` hold up to that point, and say that until then a wait costs nothing
  but its worker and its session.
- The second copy of a response reaches a client that pipelines in place of its
  next answer. If it is read after the end of the message its length may be wrong
  too. `OnlyLastSpoilt` and `ImplementsHTTPExchange` say what remains true: the
  copies before the last are whole, and none comes after a later response.
- With no space or dot at all up to the cursor `GetOffset` sends the whole line as
  well. The comment says nothing about that case; `OffsetIsReference` does.
- After an accept error nobody is accepted any more, and if every session is in a
  block or a timer then, the `io_service` threads return. `RequestAnswered` and
  `SessionReleased` say that until they do every request is answered and every
  closed connection let go of, and that afterwards a session is left with a
  response nobody sends or an `onWrite` nobody calls (`Stranded`).
- An editor that closes the server's output ends the server at its next log line:
  nothing handles SIGPIPE (`EndsForAReason`).
- `__LISTENINGON` is written before `open`, `bind` and `listen`, so that a
  client that connects on reading it may be refused; and the suite's `sleep(1)`
  may be too short. `SuitePasses` therefore starts where the server has the
  connection.
- A server whose output nobody reads stops at its next log line, all threads
  behind the mutex: `ShutdownExits` and `SuitePasses` except it, and at
  `--log WARNING` it does not happen, as nothing is logged.

Deadlock is not checked: blocks end, clients stop sending, the process exits,
and a waiter nobody sets waits for good, which is what the liveness properties
are about. In `Server` what must happen is stated of the states where no thread,
timer or notification can take a step: every step of theirs brings
one of finitely many requests, notifications and timers further, so such a
state is always reached if the threads as a whole keep running (weak fairness of
`Step`), whichever of them goes first. `Quiet` describes those states without
ENABLED, by what each session and each notification waits for, and
`QuietIsStuck` has TLC compare the description with ENABLED.

## Fairness

- `FutureChannel`: weak fairness of each block. A worker thread is not suspended
  for good. The mutex is asked for finitely often, so weak fairness suffices to
  get it.
- `Diagnostics`: weak fairness of blocks, of receivers and of the main queue,
  and of sourcekitd finishing an analysis. Nothing obliges clients to send
  requests nor sourcekitd to stay up, and a queued block starts only with a free
  worker.
- `HTTPServer`: weak fairness of handlers, blocks, timers and transmission. Not
  of clients, not of `Diagnostics`, and not of a write left in an `io_service`
  that has stopped; nor of a second copy, which need not be sent.
- `ResponseWrite`: weak fairness of threads; a client that is there reads.
- `Completions`: weak fairness of the whole: the block's thread runs, and a
  synchronous request to sourcekitd returns, if only with an error.
- `Process`: weak fairness of `main`, of the main queue, of the timer, of the
  threads and the worker, of every thread's logging, of the suite, and of the
  reader until it stops or closes the output, which it need not do. Not of signals nor of standard input. Threads ask for
  the log mutex finitely often.

## Proofs

Each module of proofs extends the module it is about. The theorems hold for all
values of the constants that satisfy the named assumptions; these say that names
are distinct, that bounds are natural numbers and, in `Server`, that there are
finitely many sessions (workers are counted). `PowerAssumption` says that
`2^Width` is a positive number, which is so for every width, but the provers know
nothing of `^`. What the bounds of the runs leave open, the theorems close:
`MaxLength`, `Lines`, `Chunks`, `MaxRequests` and the like are any number.

The shape is always the same. The invariant of the run is not inductive; an
inductive one is stated at the head of the proof module as a conjunction of named
parts, a lemma per action or group of actions shows that it is kept, and the
listed theorems follow from it.

### FutureChannel

| Theorem | Statement |
|---|---|
| `TypeCorrect` | `Spec => []TypeOK` |
| `IndInvariant` | `Spec => []IndInv` |
| `PromiseAlive` | `Spec => []NoUseAfterDelete` |
| `PromiseSetOnce` | `Spec => []SetValueOnce` |
| `PromiseReachable` | `Spec => []NoPromiseLost` |
| `Refinement` | `Spec => ImplementsPromiseChannel` |

None of the three safety invariants is inductive. That set() finds live promises
without values depends on what every block did since they were pushed, so the
inductive invariant `IndInv` adds to `TypeOK`:

- `MutexInv`: the holder of the mutex is exactly the block inside the scope of a
  `lock_guard`. Everything else about two blocks follows from it.
- `VectorInv`: a vector holds promises of its own key, each once, pushed by
  blocks that have gone on.
- `WalkInv`: the loop of `set` is inside its vector, and what it has passed is
  set, by this setter, and deleted.
- `LiveInv`: what a vector holds and no loop has passed is live and unset.
- `PromiseInv`: where a block is, and where its promise is, agree.

Each conjunct has a lemma for the steps of `future` and `get` and one for those
of `set`; `PushEffect` and `EraseEffect` say once what the two changes of a
vector do. The refinement maps a set to the moment it finds its entry: from
there to the erase the promises of the entry count as fulfilled with the value
of the setter that holds the mutex (`Claimed`). `FutureRefines` and
`SetRefines` show that every step is a step of `PromiseChannel` or leaves its
variables unchanged. `Diagnostics` uses the channel through those atomic
operations, and this theorem is what justifies it.

### Diagnostics

| Theorem | Statement |
|---|---|
| `TypeCorrect` | `Spec => []TypeOK` |
| `DocumentsAgree` | `Spec => [](FileInv /\ AnswerIsForOwnFile)` |
| `OwnAnswers` | `Spec => []AnswerIsForOwnFile` |
| `WakeUps` | `Spec => [](PathInv /\ WakeUpInv)` |
| `OnlyThreeLosses` | `Spec => []NoOtherLostWakeUp` |
| `ChannelAdmits` | `Spec => []CallsAdmitted` |
| `UsesChannel` | `Spec => SemaFutureChannel!Spec` |

An answer comes from a receiver's reply, that from sourcekitd's analysis, and
that from an edit; `FileInv` follows the document's name along this way.
`NoOtherLostWakeUp` speaks of blocks that wait, and would not be kept by the step
with which a block begins to wait: `WakeUpInv` says the same of a request from its
first successful edit on. `PathInv` has what is known at each point of
`DiagnosticsForFile`, above all that a block that waits is registered, so that a
set for its document cannot pass it by. Nothing is assumed about the number of
workers beyond there being one.

The last two justify the use of `PromiseChannel`. Its operations have guards
(a waiter registers once, a setter fires once, a value is taken once) that no
line of `FutureChannel` checks; `FutureChannel` assumes them by giving every
block one call. `ChannelAdmits` shows that they never hold back a block or a
receiver, so that the guards hide no behaviour. It needs `EditsOnce`: the
notification of an edit is posted once, as no document is analysed for two
edits and no edit is under way before its block has come to it.

### HTTPServer

| Theorem | Statement |
|---|---|
| `TypeCorrect` | `Spec => []TypeOK` |
| `Invariant` | `Spec => []IndInv` |
| `OneAtATime` | `Spec => []SingleFlight` |
| `Kept` | `Spec => []KeptWhileOpen` |
| `Refinement` | `Spec => ImplementsHTTPExchange` |

`SessionInv(s)`, the part of `IndInv` about one session, says what the session's
only pending operation owes its client: with a block, a timer or a write pending,
all requests read but the last have been answered, otherwise all; what is about
to be written is the response to the request read last, and the copies of it that
went out already are not spoilt (`UpToDate`). That there is only one
pending operation is part of it and could not be proved alone, nor could the
order of the responses be without it. `ExchangeStep` is the refinement without
the initial state, for `Server` to use; `CopyStep` does the work: what reaches a
client is an `Answer` or a `Repeat` of `HTTPExchange`, for any `MaxCopies`.

### Server

| Theorem | Statement |
|---|---|
| `PoolBounded` | `Spec => [](PoolType /\ PoolInv)` |
| `NoWayBackEver` | `Spec => NoWayBack` |
| `OthersServed` | `Spec => []OthersAnswered` |
| `NotificationsArrive` | `Spec => []NotificationsSet` |
| `OthersReleased` | `Spec => []OnlyWaitersKept` |
| `QuietTakesNoStep` | `Spec => [][Quiet => ~Step]_vars` |
| `ServerIsDiagnostics` | `Spec => DP!Spec` |
| `SessionsOwnAnswers` | `Spec => []D!AnswerIsForOwnFile` |
| `SessionsThreeLosses` | `Spec => []D!NoOtherLostWakeUp` |
| `SessionsOneAtATime` | `Spec => []H!SingleFlight` |
| `SessionsKept` | `Spec => []H!KeptWhileOpen` |
| `SessionsAnswerInOrder` | `Spec => [][H!Exchange!Next]_<<sent, received>>` |

`PoolInv` says that blocks, receivers and completions hold no more workers than
there are: a step takes no worker (`TakesNone`), or waits for a free one and takes
only that (`TakesOne`). So when the blocks that wait are as many as the workers,
no receiver runs (`NoReceiver`); only a receiver sets a future, hence the blocks
that wait are the same after every step (`StillWaiting`).

The next four are about quiet states. In one in which not every worker waits, a
worker is free (`QuietLeavesAWorker`): what holds a worker and does not wait for
a value could go on. So nothing waits for a worker, and what is left of a
session is a read, a block in `future.get()`, or nothing (`QuietSession`). From
there each property needs to know what the session has been through, which is
`ServerInv`: the invariants of the two components, `SentInv` (every client has
sent one request) and `LinkInv` (a block in `DiagnosticsForFile` is the pending
operation of a session that asked for diagnostics). `OthersAnswered` used to
promise an answer to every other client that stays; the proof failed for one that sends
something that is not HTTP, whose session ends without a response. The property
says so now, and the run has such a message. `QuietTakesNoStep` is the half of
`QuietIsStuck` that needs no ENABLED: no thread, timer or notification takes a
step in a quiet state.

The rest carries what is proved of the components over to their composition.
Every step of `Server` is a step of `Diagnostics` or leaves its variables alone
(`SemaStep`), and the same of `HTTPServer` (`HttpStep`). `DP` and `HP` are the
components with their theorems; as they are instances apart from `D` and `H`, two
lemmas say that the steps are the same. The sessions of `Server` start with their
requests sent, which is not the initial state of `HTTPServer`; `InitSessions`
shows that it satisfies the invariant nevertheless. For the same reason
`SessionsAnswerInOrder` is about steps: the step relation of `HTTPExchange`, not
its initial state.

### ResponseWrite

| Theorem | Statement |
|---|---|
| `Invariant` | `Spec => []IndInv` |
| `TypeCorrect` | `Spec => []TypeOK` |
| `SpoiltLast` | `Spec => []OnlyLastSpoilt` |
| `NothingCutOff` | `Spec => []WholeResponse` |
| `Refinement` | `Spec => ImplementsResponseCopies` |

Nothing is assumed about freed memory: its content and the length found in it are
any. `StartInv`: at most one thread drives `write_op`, although nothing locks its
state, and no asio write is in progress meanwhile. `LifeInv` has the reason why
only the last copy can be spoilt: the message ends when `write()` returns, which
is after its thread has stored the state; a thread that writes the message again
has found the old state, so that the message was alive up to the end of the copy
before. The copy it then starts may see the message end, but when it completes the
state has been stored and it is the last. `CopyInv` says what this leaves on the
wire: whole copies, and one that is right as long as the message is alive.
`WholeResponse` tolerates several copies; that they are copies is
`OnlyLastSpoilt`. The refinement counts a copy when its asio write has ended.

### Completions

| Theorem | Statement |
|---|---|
| `Invariant` | `CallSpec => []Inv` |
| `TypeCorrect` | `CallSpec => []TypeOK` |
| `OffsetRight` | `CallSpec => []OffsetIsReference` |
| `AskedTwice` | `CallSpec => []SameQuestion` |
| `LatestReturned` | `CallSpec => []BestAnswer` |

`GetOffset` is a process here, so that what it computes is an invariant of its
loops and needs no induction over the contents. `LoopInv`: what has been copied is
the contents up to where the stream stands, and `currentLine` is the number of
lines that start before. `ScanInv`: the line found is the cursor's, and from the
cursor back to where the scan is there is no space or dot. The lemmas on lines say that the
end of a line is the least newline from there on, and that lines are counted by
their starts. Where the reference is not what the code does, `OffsetRight` proves
what it does instead, the end of the line (`EndOfPart`). `SameQuestion` holds because the reference determines what is sent
(`PlacedOnce`), not because the code passes anything from one call to the other.

### Logging and Process

| Theorem | Statement |
|---|---|
| `Invariant` | `Spec => []IndInv` |
| `TypeCorrect` | `Spec => []TypeOK` |
| `WholeLines` | `Spec => []LinesWhole` |
| `EndsOnlyForAReason` | `Spec => []EndsForAReason` |

`LogInv`: the holder of the mutex is the thread between `writeLock` and
`writeUnLock`, and the buffer has exactly what that thread has inserted.
`StartInv` covers the line `main` writes without the mutex: nobody else runs yet.
`QueueInv` and `SuiteInv` say who puts what on the main queue: at most one event
and one exit, the exit by the timer of `/shutdown`, which is requested once.
`LoudInv` says that a thread in a call of `log` has something to write, so that at
`--log WARNING` no output can be broken under it, and `EndInv` for each way the
process can have ended what must have happened before.

### Only model-checked

- Liveness (`RegisteredIsReached`, `RequestAnswered`, `SessionReleased`, both `ShutdownExits`, `HandlerCalled`, `Returns`,
  `SuitePasses`): the prover has no fairness.
- `QuietIsStuck` of `Server`: the prover has no ENABLED. That no thread takes a
  step in a quiet state is proved (`QuietTakesNoStep`); that some step is enabled in every
  other state is not.
- The five violations, which are counterexamples.

## Not modelled

Formatting and parsing of HTTP and JSON beyond accepted or not; the compiler
arguments (`compilerArgs`, `DiagnosticFlagsFromFlags`), which no behaviour here
depends on; the text of the log; `Session::error` and `asyncWrite` with its
`writeOp`, which nothing calls; the destructor of `SemanticHTTPServer`, which the program never
reaches; time: that the response to `/shutdown` is out two seconds later, or
that clients time out. `file_body`, which no endpoint uses, and `Driver`, which
makes one call with constants, are not modelled. Memory that is never freed (the strings `PrintResponse`
returns) is left out too.

## Plan

Done: the channel, the diagnostics path, the HTTP server, both together on one
pool, the writing of a response, the completions path, logging and the life of
the process; every invariant and action property of the passing runs is proved,
except for `QuietIsStuck`, of which one half is.

What is left: several requests per session in `Server`, and the steps of
`write_op` inside a session there, in place of those of `ResponseCopies`.

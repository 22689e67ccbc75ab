------------------------------ MODULE Process ------------------------------
(***************************************************************************)
(* The life of the server process, as the integration tests see it: main   *)
(* and RunMainLoop of HTTPServerMain.cpp, the constructor of the server,   *)
(* the main queue, signals, what every thread logs, and the suite of       *)
(* APIIntegrationTests.cpp, which starts the process, posts /status,       *)
(* /completions and /shutdown, and expects 200 each time; its test of a    *)
(* body that is not JSON is commented out, and may be enabled.             *)
(*                                                                         *)
(* What a handler or a block does beyond logging is in HTTPServer.  Time   *)
(* is left out: the suite's sleep(1) and the two seconds of /shutdown may  *)
(* be shorter or longer than anything else.  The suite throws the output   *)
(* away; an editor that starts the server has it in a pipe, and may stop   *)
(* reading it, or close it: nothing handles SIGPIPE.                       *)
(***************************************************************************)
EXTENDS Logging

CONSTANTS Main,        \* the main thread: main(), then the main queue
          Worker,      \* a worker of the global dispatch queue
          Options,     \* values of --log
          MaxSignals,  \* bound: SIGINT and SIGTERM received
          Lines        \* bound: arguments a handler logs

IoThreads == Threads \ {Main, Worker}

ASSUME ProcessAssumption ==
  /\ {Main, Worker} \subseteq Threads /\ Main # Worker
  /\ Options \subseteq {"DEBUG", "INFO", "WARNING"}
  /\ MaxSignals \in Nat /\ Lines \in Nat \ {0}

VARIABLES
  phase,    \* of main(): "start", "announced", "listening", "loop"
  running,  \* io_service threads started
  process,  \* "up", "exited", "aborted", "killed" (by SIGINT or SIGTERM) or
            \* "broken" (by SIGPIPE)
  signals,  \* signals caught and not yet handled
  armed,    \* signals.async_wait is pending
  queue,    \* the main queue: "event" (standard input readable), "exit"
  timer,    \* of /shutdown: "none", "set", "fired"
  suite,    \* what the suite is doing
  request,  \* where its request is
  handler,  \* the io_service thread in onRead for it
  hangups,  \* connections the suite has closed and no thread has noticed
  port,     \* the port the suite chose: "free" or "taken"
  garbage,  \* testRunningAfterGarbageJSON is enabled
  reader    \* of standard output: it "reads", has "stopped" or "closed" it

mainVars == <<phase, running, process>>
loopVars == <<signals, armed, queue, timer>>
suiteVars == <<suite, request, handler, hangups, port, garbage>>
vars == <<logVars, mainVars, loopVars, suiteVars, reader>>

Up == process = "up"

LogLevelWithProgramOptionLog(option) ==
  CASE option = "DEBUG" -> LogLevelExtreme
    [] option = "INFO" -> LogLevelInfo
    [] OTHER -> LogLevelError

\* The suite has run the start command.  Its testBind asks for the name of
\* descriptor 0, and uses whatever the address happens to hold as the port.
Init ==
  /\ LogInit
  /\ level \in {LogLevelWithProgramOptionLog(o) : o \in Options}
  /\ phase = "start" /\ running = {} /\ process = "up"
  /\ signals = 0 /\ armed = FALSE /\ queue = <<>> /\ timer = "none"
  /\ suite = "sleep" /\ request = "none" /\ handler = Main /\ hangups = 0
  /\ port \in {"free", "taken"}
  /\ garbage \in BOOLEAN
  /\ reader = "reads"

-----------------------------------------------------------------------------
(* main *)

\* "__LISTENINGON" is written before anything listens, without the mutex.
Announce ==
  /\ Up /\ phase = "start"
  /\ IF reader = "closed"
     THEN process' = "broken" /\ UNCHANGED <<phase, pipe>>
     ELSE phase' = "announced" /\ pipe' = pipe + 1 /\ UNCHANGED process
  /\ UNCHANGED <<level, ioMutex, args, at, buffer, running, loopVars,
                 suiteVars, reader>>

\* open, bind, listen: bind throws if the port is taken, and nothing catches.
Listen ==
  /\ Up /\ phase = "announced"
  /\ IF port = "free" THEN phase' = "listening" /\ UNCHANGED process
     ELSE process' = "aborted" /\ UNCHANGED phase
  /\ UNCHANGED <<logVars, running, loopVars, suiteVars, reader>>

StartThread(t) ==
  /\ Up /\ phase = "listening"
  /\ t \in IoThreads \ running
  /\ running' = running \cup {t}
  /\ UNCHANGED <<logVars, phase, process, loopVars, suiteVars, reader>>

\* RunMainLoop: the signal set is waited on, the source resumed.
RunMainLoop ==
  /\ Up /\ phase = "listening"
  /\ running = IoThreads
  /\ phase' = "loop"
  /\ armed' = TRUE
  /\ UNCHANGED <<logVars, running, process, signals, queue, timer, suiteVars,
                 reader>>

\* From then on a signal only wakes the signal set, whose handler is empty.
\* Mutant: the signal set is left out.
Caught_Never == FALSE
Caught == phase = "loop"

Signal ==
  /\ Up /\ signals < MaxSignals
  /\ signals' = signals + 1
  /\ process' = IF Caught THEN "up" ELSE "killed"
  /\ UNCHANGED <<logVars, phase, running, armed, queue, timer, suiteVars,
                 reader>>

-----------------------------------------------------------------------------
(* The main queue: one item at a time, in order *)

\* Nobody reads standard input, so that it stays readable once it is, and
\* the source fires again each time its handler has run.
\* Mutant: also while an event is queued.
Fires_Again == TRUE
Fires == \A i \in 1..Len(queue) : queue[i] # "event"

StdinEvent ==
  /\ Up /\ phase = "loop" /\ Fires
  /\ queue' = Append(queue, "event")
  /\ UNCHANGED <<logVars, mainVars, signals, armed, timer, suiteVars, reader>>

Serves(item) ==
  /\ Up /\ phase = "loop" /\ Quiet(Main)
  /\ queue # <<>> /\ Head(queue) = item

\* ios->poll() returns at once.  Mutant: run(), which waits for a signal.
PollReturns_Run == signals > 0
PollReturns == TRUE

\* It runs the empty handler if a signal has come.
Poll ==
  /\ Serves("event") /\ PollReturns
  /\ queue' = Tail(queue)
  /\ armed' = (armed /\ signals = 0)
  /\ UNCHANGED <<logVars, mainVars, signals, timer, suiteVars, reader>>

TimerExpires ==
  /\ Up /\ timer = "set"
  /\ timer' = "fired"
  /\ queue' = Append(queue, "exit")
  /\ UNCHANGED <<logVars, mainVars, signals, armed, suiteVars, reader>>

\* The block of /shutdown logs a line, and then calls exit(0).
ShuttingDown ==
  /\ Serves("exit")
  /\ Log(Main, LogLevelInfo, 1)
  /\ queue' = <<"exiting">>
  /\ UNCHANGED <<mainVars, signals, armed, timer, suiteVars, reader>>

Exit ==
  /\ Serves("exiting")
  /\ process' = "exited"
  /\ UNCHANGED <<logVars, phase, running, loopVars, suiteVars, reader>>

-----------------------------------------------------------------------------
(* io_service threads and blocks, by what they log *)

Idle(t) == Up /\ t \in running /\ Quiet(t) /\ handler # t

OnRead(t) ==
  /\ Idle(t) /\ request = "backlog"
  /\ Log(t, LogLevelInfo, Lines)
  /\ handler' = t
  /\ request' = "read"
  /\ UNCHANGED <<mainVars, loopVars, suite, hangups, port, garbage,
                 reader>>

\* dispatch_async of the endpoint's block.
HandleRequest(t) ==
  /\ Up /\ handler = t /\ request = "read" /\ Quiet(t)
  /\ handler' = Main
  /\ request' = "block"
  /\ UNCHANGED <<logVars, mainVars, loopVars, suite, hangups, port, garbage,
                 reader>>

StartBlock ==
  /\ Up /\ request = "block"
  /\ Log(Worker, LogLevelInfo, Lines)
  /\ request' = "running"
  /\ UNCHANGED <<mainVars, loopVars, suite, handler, hangups, port,
                 garbage, reader>>

\* The block sets the timer if it is that of /shutdown, and writes.
Respond ==
  /\ Up /\ request = "running" /\ Quiet(Worker)
  /\ suite # "garbage"
  /\ request' = "answered"
  /\ timer' = IF suite = "/shutdown" THEN "set" ELSE timer
  /\ UNCHANGED <<logVars, mainVars, signals, armed, queue, suite, handler,
                 hangups, port, garbage, reader>>

\* readJSONPostBody throws out of the block, which nothing catches.  A field
\* that is missing, or GetOffset's assertion for empty contents, does the
\* same (see HTTPServer).
BodyThrows ==
  /\ Up /\ request = "running" /\ Quiet(Worker)
  /\ suite = "garbage"
  /\ process' = "aborted"
  /\ UNCHANGED <<logVars, phase, running, loopVars, suiteVars, reader>>

\* onRead fails on a connection that its client has closed: two lines.
OnReadError(t) ==
  /\ Idle(t) /\ hangups > 0
  /\ Log(t, LogLevelInfo, 2)
  /\ hangups' = hangups - 1
  /\ UNCHANGED <<mainVars, loopVars, suite, request, handler, port, garbage,
                 reader>>

\* A thread writes to an output that has been closed, or waits there for
\* room in the pipe when it is closed.
WritesToClosed(t) == reader = "closed" /\ args[t] > 0 /\ at[t] = "endl"

LogArgs(t) ==
  /\ Up /\ ~WritesToClosed(t)
  /\ logArgs(t)
  /\ UNCHANGED <<mainVars, loopVars, suiteVars, reader>>

SigPipe(t) ==
  /\ Up /\ WritesToClosed(t)
  /\ process' = "broken"
  /\ UNCHANGED <<logVars, phase, running, loopVars, suiteVars, reader>>

-----------------------------------------------------------------------------
(* The integration tests *)

Tests == {"/status", "/completions", "garbage", "/shutdown"}

\* The test after the one that is done.
NextTest ==
  CASE suite = "/status" -> "/completions"
    [] suite = "/completions" -> IF garbage THEN "garbage" ELSE "/shutdown"
    [] suite = "garbage" -> "/shutdown"
    [] suite = "/shutdown" -> "passed"

\* testRunningAfterGarbageJSON does not look at what PostRequest returns; for
\* the others Get<response> throws if it is an error.
Fail ==
  IF suite = "garbage" THEN suite' = NextTest /\ request' = "none"
  ELSE suite' = "failed" /\ UNCHANGED request

\* sleep(1) ends, whatever the server has done.
Wake ==
  /\ suite = "sleep"
  /\ suite' = "/status"
  /\ UNCHANGED <<logVars, mainVars, loopVars, request, handler, hangups, port,
                 garbage, reader>>

\* PostRequest connects and writes, or returns an error if nobody listens.
\* What another program on a taken port would answer is left out.
Connect ==
  /\ suite \in Tests
  /\ request = "none"
  /\ IF Up /\ phase \in {"listening", "loop"}
     THEN request' = "backlog" /\ UNCHANGED suite
     ELSE Fail
  /\ UNCHANGED <<logVars, mainVars, loopVars, handler, hangups, port, garbage,
                 reader>>

\* The response has come, with status 200, and the socket is closed.
Passed ==
  /\ suite \in Tests
  /\ request = "answered"
  /\ suite' = NextTest
  /\ request' = "none"
  /\ hangups' = hangups + 1
  /\ UNCHANGED <<logVars, mainVars, loopVars, handler, port, garbage, reader>>

\* The process ends under a request, and PostRequest returns an error.
Broken ==
  /\ suite \in Tests
  /\ ~Up /\ request \notin {"none", "answered"}
  /\ Fail
  /\ UNCHANGED <<logVars, mainVars, loopVars, handler, hangups, port, garbage,
                 reader>>

\* Whoever reads the server's output goes on, stops, or closes it.
Reader ==
  /\ reader = "reads"
  /\ ReadLine
  /\ UNCHANGED <<mainVars, loopVars, suiteVars, reader>>

StopReading ==
  /\ \/ reader = "reads" /\ reader' = "stopped"
     \/ reader # "closed" /\ reader' = "closed"
  /\ UNCHANGED <<logVars, mainVars, loopVars, suiteVars>>

-----------------------------------------------------------------------------
Start == Announce \/ Listen \/ RunMainLoop \/ \E t \in IoThreads : StartThread(t)

MainQueue == Poll \/ ShuttingDown \/ Exit

Service ==
  \/ StartBlock \/ Respond \/ BodyThrows
  \/ \E t \in IoThreads : OnRead(t) \/ HandleRequest(t) \/ OnReadError(t)

Suite == Wake \/ Connect \/ Passed \/ Broken

Next ==
  \/ Start \/ MainQueue \/ StdinEvent \/ TimerExpires \/ Service \/ Suite
  \/ \E t \in Threads : LogArgs(t) \/ SigPipe(t)
  \/ Reader \/ Signal \/ StopReading

Spec == Init /\ [][Next]_vars

\* Threads run, the main queue serves its items, the timer expires, the suite
\* goes on, and the reader reads until it stops or closes the pipe, which it
\* need not do.  Standard input need not become readable.  A thread may be
\* overtaken at the mutex, but the others write finitely many lines.
FairSpec ==
  /\ Spec
  /\ WF_vars(Start) /\ WF_vars(MainQueue) /\ WF_vars(TimerExpires)
  /\ WF_vars(Service) /\ WF_vars(Suite) /\ WF_vars(Reader)
  /\ \A t \in Threads : WF_vars(LogArgs(t) \/ SigPipe(t))

-----------------------------------------------------------------------------
(* Properties *)

\* The state of the process: the pipe never holds more than it can, although
\* main() writes to it without asking, and the queue has one item of a kind.
TypeOK ==
  /\ level \in {LogLevelError, LogLevelInfo, LogLevelExtreme}
  /\ ioMutex \in Threads \cup {Free}
  /\ args \in [Threads -> 0..(Lines + 2)]
  /\ at \in [Threads -> {"lock", "prefix", "arg", "endl", "unlock"}]
  /\ pipe \in 0..Capacity
  /\ phase \in {"start", "announced", "listening", "loop"}
  /\ running \in SUBSET IoThreads
  /\ process \in {"up", "exited", "aborted", "killed", "broken"}
  /\ signals \in 0..MaxSignals
  /\ armed \in BOOLEAN
  /\ Len(queue) <= 2
  /\ timer \in {"none", "set", "fired"}
  /\ request \in {"none", "backlog", "read", "block", "running", "answered"}
  /\ hangups \in 0..3

\* The request with the body that is not JSON has been sent.
GarbagePosted == garbage /\ suite \in {"garbage", "/shutdown", "failed"}

\* Once the main loop runs, the process ends in three ways: exit(0) after a
\* request for /shutdown, an exception out of the block that reads a bad
\* body, and SIGPIPE from logging to an output that has been closed.  Neither
\* a signal that asks it to end nor what comes on standard input does it.
EndsForAReason ==
  phase = "loop" /\ ~Up =>
    \/ process = "exited" /\ timer = "fired"
    \/ process = "aborted" /\ GarbagePosted
    \/ process = "broken" /\ reader = "closed" /\ level >= LogLevelInfo

\* The pipe may block whoever logs.
MayBlock == reader = "stopped" /\ level >= LogLevelInfo

\* After /shutdown the process exits, with standard input readable all the
\* time and every thread logging, as long as somebody reads the output, has
\* closed it, or nothing is logged.
ShutdownExits == (timer = "set") ~> (~Up \/ MayBlock)

\* A suite that finds the server listening gets its three responses, unless
\* the process ends before or its output is not read.
SuitePasses ==
  (request = "backlog") ~> (suite = "passed" \/ ~Up \/ MayBlock)
=============================================================================

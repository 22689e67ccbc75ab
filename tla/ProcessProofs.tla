--------------------------- MODULE ProcessProofs ---------------------------
(***************************************************************************)
(* Proofs about Process and the Logging it extends, for any number of      *)
(* io_service threads, any pipe and any number of signals and lines.       *)
(*                                                                         *)
(* LinesWhole needs to know whose insertions are in the buffer of          *)
(* std::cout: those of the holder of the mutex, up to where it is in       *)
(* logArgs (LogInv).  EndsForAReason needs to know who puts an exit on the *)
(* main queue (QueueInv), which depends on the suite asking for /shutdown  *)
(* once (SuiteInv), and that nobody logs below LogLevelInfo (LoudInv).     *)
(* StartInv is for what main() writes without the mutex.                   *)
(***************************************************************************)
EXTENDS Process, SequenceTheorems, TLAPS

\* Thread t is between writeLock and writeUnLock.
Inside(t) == args[t] > 0 /\ at[t] # "lock"

\* What the holder of the mutex has inserted since the last flush.
Inserted(t) ==
  CASE at[t] = "arg" -> <<<<t, "prefix">>>>
    [] at[t] = "endl" -> <<<<t, "prefix">>, <<t, "arg">>>>
    [] OTHER -> <<>>

\* The holder of the mutex is the thread inside, and the buffer is its own.
LogInv ==
  /\ \A t \in Threads : Inside(t) <=> ioMutex = t
  /\ \A t \in Threads : args[t] = 0 => at[t] = "lock"
  /\ ioMutex = Free => buffer = <<>>
  /\ \A t \in Threads : ioMutex = t => buffer = Inserted(t)

\* Before main() has announced the server nothing runs and nothing is
\* written; before it listens there is no thread and no request.
StartInv ==
  /\ phase = "start" => pipe = 0 /\ \A t \in Threads : args[t] = 0
  /\ running # {} \/ request # "none" => phase \in {"listening", "loop"}

\* The main queue holds at most one event and one exit, which the timer of
\* /shutdown has put there.
Exits == {"exit", "exiting"}
QueueInv ==
  \/ queue = <<>>
  \/ queue = <<"event">>
  \/ /\ timer = "fired"
     /\ \E x \in Exits :
          queue = <<x>> \/ queue = <<x, "event">> \/ queue = <<"event", x>>

\* The timer is set by the request for /shutdown, which is the last; a
\* connection is closed for every test that has passed, which that of a body
\* that is not JSON never does.
SuiteInv ==
  /\ suite \in Tests \cup {"sleep", "passed", "failed"}
  /\ timer # "none" =>
       \/ suite = "/shutdown" /\ request = "answered"
       \/ suite \in {"passed", "failed"}
  /\ suite \in {"sleep", "/status"} => hangups = 0
  /\ suite = "/completions" => hangups <= 1
  /\ suite \in {"garbage", "/shutdown"} => hangups <= 2
  /\ suite = "garbage" => garbage /\ request # "answered"

\* A thread that is in a call of log() has something to write.
LoudInv == \A t \in Threads : args[t] > 0 => level >= LogLevelInfo

IndInv == TypeOK /\ LogInv /\ LoudInv /\ StartInv /\ QueueInv /\ SuiteInv

-----------------------------------------------------------------------------
(* Logging *)

\* The types of what the loggers share.
LogTypeOK ==
  /\ level \in {LogLevelError, LogLevelInfo, LogLevelExtreme}
  /\ ioMutex \in Threads \cup {Free}
  /\ args \in [Threads -> 0..(Lines + 2)]
  /\ at \in [Threads -> {"lock", "prefix", "arg", "endl", "unlock"}]
  /\ pipe \in 0..Capacity

\* Appending to a sequence of one item.
LEMMA AppendPair ==
  ASSUME NEW a, NEW b
  PROVE  Append(<<a>>, b) = <<a, b>>
<1> DEFINE S == {a, b}
           p == <<a, b>>
           q == Append(<<a>>, b)
<1>1. p \in Seq(S) /\ Len(p) = 2 /\ p[1] = a /\ p[2] = b
  OBVIOUS
<1>2. q \in Seq(S) /\ Len(q) = 2 /\ q[1] = a /\ q[2] = b
  OBVIOUS
<1>3. q = p
  <2> HIDE DEF S, p, q
  <2>1. \A i \in 1..Len(q) : q[i] = p[i]
    BY <1>1, <1>2
  <2> QED
    BY <1>1, <1>2, <2>1, SeqEqual
<1> QED
  BY <1>3

\* A call of log() changes nothing but the arguments of its thread.
LEMMA LogEffect ==
  ASSUME LogTypeOK, LogInv, NEW t \in Threads, NEW l,
         NEW n \in 0..(Lines + 2), Log(t, l, n)
  PROVE  /\ LogTypeOK' /\ LogInv'
         /\ UNCHANGED pipe
<1>1. args' \in [Threads -> 0..(Lines + 2)]
  BY ProcessAssumption DEF Log, LogTypeOK
<1>2. \A u \in Threads : u # t => args'[u] = args[u]
  BY DEF Log, LogTypeOK
<1>3. at[t] = "lock"
  BY DEF Log, Quiet, LogInv
<1>4. UNCHANGED <<level, ioMutex, at, buffer, pipe>>
  BY DEF Log
<1>5. LogInv'
  BY <1>1, <1>2, <1>3, <1>4 DEF Log, Quiet, LogInv, Inside, Inserted, LogTypeOK
<1> QED
  BY <1>1, <1>4, <1>5 DEF LogTypeOK

\* A step of logArgs keeps the mutex and the buffer together.
LEMMA LogArgsEffect ==
  ASSUME LogTypeOK, LogInv, NEW t \in Threads, logArgs(t)
  PROVE  LogTypeOK' /\ LogInv' /\ args[t] > 0
<1> USE LoggingAssumption, ProcessAssumption
<1>1. CASE writeLock(t)
  <2>1. LogTypeOK'
    BY <1>1 DEF writeLock, Goto, Lock, LogTypeOK
  <2>2. LogInv'
    BY <1>1 DEF writeLock, Goto, Lock, LogTypeOK, LogInv, Inside, Inserted
  <2> QED
    BY <1>1, <2>1, <2>2 DEF writeLock, Goto
<1>2. CASE Insert(t)
  <2>1. LogTypeOK'
    BY <1>2 DEF Insert, Goto, LogTypeOK
  <2>2. ioMutex = t /\ ioMutex' = t /\ buffer = Inserted(t)
    BY <1>2 DEF Insert, Goto, LogInv, Inside, LogTypeOK
  <2>3. buffer' = Inserted(t)'
    <3>1. CASE at[t] = "prefix"
      <4>1. at'[t] = "arg" /\ buffer = <<>> /\ buffer' = Append(<<>>, <<t, "prefix">>)
        BY <1>2, <2>2, <3>1 DEF Insert, Goto, LogTypeOK, Inserted
      <4> QED
        BY <4>1 DEF Inserted
    <3>2. CASE at[t] = "arg"
      <4>1. /\ at'[t] = "endl" /\ buffer = <<<<t, "prefix">>>>
            /\ buffer' = Append(buffer, <<t, "arg">>)
        BY <1>2, <2>2, <3>2 DEF Insert, Goto, LogTypeOK, Inserted
      <4>2. buffer' = <<<<t, "prefix">>, <<t, "arg">>>>
        BY <4>1, AppendPair
      <4> QED
        BY <4>1, <4>2 DEF Inserted
    <3> QED
      BY <1>2, <3>1, <3>2 DEF Insert, Goto
  <2>4. \A u \in Threads : Inside(u)' <=> Inside(u)
    BY <1>2 DEF Insert, Goto, LogTypeOK, Inside
  <2>5. \A u \in Threads : args'[u] = 0 => at'[u] = "lock"
    BY <1>2 DEF Insert, Goto, LogTypeOK, LogInv
  <2> QED
    BY <1>2, <2>1, <2>2, <2>3, <2>4, <2>5 DEF LogInv, Insert, Goto
<1>3. CASE Flush(t)
  <2>1. LogTypeOK'
    BY <1>3 DEF Flush, Goto, LogTypeOK
  <2>2. LogInv'
    BY <1>3 DEF Flush, Goto, LogTypeOK, LogInv, Inside, Inserted
  <2> QED
    BY <1>3, <2>1, <2>2 DEF Flush, Goto
<1>4. CASE writeUnLock(t)
  <2>1. LogTypeOK'
    BY <1>4 DEF writeUnLock, Goto, Unlock, LogTypeOK
  <2>2. LogInv'
    BY <1>4 DEF writeUnLock, Goto, Unlock, LogTypeOK, LogInv, Inside, Inserted
  <2> QED
    BY <1>4, <2>1, <2>2 DEF writeUnLock, Goto
<1> QED
  BY <1>1, <1>2, <1>3, <1>4 DEF logArgs

\* The insertions of one thread up to where it is are the beginning of one
\* line.
LEMMA LogInvLines == LogTypeOK /\ LogInv => LinesWhole
<1> SUFFICES ASSUME LogTypeOK, LogInv PROVE LinesWhole
  OBVIOUS
<1>1. CASE buffer = <<>>
  BY <1>1 DEF LinesWhole
<1>2. ASSUME NEW t \in Threads, buffer = <<<<t, "prefix">>>> PROVE LinesWhole
  BY <1>2 DEF LinesWhole
<1>3. ASSUME NEW t \in Threads, buffer = <<<<t, "prefix">>, <<t, "arg">>>>
      PROVE  LinesWhole
  BY <1>3 DEF LinesWhole
<1> QED
  BY <1>1, <1>2, <1>3 DEF LogInv, LogTypeOK, Inserted

-----------------------------------------------------------------------------
(* Steps of the process *)

\* The steps of threads that are in no call of log() and start none.
Silent ==
  \/ Listen \/ RunMainLoop \/ Poll \/ Exit \/ StdinEvent \/ TimerExpires
  \/ Respond \/ BodyThrows \/ Suite \/ Signal \/ StopReading
  \/ \E t \in IoThreads : StartThread(t) \/ HandleRequest(t)
  \/ \E t \in Threads : SigPipe(t)

\* The steps that call log().
Calls ==
  \/ ShuttingDown \/ StartBlock
  \/ \E t \in IoThreads : OnRead(t) \/ OnReadError(t)

\* Every step is one of these.
LEMMA Steps ==
  ASSUME Next
  PROVE  \/ Silent \/ Calls \/ Announce \/ Reader
         \/ \E t \in Threads : LogArgs(t)
  BY DEF Next, Start, MainQueue, Service, Silent, Calls

\* A silent step leaves the loggers alone.
LEMMA SilentFrame == ASSUME Silent PROVE UNCHANGED logVars
  BY DEF Silent, Suite, Listen, RunMainLoop, Poll, Exit, StdinEvent,
         TimerExpires, Respond, BodyThrows, SigPipe, Signal, StopReading,
         StartThread,
         HandleRequest, Wake, Connect, Passed, Broken, Fail

\* Any other step of a handler or a block is a call of log() by its thread.
LEMMA CallsLog ==
  ASSUME Calls
  PROVE  \E t \in Threads : \E n \in 0..(Lines + 2) : Log(t, LogLevelInfo, n)
<1> USE ProcessAssumption
<1>1. CASE ShuttingDown
  BY <1>1 DEF ShuttingDown
<1>2. CASE StartBlock
  BY <1>2 DEF StartBlock
<1>3. ASSUME NEW t \in IoThreads, OnRead(t) \/ OnReadError(t)
      PROVE  \E n \in 0..(Lines + 2) : Log(t, LogLevelInfo, n)
  BY <1>3 DEF OnRead, OnReadError
<1> QED
  BY <1>1, <1>2, <1>3 DEF Calls, IoThreads

\* Nobody has anything to write at a level below that of the call.
LEMMA NextLoud ==
  ASSUME LogTypeOK, LogInv, LoudInv, Next
  PROVE  LoudInv'
<1>1. CASE Silent
  BY <1>1, SilentFrame DEF logVars, LoudInv
<1>2. CASE Calls
  <2>1. PICK t \in Threads, n \in 0..(Lines + 2) : Log(t, LogLevelInfo, n)
    BY <1>2, CallsLog
  <2> QED
    BY <2>1 DEF Log, LoudInv, LogTypeOK, LogLevelError, LogLevelInfo,
       LogLevelExtreme
<1>3. CASE Announce \/ Reader
  BY <1>3 DEF Announce, Reader, ReadLine, LoudInv
<1>4. ASSUME NEW t \in Threads, LogArgs(t) PROVE LoudInv'
  <2>1. level' = level /\ \A u \in Threads : args'[u] > 0 => args[u] > 0
    BY <1>4, ProcessAssumption
    DEF LogArgs, logArgs, writeLock, Insert, Flush, writeUnLock, Goto, LogTypeOK
  <2> QED
    BY <2>1 DEF LoudInv
<1> QED
  BY <1>1, <1>2, <1>3, <1>4, Steps

\* Every step keeps the loggers' invariant, and the pipe within its bounds:
\* main() writes to it without asking, but when it is empty.
LEMMA NextLog ==
  ASSUME LogTypeOK, LogInv, StartInv, Next
  PROVE  LogTypeOK' /\ LogInv'
<1>1. CASE Silent
  BY <1>1, SilentFrame DEF logVars, LogTypeOK, LogInv, Inside, Inserted
<1>2. CASE Calls
  BY <1>2, CallsLog, LogEffect
<1>3. CASE Announce
  <2>1. pipe' \in 0..Capacity
    BY <1>3, LoggingAssumption DEF Announce, StartInv
  <2> QED
    BY <1>3, <2>1 DEF Announce, LogTypeOK, LogInv, Inside, Inserted
<1>4. CASE Reader
  <2>1. pipe' \in 0..Capacity
    BY <1>4, LoggingAssumption DEF Reader, ReadLine, LogTypeOK
  <2> QED
    BY <1>4, <2>1 DEF Reader, ReadLine, LogTypeOK, LogInv, Inside, Inserted
<1>5. ASSUME NEW t \in Threads, LogArgs(t) PROVE LogTypeOK' /\ LogInv'
  BY <1>5, LogArgsEffect DEF LogArgs
<1> QED
  BY <1>1, <1>2, <1>3, <1>4, <1>5, Steps

\* Every step keeps StartInv: threads and requests come after Listen.
LEMMA NextStart ==
  ASSUME LogTypeOK, LogInv, StartInv, QueueInv, Next
  PROVE  StartInv'
<1> USE DEF mainVars
<1>1. CASE Announce
  BY <1>1 DEF Announce, suiteVars, StartInv
<1>2. CASE Reader \/ \E t \in Threads : LogArgs(t)
  <2>1. phase # "start"
    BY <1>2, LogArgsEffect DEF Reader, ReadLine, LogArgs, StartInv, LogTypeOK
  <2> QED
    BY <1>2, <2>1 DEF Reader, LogArgs, suiteVars, StartInv
<1>3. CASE Calls
  BY <1>3 DEF Calls, ShuttingDown, Serves, StartBlock, OnRead, OnReadError,
              Idle, suiteVars, StartInv
<1>4. CASE Silent
  <2>1. (phase' = phase \/ phase' \in {"listening", "loop"}) /\ UNCHANGED <<pipe, args>>
    BY <1>4, SilentFrame
    DEF logVars, Silent, Suite, Listen, RunMainLoop, Poll, Exit, StdinEvent,
        TimerExpires, Respond, BodyThrows, SigPipe, Signal, StopReading,
         StartThread,
        HandleRequest, Wake, Connect, Passed, Broken, Fail
  <2>2. running' # {} \/ request' # "none" => phase' \in {"listening", "loop"}
    BY <1>4
    DEF StartInv, suiteVars, Silent, Suite, Listen, RunMainLoop, Poll, Exit,
        StdinEvent, TimerExpires, Respond, BodyThrows, SigPipe, Signal, StopReading,
         StartThread,
        HandleRequest, Wake, Connect, Passed, Broken, Fail
  <2> QED
    BY <2>1, <2>2 DEF StartInv
<1> QED
  BY <1>1, <1>2, <1>3, <1>4, Steps

\* Every step keeps QueueInv: the source fires when no event is queued, and
\* the timer of /shutdown, which is set once, expires once.
LEMMA NextQueue ==
  ASSUME QueueInv, SuiteInv, Next
  PROVE  QueueInv'
<1>1. CASE UNCHANGED <<queue, timer>>
  BY <1>1 DEF QueueInv
<1>2. CASE StdinEvent
  <2>1. queue' = Append(queue, "event") /\ timer' = timer
    BY <1>2 DEF StdinEvent
  <2>2. \A x \in Exits : queue # <<"event">> /\ queue # <<x, "event">> /\ queue # <<"event", x>>
    BY <1>2 DEF StdinEvent, Fires
  <2>3. CASE queue = <<>>
    BY <2>1, <2>3 DEF QueueInv
  <2>4. ASSUME NEW x \in Exits, queue = <<x>>, timer = "fired" PROVE QueueInv'
    BY <2>1, <2>4, AppendPair DEF QueueInv
  <2>5. CASE queue # <<>>
    <3>1. PICK x \in Exits :
            /\ timer = "fired"
            /\ queue = <<x>> \/ queue = <<x, "event">> \/ queue = <<"event", x>>
      BY <2>2, <2>5 DEF QueueInv, Exits
    <3> QED
      BY <2>2, <2>4, <3>1
  <2> QED
    BY <2>3, <2>5
<1>3. CASE Poll
  <2>1. queue' = Tail(queue) /\ timer' = timer /\ queue # <<>> /\ Head(queue) = "event"
    BY <1>3 DEF Poll, Serves
  <2>2. CASE queue = <<"event">>
    BY <2>1, <2>2 DEF QueueInv
  <2>3. ASSUME NEW x \in Exits, queue = <<"event", x>>, timer = "fired" PROVE QueueInv'
    BY <2>1, <2>3 DEF QueueInv
  <2>4. \A x \in Exits : queue # <<x>> /\ queue # <<x, "event">>
    BY <2>1 DEF Exits
  <2> QED
    BY <2>1, <2>2, <2>3, <2>4 DEF QueueInv
<1>4. CASE TimerExpires
  <2>1. timer = "set" /\ timer' = "fired" /\ queue' = Append(queue, "exit")
    BY <1>4 DEF TimerExpires
  <2>2. CASE queue = <<>>
    BY <2>1, <2>2 DEF QueueInv, Exits
  <2>3. CASE queue = <<"event">>
    <3>1. queue' = <<"event", "exit">>
      BY <2>1, <2>3, AppendPair
    <3> QED
      BY <2>1, <3>1 DEF QueueInv, Exits
  <2> QED
    BY <2>1, <2>2, <2>3 DEF QueueInv
<1>5. CASE ShuttingDown
  <2>1. queue' = <<"exiting">> /\ timer' = timer /\ queue # <<>> /\ Head(queue) = "exit"
    BY <1>5 DEF ShuttingDown, Serves
  <2>2. timer = "fired"
    BY <2>1 DEF QueueInv
  <2> QED
    BY <2>1, <2>2 DEF QueueInv, Exits
<1>6. CASE Respond
  <2>1. queue' = queue /\ (timer' = timer \/ (suite = "/shutdown" /\ request = "running"))
    BY <1>6 DEF Respond
  <2>2. timer' = timer \/ timer = "none"
    BY <2>1 DEF SuiteInv
  <2> QED
    BY <2>1, <2>2 DEF QueueInv
<1>7. \/ UNCHANGED <<queue, timer>>
      \/ StdinEvent \/ Poll \/ TimerExpires \/ ShuttingDown \/ Respond
  <2>1. CASE Silent
    BY <2>1 DEF Silent, Suite, Listen, RunMainLoop, Exit, BodyThrows,
                SigPipe, Signal, StopReading, StartThread, HandleRequest, Wake, Connect, Passed, Broken, Fail,
                loopVars
  <2>2. CASE Calls
    BY <2>2 DEF Calls, StartBlock, OnRead, OnReadError, loopVars
  <2>3. CASE Announce \/ Reader \/ \E t \in Threads : LogArgs(t)
    BY <2>3 DEF Announce, Reader, LogArgs, loopVars
  <2> QED
    BY <2>1, <2>2, <2>3, Steps
<1> QED
  BY <1>1, <1>2, <1>3, <1>4, <1>5, <1>6, <1>7

\* Every step keeps SuiteInv, and hangups within the number of the tests.
LEMMA NextSuite ==
  ASSUME SuiteInv, hangups \in 0..3, Next
  PROVE  SuiteInv' /\ hangups' \in 0..3
<1> USE DEF Tests
<1>1. CASE Wake
  BY <1>1 DEF Wake, loopVars, SuiteInv
<1>2. CASE Connect
  BY <1>2 DEF Connect, Fail, NextTest, loopVars, SuiteInv
<1>3. CASE Passed
  <2>1. timer' = timer /\ hangups' = hangups + 1 /\ garbage' = garbage
    BY <1>3 DEF Passed, loopVars
  <2>2. CASE suite = "/status"
    BY <1>3, <2>1, <2>2 DEF Passed, NextTest, SuiteInv
  <2>3. CASE suite = "/completions"
    BY <1>3, <2>1, <2>3 DEF Passed, NextTest, SuiteInv
  <2>4. CASE suite = "garbage"
    BY <1>3, <2>1, <2>4 DEF Passed, NextTest, SuiteInv
  <2>5. CASE suite = "/shutdown"
    BY <1>3, <2>1, <2>5 DEF Passed, NextTest, SuiteInv
  <2> QED
    BY <1>3, <2>2, <2>3, <2>4, <2>5 DEF Passed
<1>4. CASE Broken
  BY <1>4 DEF Broken, Fail, NextTest, loopVars, SuiteInv
<1>5. CASE TimerExpires \/ Respond
  BY <1>5 DEF TimerExpires, Respond, suiteVars, SuiteInv
<1>6. CASE Calls
  BY <1>6 DEF Calls, ShuttingDown, StartBlock, OnRead, OnReadError, loopVars,
              suiteVars, SuiteInv
<1>7. ASSUME NEW t \in IoThreads, HandleRequest(t)
      PROVE  SuiteInv' /\ hangups' \in 0..3
  BY <1>7 DEF HandleRequest, loopVars, SuiteInv
<1>8. CASE UNCHANGED <<suite, request, hangups, timer, garbage>>
  BY <1>8 DEF SuiteInv
<1>9. \/ Suite \/ TimerExpires \/ Respond \/ Calls
      \/ \E t \in IoThreads : HandleRequest(t)
      \/ UNCHANGED <<suite, request, hangups, timer, garbage>>
  <2>1. CASE Silent
    BY <2>1 DEF Silent, Listen, RunMainLoop, Poll, Exit, StdinEvent,
                BodyThrows, SigPipe, Signal, StopReading, StartThread, loopVars, suiteVars
  <2>2. CASE Announce \/ Reader \/ \E t \in Threads : LogArgs(t)
    BY <2>2 DEF Announce, Reader, LogArgs, loopVars, suiteVars
  <2> QED
    BY <2>1, <2>2, Steps
<1> QED
  BY <1>1, <1>2, <1>3, <1>4, <1>5, <1>6, <1>7, <1>8, <1>9 DEF Suite

\* Every step keeps the types of what the loggers do not touch.
LEMMA NextType ==
  ASSUME TypeOK, Next
  PROVE  /\ phase' \in {"start", "announced", "listening", "loop"}
         /\ running' \in SUBSET IoThreads
         /\ process' \in {"up", "exited", "aborted", "killed", "broken"}
         /\ signals' \in 0..MaxSignals
         /\ armed' \in BOOLEAN
         /\ timer' \in {"none", "set", "fired"}
         /\ request' \in {"none", "backlog", "read", "block", "running", "answered"}
<1> USE DEF mainVars, loopVars, suiteVars
<1>1. CASE Silent
  <2>1. /\ phase' \in {"start", "announced", "listening", "loop"}
        /\ running' \in SUBSET IoThreads
        /\ process' \in {"up", "exited", "aborted", "killed", "broken"}
    BY <1>1 DEF TypeOK, Silent, Suite, Listen, RunMainLoop, Poll, Exit,
       StdinEvent, TimerExpires, Respond, BodyThrows, SigPipe, Signal, StopReading,
         StartThread,
       HandleRequest, Wake, Connect, Passed, Broken, Fail
  <2>2. /\ timer' \in {"none", "set", "fired"}
        /\ request' \in {"none", "backlog", "read", "block", "running", "answered"}
    BY <1>1 DEF TypeOK, Silent, Suite, Listen, RunMainLoop, Poll, Exit,
       StdinEvent, TimerExpires, Respond, BodyThrows, SigPipe, Signal, StopReading,
         StartThread,
       HandleRequest, Wake, Connect, Passed, Broken, Fail
  <2>3. armed' \in BOOLEAN
    BY <1>1 DEF TypeOK, Silent, Suite, Listen, RunMainLoop, Poll, Exit,
       StdinEvent, TimerExpires, Respond, BodyThrows, SigPipe, Signal, StopReading,
         StartThread,
       HandleRequest, Wake, Connect, Passed, Broken, Fail
  <2>4. signals' = signals \/ (signals < MaxSignals /\ signals' = signals + 1)
    BY <1>1 DEF TypeOK, Silent, Suite, Listen, RunMainLoop, Poll, Exit,
       StdinEvent, TimerExpires, Respond, BodyThrows, SigPipe, Signal, StopReading,
         StartThread,
       HandleRequest, Wake, Connect, Passed, Broken, Fail
  <2>5. signals' \in 0..MaxSignals
    BY <2>4, ProcessAssumption DEF TypeOK
  <2> QED
    BY <2>1, <2>2, <2>3, <2>5
<1>2. CASE Calls
  BY <1>2 DEF TypeOK, Calls, ShuttingDown, StartBlock, OnRead, OnReadError
<1>3. CASE Announce \/ Reader \/ \E t \in Threads : LogArgs(t)
  BY <1>3 DEF TypeOK, Announce, Reader, LogArgs
<1> QED
  BY <1>1, <1>2, <1>3, Steps

-----------------------------------------------------------------------------
(* The invariant *)

\* The process starts with it.
LEMMA InitInv == Init => IndInv
<1> SUFFICES ASSUME Init PROVE IndInv
  OBVIOUS
<1> USE LoggingAssumption, ProcessAssumption
<1>1. level \in {LogLevelError, LogLevelInfo, LogLevelExtreme}
  BY DEF Init, LogLevelWithProgramOptionLog
<1>2. TypeOK
  <2>1. 0 \in 0..(Lines + 2) /\ 0 \in 0..Capacity /\ 0 \in 0..MaxSignals
    OBVIOUS
  <2>2. Len(queue) <= 2
    <3>1. queue = <<>>
      BY DEF Init
    <3> QED
      BY <3>1
  <2>3. /\ ioMutex \in Threads \cup {Free}
        /\ args \in [Threads -> 0..(Lines + 2)]
        /\ at \in [Threads -> {"lock", "prefix", "arg", "endl", "unlock"}]
        /\ pipe \in 0..Capacity
    BY <2>1 DEF Init, LogInit
  <2>4. hangups \in 0..3 /\ signals \in 0..MaxSignals
    BY <2>1 DEF Init
  <2>5. armed \in BOOLEAN
    BY Zenon DEF Init
  <2> QED
    BY <1>1, <2>2, <2>3, <2>4, <2>5 DEF TypeOK, Init
<1>3. LogInv
  BY DEF LogInv, Inside, Init, LogInit
<1>4. StartInv /\ QueueInv /\ SuiteInv /\ LoudInv
  BY DEF StartInv, QueueInv, SuiteInv, LoudInv, Init, LogInit
<1> QED
  BY <1>2, <1>3, <1>4 DEF IndInv

\* Every step keeps it.
LEMMA NextInv == IndInv /\ [Next]_vars => IndInv'
<1> SUFFICES ASSUME IndInv, [Next]_vars PROVE IndInv'
  OBVIOUS
<1>1. CASE Next
  <2>1. LogTypeOK /\ hangups \in 0..3
    BY DEF IndInv, TypeOK, LogTypeOK
  <2>2. LogTypeOK' /\ LogInv' /\ LoudInv' /\ StartInv'
    BY <1>1, <2>1, NextLog, NextLoud, NextStart DEF IndInv
  <2>3. QueueInv' /\ SuiteInv' /\ hangups' \in 0..3
    BY <1>1, <2>1, NextQueue, NextSuite DEF IndInv
  <2>4. Len(queue') <= 2
    <3>1. CASE queue' = <<>>
      BY <3>1
    <3>2. CASE queue' = <<"event">>
      BY <3>2
    <3>3. ASSUME NEW x \in Exits,
                 queue' = <<x>> \/ queue' = <<x, "event">> \/ queue' = <<"event", x>>
          PROVE  Len(queue') <= 2
      <4>1. CASE queue' = <<x>>
        BY <4>1
      <4>2. CASE queue' = <<x, "event">>
        BY <4>2
      <4>3. CASE queue' = <<"event", x>>
        BY <4>3
      <4> QED
        BY <3>3, <4>1, <4>2, <4>3
    <3> QED
      BY <2>3, <3>1, <3>2, <3>3 DEF QueueInv
  <2>5. TypeOK'
    BY <1>1, <2>2, <2>3, <2>4, NextType DEF IndInv, LogTypeOK, TypeOK
  <2> QED
    BY <2>2, <2>3, <2>5 DEF IndInv
<1>2. CASE UNCHANGED vars
  BY <1>2 DEF vars, logVars, mainVars, loopVars, suiteVars, IndInv, TypeOK,
              LogInv, Inside, Inserted, LoudInv, StartInv, QueueInv, SuiteInv
<1> QED
  BY <1>1, <1>2

\* The inductive invariant holds in every state.
THEOREM Invariant == Spec => []IndInv
  BY InitInv, NextInv, PTL DEF Spec

\* The pipe to the editor never holds more than it can, although main()
\* writes its first line without asking, and the main queue never more than
\* one event and one exit.
THEOREM TypeCorrect == Spec => []TypeOK
<1>1. IndInv => TypeOK
  BY DEF IndInv
<1> QED
  BY <1>1, Invariant, PTL

\* However many threads log at once, what is in the buffer of std::cout is
\* the beginning of one line of one of them.
THEOREM WholeLines == Spec => []LinesWhole
<1>1. IndInv => LinesWhole
  BY LogInvLines DEF IndInv, TypeOK, LogTypeOK
<1> QED
  BY <1>1, Invariant, PTL

\* What the process ended for, once the main loop runs; the request it was
\* aborted for gets no response.
EndInv ==
  phase = "loop" /\ ~Up =>
    \/ process = "exited" /\ timer = "fired"
    \/ process = "aborted" /\ GarbagePosted /\ request # "answered"
    \/ process = "broken" /\ reader = "closed" /\ level >= LogLevelInfo

\* A step that ends the process has one of these reasons.
LEMMA EndingStep ==
  ASSUME IndInv, phase = "loop", Up,
         \/ Exit \/ BodyThrows \/ Signal \/ \E t \in Threads : SigPipe(t)
  PROVE  EndInv'
<1> USE DEF EndInv, Up, GarbagePosted, loopVars, suiteVars, logVars
<1>1. CASE Exit
  <2>1. timer = "fired"
    <3>1. queue # <<>> /\ Head(queue) = "exiting"
      BY <1>1 DEF Exit, Serves
    <3> QED
      BY <3>1 DEF IndInv, QueueInv
  <2> QED
    BY <1>1, <2>1 DEF Exit
<1>2. CASE BodyThrows
  <2>1. garbage
    BY <1>2 DEF BodyThrows, IndInv, SuiteInv
  <2> QED
    BY <1>2, <2>1 DEF BodyThrows
<1>3. CASE Signal
  BY <1>3 DEF Signal, Caught
<1>4. ASSUME NEW t \in Threads, SigPipe(t) PROVE EndInv'
  <2>1. args[t] > 0 /\ reader = "closed"
    BY <1>4 DEF SigPipe, WritesToClosed
  <2> QED
    BY <1>4, <2>1 DEF SigPipe, IndInv, LoudInv
<1> QED
  BY <1>1, <1>2, <1>3, <1>4

\* The others leave a process that is up as it is ...
LEMMA OtherStep ==
  ASSUME IndInv, Up, phase' = "loop", Next,
         ~(Exit \/ BodyThrows \/ Signal \/ \E t \in Threads : SigPipe(t))
  PROVE  Up'
<1> USE DEF mainVars, Up
<1>1. CASE Silent
  BY <1>1 DEF Silent, Suite, Listen, RunMainLoop, Poll, StdinEvent,
     TimerExpires, Respond, StopReading, StartThread, HandleRequest, Wake,
     Connect, Passed, Broken
<1>2. CASE Calls
  BY <1>2 DEF Calls, ShuttingDown, StartBlock, OnRead, OnReadError
<1>3. CASE Announce \/ Reader \/ \E t \in Threads : LogArgs(t)
  BY <1>3 DEF Announce, Reader, LogArgs
<1> QED
  BY <1>1, <1>2, <1>3, Steps

\* ... and once it has ended only the suite and the reader go on.
LEMMA AfterEnd ==
  ASSUME IndInv, EndInv, ~Up, Next
  PROVE  EndInv'
<1>1. Suite \/ Reader \/ StopReading
  BY DEF Next, Start, Announce, Listen, RunMainLoop, StartThread, MainQueue,
     Poll, ShuttingDown, Exit, Serves, StdinEvent, TimerExpires, Service,
     StartBlock, Respond, BodyThrows, OnRead, HandleRequest, OnReadError,
     Idle, LogArgs, SigPipe, Signal
<1> USE DEF EndInv, Up, GarbagePosted, mainVars, loopVars, logVars
<1>2. CASE Reader \/ StopReading
  BY <1>2 DEF Reader, ReadLine, StopReading, suiteVars
<1>3. CASE Wake
  BY <1>3 DEF Wake
<1>4. CASE Connect
  BY <1>4 DEF Connect, Fail, NextTest
<1>5. CASE Passed
  BY <1>5 DEF Passed
<1>6. CASE Broken
  BY <1>6 DEF Broken, Fail, NextTest
<1> QED
  BY <1>1, <1>2, <1>3, <1>4, <1>5, <1>6 DEF Suite

\* Once the main loop runs the process ends by exit(0) after /shutdown, by an
\* exception that a bad body causes, or by logging to an output that has been
\* closed: SIGINT, SIGTERM and standard input do not end it.
THEOREM EndsOnlyForAReason == Spec => []EndsForAReason
<1>1. Init => EndInv
  BY DEF Init, EndInv
<1>2. IndInv /\ EndInv /\ [Next]_vars => EndInv'
  <2> SUFFICES ASSUME IndInv, EndInv, [Next]_vars PROVE EndInv'
    OBVIOUS
  <2>1. CASE ~Up /\ Next
    BY <2>1, AfterEnd
  <2>2. CASE Up /\ Next /\ phase = "loop"
    BY <2>2, EndingStep, OtherStep DEF EndInv
  <2>3. CASE Up /\ Next /\ phase # "loop"
    <3>1. CASE Exit \/ BodyThrows \/ Signal \/ \E t \in Threads : SigPipe(t)
      BY <2>3, <3>1 DEF Exit, Serves, BodyThrows, Signal, SigPipe, EndInv
    <3> QED
      BY <2>3, <3>1, OtherStep DEF EndInv
  <2>4. CASE UNCHANGED vars
    BY <2>4 DEF vars, logVars, mainVars, loopVars, suiteVars, EndInv, Up,
       GarbagePosted
  <2> QED
    BY <2>1, <2>2, <2>3, <2>4
<1>3. EndInv => EndsForAReason
  BY DEF EndInv, EndsForAReason
<1> QED
  BY <1>1, <1>2, <1>3, Invariant, PTL DEF Spec
=============================================================================

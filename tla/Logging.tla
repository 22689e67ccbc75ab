------------------------------ MODULE Logging ------------------------------
(***************************************************************************)
(* Logger of Logging.hpp and the mutex of Logging.cpp: threads that write  *)
(* lines to standard output, a pipe to the editor that started the server. *)
(*                                                                         *)
(* A line is three insertions into std::cout (the prefix, the argument and *)
(* std::endl), of which endl flushes, and blocks while the pipe is full.   *)
(* A call writes one line per argument and takes the mutex for each.  No   *)
(* code logs at LogLevelError, so the branch to std::cerr is never taken.  *)
(***************************************************************************)
EXTENDS Naturals, Sequences

CONSTANTS Threads,   \* threads that log
          Capacity,  \* lines the pipe holds
          Free       \* the mutex when nobody holds it

ASSUME LoggingAssumption == Capacity \in Nat \ {0} /\ Free \notin Threads

LogLevelError == 1
LogLevelInfo == 2
LogLevelExtreme == 3

VARIABLES
  level,    \* _level of the loggers
  ioMutex,  \* its holder, or Free
  args,     \* per thread, the arguments its call has still to write
  at,       \* per thread, where it is in logArgs
  buffer,   \* of std::cout: the insertions since the last flush
  pipe      \* lines in the pipe that nobody has read

logVars == <<level, ioMutex, args, at, buffer, pipe>>

LogInit ==
  /\ ioMutex = Free
  /\ args = [t \in Threads |-> 0]
  /\ at = [t \in Threads |-> "lock"]
  /\ buffer = <<>>
  /\ pipe = 0

\* Thread t is in no call of log().
Quiet(t) == args[t] = 0

Goto(t, from, to) == args[t] > 0 /\ at[t] = from /\ at' = [at EXCEPT ![t] = to]

\* log(l, ...) with n arguments.
Log(t, l, n) ==
  /\ Quiet(t)
  /\ args' = [args EXCEPT ![t] = IF l <= level THEN n ELSE 0]
  /\ UNCHANGED <<level, ioMutex, at, buffer, pipe>>

\* ioMutex.lock() and ioMutex.unlock().  Mutants: lock() does not wait;
\* unlock() is not called.
Lock_NoWait(t) == ioMutex' = t
Lock(t) == ioMutex = Free /\ ioMutex' = t
Unlock_Never == UNCHANGED ioMutex
Unlock == ioMutex' = Free

writeLock(t) ==
  /\ Goto(t, "lock", "prefix")
  /\ Lock(t)
  /\ UNCHANGED <<level, args, buffer, pipe>>

Insert(t) ==
  /\ Goto(t, "prefix", "arg") \/ Goto(t, "arg", "endl")
  /\ buffer' = Append(buffer, <<t, at[t]>>)
  /\ UNCHANGED <<level, ioMutex, args, pipe>>

Flush(t) ==
  /\ Goto(t, "endl", "unlock")
  /\ pipe < Capacity
  /\ pipe' = pipe + 1
  /\ buffer' = <<>>
  /\ UNCHANGED <<level, ioMutex, args>>

writeUnLock(t) ==
  /\ Goto(t, "unlock", "lock")
  /\ Unlock
  /\ args' = [args EXCEPT ![t] = @ - 1]
  /\ UNCHANGED <<level, buffer, pipe>>

logArgs(t) == writeLock(t) \/ Insert(t) \/ Flush(t) \/ writeUnLock(t)

\* The reader of the pipe (external).
ReadLine ==
  /\ pipe > 0
  /\ pipe' = pipe - 1
  /\ UNCHANGED <<level, ioMutex, args, at, buffer>>

-----------------------------------------------------------------------------
(* Properties *)

\* Lines come out whole: what is in the buffer is the beginning of one line
\* of one thread, whoever else is logging.
LinesWhole ==
  /\ Len(buffer) <= 2
  /\ \A i \in 1..Len(buffer) :
       buffer[i] = <<buffer[1][1], <<"prefix", "arg">>[i]>>
=============================================================================

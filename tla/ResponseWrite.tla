--------------------------- MODULE ResponseWrite ---------------------------
(***************************************************************************)
(* One response on its way out: Session::write starts an asynchronous      *)
(* write of a message on the thread of an endpoint (a worker of the global *)
(* queue, the main queue or an io_service thread) and the io_service       *)
(* threads finish it.                                                      *)
(*                                                                         *)
(* Session::write passes its own parameter to Beast's async_write, which   *)
(* keeps a reference to it.  Beast's write_op is external: a state machine *)
(* whose data the initiating thread and the completing thread share        *)
(* without a lock.                                                         *)
(***************************************************************************)
EXTENDS Naturals, Sequences

CONSTANTS Caller,       \* the thread that calls write()
          IoThreads,    \* the threads in io_service::run()
          Chunks,       \* length of the body; the header is one chunk more
          MaxTransfer,  \* most chunks one write_some takes
          MaxLength,    \* bound: chunks that freed memory may claim to be
          MaxStarts     \* bound: times the message is written from the start

ASSUME WriteAssumption ==
  /\ Caller \notin IoThreads
  /\ Chunks \in Nat /\ MaxTransfer \in Nat \ {0} /\ MaxStarts \in Nat \ {0}
  /\ MaxLength \in Nat

VARIABLES
  pc,        \* where each thread is in write() or write_op
  message,   \* "alive" or "destroyed"
  state,     \* write_op's d.state: 0, 1, 5, or 99 once the data is gone
  active,    \* an asio write is in progress
  length,    \* chunks in the buffers of the last asio write
  wire,      \* per asio write, the chunks sent: a number, 0 for the header
  handler    \* onWrite: "waiting", or called with "ok" or "error"

vars == <<pc, message, state, active, length, wire, handler>>

Threads == IoThreads \cup {Caller}
Total == Chunks + 1
Whole == [i \in 1..Total |-> i - 1]
Junk == Total  \* a chunk that is none of the message's

Init ==
  /\ pc = [t \in Threads |-> "idle"]
  /\ message = "alive"
  /\ state = 0
  /\ active = FALSE
  /\ length = 0
  /\ wire = <<>>
  /\ handler = "waiting"

Goto(t, from, to) == pc[t] = from /\ pc' = [pc EXCEPT ![t] = to]

\* write() calls async_write: write_op is made, copies the header into its
\* own buffer (state 0) and goes on to state 1.
Write ==
  /\ state = 0
  /\ Goto(Caller, "idle", "starting")
  /\ state' = 1
  /\ UNCHANGED <<message, active, length, wire, handler>>

\* The length of the buffers: that of write_op's header and what buffer(body_)
\* finds, in a destroyed message whatever the memory holds.
Lengths == IF message = "alive" THEN {Total} ELSE 1..(MaxLength + 1)

\* n chunks that follow the first m.  The header comes from write_op, the
\* body from the message: after its end the old bytes or others.
Pieces(m, n) ==
  {[i \in 1..n |-> IF m + i = 1 \/ (kept /\ m + i <= Total)
                   THEN m + i - 1 ELSE Junk] :
     kept \in (IF message = "alive" THEN {TRUE} ELSE BOOLEAN)}

\* State 1: boost::asio::async_write of header and body, whose first
\* write_some is tried at once; 0 chunks if the socket would block.
AsyncWrite(t) ==
  /\ Goto(t, "starting", "set_state")
  /\ active' = TRUE
  /\ \E l \in Lengths, n \in 0..MaxTransfer :
       /\ n <= l
       /\ length' = l
       /\ \E piece \in Pieces(0, n) : wire' = Append(wire, piece)
  /\ UNCHANGED <<message, state, handler>>

\* The next state of a message that is not chunked.
\* Mutants: it is left as it was; that of a chunked message.
AfterState1_Same == 1
AfterState1_Chunked == 4
AfterState1 == 5

\* ... and only then d.state = 5.  The data may be gone by now; nothing is
\* modelled of a write to it then.
SetState(t) ==
  /\ Goto(t, "set_state", IF t = Caller THEN "return" ELSE "idle")
  /\ state' = IF state = 1 THEN AfterState1 ELSE state
  /\ UNCHANGED <<message, active, length, wire, handler>>

\* write() returns, and its parameter is destroyed.
Return ==
  /\ Goto(Caller, "return", "done")
  /\ message' = "destroyed"
  /\ UNCHANGED <<state, active, length, wire, handler>>

-----------------------------------------------------------------------------
(* io_service threads *)

Idle(t) == t \in IoThreads /\ pc[t] = "idle" /\ active

\* What the asio write in progress, or the last one, has sent.
Current == wire[Len(wire)]

\* The next write_some of the asio write, from the buffers it began with.
WriteSome(t) ==
  /\ Idle(t)
  /\ \E n \in 1..MaxTransfer :
       /\ Len(Current) + n <= length
       /\ \E piece \in Pieces(Len(Current), n) :
            wire' = [wire EXCEPT ![Len(wire)] = @ \o piece]
  /\ UNCHANGED <<pc, message, state, active, length, handler>>

\* The asio write is over.  Mutant: after its first write_some.
AllSent_Some == TRUE
AllSent == Len(Current) = length

\* The asio write has ended and write_op runs again: in state 5 it calls
\* onWrite, with the error eof if the message says the connection is to be
\* closed; in state 1, not yet overwritten, it writes the message again.
Complete(t) ==
  /\ Idle(t)
  /\ AllSent
  /\ state = 5
  /\ active' = FALSE
  /\ state' = 99
  /\ handler' \in {"ok", "error"}
  /\ UNCHANGED <<pc, message, length, wire>>

CompleteEarly(t) ==
  /\ Idle(t)
  /\ AllSent
  /\ state = 1
  /\ Len(wire) < MaxStarts
  /\ active' = FALSE
  /\ pc' = [pc EXCEPT ![t] = "starting"]
  /\ UNCHANGED <<message, state, length, wire, handler>>

\* The client is gone, or the kernel cannot read what is left: the asio write
\* ends with an error, which write_op passes to onWrite.
WriteError(t) ==
  /\ Idle(t)
  /\ Len(Current) < length
  /\ active' = FALSE
  /\ state' = 99
  /\ handler' = "error"
  /\ UNCHANGED <<pc, message, length, wire>>

Thread(t) ==
  \/ AsyncWrite(t) \/ SetState(t) \/ WriteSome(t)
  \/ Complete(t) \/ CompleteEarly(t)

Next ==
  \/ Write
  \/ Return
  \/ \E t \in Threads : Thread(t) \/ WriteError(t)

Spec == Init /\ [][Next]_vars

\* Threads keep running, and a client that is not gone reads.
FairSpec ==
  /\ Spec
  /\ WF_vars(Write)
  /\ WF_vars(Return)
  /\ \A t \in Threads : WF_vars(Thread(t))

-----------------------------------------------------------------------------
(* Properties *)

\* The state of the write: no asio write sends more than its buffers hold,
\* and write_op is in one of the states of its switch.
TypeOK ==
  /\ pc \in [Threads -> {"idle", "starting", "set_state", "return", "done"}]
  /\ message \in {"alive", "destroyed"}
  /\ state \in {0, 1, 5, 99}
  /\ active \in BOOLEAN
  /\ length \in Nat
  /\ wire \in Seq(Seq(0..Junk))
  /\ Len(wire) <= MaxStarts
  /\ wire # <<>> => Len(Current) <= length
  /\ handler \in {"waiting", "ok", "error"}

\* However often the completing thread finds d.state not yet stored and
\* writes again, and whenever write() returns: every copy but the last is the
\* whole message, and only the last can be read from freed memory.
OnlyLastSpoilt == \A j \in 1..(Len(wire) - 1) : wire[j] = Whole

\* onWrite without an error means that nothing is cut off: the last write
\* sent its buffers, and the first sent as much as the message has.
WholeResponse ==
  handler = "ok" => wire # <<>> /\ AllSent /\ Len(wire[1]) = Total

\* The form of a copy, and the copies that are out.
Form(copy) ==
  CASE copy = Whole -> "intact"
    [] Len(copy) # Total -> "misframed"
    [] OTHER -> "torn"

CopiesOut ==
  IF wire # <<>> /\ (active \/ ~AllSent) THEN Len(wire) - 1 ELSE Len(wire)

ToSession == INSTANCE ResponseCopies WITH
               copies <- [j \in 1..CopiesOut |-> Form(wire[j])],
               done <- handler # "waiting"

\* The threads of write_op, its unlocked state and the message that ends too
\* early do to a session what ResponseCopies says, and nothing else.
ImplementsResponseCopies == ToSession!Spec

\* onWrite is called: the session goes on to its next request.
HandlerCalled == <>(handler # "waiting")

\* "The object must remain valid at least until the completion handler is
\* called": as long as some of the response is to be sent, the message it is
\* read from exists.
MessageOutlivesWrite == active /\ ~AllSent => message = "alive"

\* "The asynchronous operation will continue until [...] the entire message
\* is written": it does not write the message a second time.
EndsWhenWritten == Len(wire) <= 1
=============================================================================

---------------------------- MODULE ServerProofs ----------------------------
(***************************************************************************)
(* Proofs about Server, for any number of sessions and workers.            *)
(*                                                                         *)
(* That there is no way back once every worker waits follows from counting *)
(* the workers: PoolInv says that blocks, receivers and completions never  *)
(* hold more of them than there are, so that waiting blocks that hold all  *)
(* of them leave none to a receiver, and only a receiver ends a wait.      *)
(*                                                                         *)
(* Every step of Server is one of HTTPServer, one of Diagnostics, or one   *)
(* of both, so that what is proved of the two holds of them together.      *)
(*                                                                         *)
(* In a quiet state with a worker that does not wait, some worker is free: *)
(* a receiver or a block that held the last one could go on.  Nothing in   *)
(* the queue then waits for a worker, and LinkInv and SentInv say what     *)
(* else a session can be waiting for.                                      *)
(***************************************************************************)
EXTENDS Server, FiniteSetTheorems, TLAPS

\* The two components with what is proved of them.
HP == INSTANCE HTTPServerProofs WITH MaxRequests <- 1, AcceptMayFail <- FALSE
DP == INSTANCE DiagnosticsProofs WITH
        Requests <- Sessions, response <- edited, MayCrash <- TRUE

\* Who holds a worker.
Blocks == {s \in Sessions : D!InBlock(s)}
Receivers == {e \in D!Edits : D!InReceiver(e)}
Interrupted == IF interrupt = "running" THEN 1 ELSE 0

\* What the steps of the pool need to know of the variables.
PoolType ==
  /\ pc \in [Sessions -> D!RequestPC]
  /\ note \in [D!Edits -> D!NotePC]
  /\ pending \in [Sessions -> SUBSET H!Ops]

\* No more workers are held than there are.
PoolInv == D!Busy + Cardinality(Completing) <= Workers

-----------------------------------------------------------------------------
(* Counting workers *)

\* There are finitely many holders, of each kind.
LEMMA HoldersFinite ==
  /\ IsFiniteSet(Blocks) /\ Cardinality(Blocks) \in Nat
  /\ IsFiniteSet(Receivers) /\ Cardinality(Receivers) \in Nat
  /\ IsFiniteSet(Completing) /\ Cardinality(Completing) \in Nat
  /\ IsFiniteSet(Waiting) /\ Cardinality(Waiting) \in Nat
  /\ Interrupted \in {0, 1}
<1>1. IsFiniteSet({"open", "replace"})
  <2>1. {"open"} \cup {"replace"} = {"open", "replace"}
    OBVIOUS
  <2>2. IsFiniteSet({"open"})
    BY FS_Singleton
  <2> QED
    BY <2>1, <2>2, FS_AddElement
<1>2. IsFiniteSet(D!Edits)
  BY <1>1, FS_Product, ServerAssumption DEF D!Edits
<1>3. IsFiniteSet(Blocks) /\ IsFiniteSet(Receivers)
      /\ IsFiniteSet(Completing) /\ IsFiniteSet(Waiting)
  <2>1. Blocks \in SUBSET Sessions
    BY DEF Blocks
  <2>2. Receivers \in SUBSET D!Edits
    BY DEF Receivers
  <2>3. Completing \in SUBSET Sessions /\ Waiting \in SUBSET Sessions
    BY DEF Completing, Waiting
  <2> QED
    BY <1>2, <2>1, <2>2, <2>3, FS_Subset, ServerAssumption
<1> QED
  BY <1>3, FS_CardinalityType DEF Interrupted

\* The workers held, kind by kind.
LEMMA BusyIs ==
  D!Busy = Cardinality(Blocks) + Cardinality(Receivers) + Interrupted
<1>1. Blocks = {r \in Sessions : D!InBlock(r)}
  BY DEF Blocks
<1>2. Receivers = {e \in D!Edits : D!InReceiver(e)}
  BY DEF Receivers
<1>3. \A S : D!Cardinality(S) = Cardinality(S)
  BY DEF D!Cardinality, Cardinality
<1> QED
  BY <1>1, <1>2, <1>3 DEF D!Busy, Interrupted

\* A set that gains at most one element has at most one more.
LEMMA OneMore ==
  ASSUME NEW S, IsFiniteSet(S), NEW T, NEW x, T \subseteq S \cup {x}
  PROVE  Cardinality(T) <= Cardinality(S) + 1
<1>1. /\ IsFiniteSet(S \cup {x})
      /\ \/ Cardinality(S \cup {x}) = Cardinality(S)
         \/ Cardinality(S \cup {x}) = Cardinality(S) + 1
  BY FS_AddElement
<1>2. IsFiniteSet(T) /\ Cardinality(T) <= Cardinality(S \cup {x})
  BY <1>1, FS_Subset
<1>3. Cardinality(S) \in Nat /\ Cardinality(T) \in Nat
  BY <1>2, FS_CardinalityType
<1> QED
  BY <1>1, <1>2, <1>3

\* The same two facts one step later.
LEMMA NextHolders ==
  /\ Cardinality(Blocks)' \in Nat /\ Cardinality(Receivers)' \in Nat
  /\ Cardinality(Completing)' \in Nat /\ Interrupted' \in {0, 1}
  /\ D!Busy' = Cardinality(Blocks)' + Cardinality(Receivers)' + Interrupted'
<1>1. (/\ Cardinality(Blocks) \in Nat /\ Cardinality(Receivers) \in Nat
       /\ Cardinality(Completing) \in Nat /\ Interrupted \in {0, 1})'
  BY HoldersFinite, PTL
<1>2. (D!Busy = Cardinality(Blocks) + Cardinality(Receivers) + Interrupted)'
  BY BusyIs, PTL
<1> QED
  BY <1>1, <1>2

\* Each kind of holder is the same or fewer.
NoMoreBlocks == Blocks' \subseteq Blocks
NoMoreReceivers == Receivers' \subseteq Receivers
NoMoreCompleting == Completing' \subseteq Completing
NoMoreInterrupted == Interrupted' <= Interrupted

\* A step that takes no worker keeps PoolInv.
LEMMA TakesNone ==
  ASSUME PoolInv, NoMoreBlocks, NoMoreReceivers, NoMoreCompleting,
         NoMoreInterrupted
  PROVE  PoolInv'
<1>1. /\ Cardinality(Blocks') <= Cardinality(Blocks)
      /\ Cardinality(Receivers') <= Cardinality(Receivers)
      /\ Cardinality(Completing') <= Cardinality(Completing)
  BY HoldersFinite, FS_Subset
  DEF NoMoreBlocks, NoMoreReceivers, NoMoreCompleting
<1> QED
  BY <1>1, HoldersFinite, BusyIs, NextHolders, ServerAssumption
  DEF PoolInv, NoMoreInterrupted

\* A step that waits for a free worker and takes that one keeps PoolInv.
LEMMA TakesOne ==
  ASSUME WorkerFree, NEW x,
         \/ /\ Blocks' \subseteq Blocks \cup {x}
            /\ NoMoreReceivers /\ NoMoreCompleting /\ NoMoreInterrupted
         \/ /\ Receivers' \subseteq Receivers \cup {x}
            /\ NoMoreBlocks /\ NoMoreCompleting /\ NoMoreInterrupted
         \/ /\ Completing' \subseteq Completing \cup {x}
            /\ NoMoreBlocks /\ NoMoreReceivers /\ NoMoreInterrupted
         \/ NoMoreBlocks /\ NoMoreReceivers /\ NoMoreCompleting
  PROVE  PoolInv'
<1>1. NoMoreBlocks => Cardinality(Blocks') <= Cardinality(Blocks)
  BY HoldersFinite, FS_Subset DEF NoMoreBlocks
<1>2. NoMoreReceivers => Cardinality(Receivers') <= Cardinality(Receivers)
  BY HoldersFinite, FS_Subset DEF NoMoreReceivers
<1>3. NoMoreCompleting => Cardinality(Completing') <= Cardinality(Completing)
  BY HoldersFinite, FS_Subset DEF NoMoreCompleting
<1>4. Blocks' \subseteq Blocks \cup {x}
        => Cardinality(Blocks') <= Cardinality(Blocks) + 1
  BY HoldersFinite, OneMore
<1>5. Receivers' \subseteq Receivers \cup {x}
        => Cardinality(Receivers') <= Cardinality(Receivers) + 1
  BY HoldersFinite, OneMore
<1>6. Completing' \subseteq Completing \cup {x}
        => Cardinality(Completing') <= Cardinality(Completing) + 1
  BY HoldersFinite, OneMore
<1>7. Cardinality(Blocks) + Cardinality(Receivers) + Interrupted
        + Cardinality(Completing) < Workers
  BY BusyIs DEF WorkerFree
<1> QED
  BY <1>1, <1>2, <1>3, <1>4, <1>5, <1>6, <1>7, HoldersFinite, NextHolders,
     ServerAssumption
  DEF PoolInv, NoMoreInterrupted

-----------------------------------------------------------------------------
(* What the steps do to the pool *)

\* The steps of HTTPServer alone leave the diagnostics side as it is ...
LEMMA SemaUnchanged ==
  ASSUME PoolType, UNCHANGED semaVars
  PROVE  /\ NoMoreBlocks /\ NoMoreReceivers /\ NoMoreInterrupted
         /\ pc' = pc /\ note' = note
  BY HoldersFinite DEF semaVars, NoMoreBlocks, NoMoreReceivers, NoMoreInterrupted,
     Blocks, Receivers, Interrupted, D!InBlock, D!InReceiver

\* ... and the steps of Diagnostics alone the sessions.
LEMMA HttpUnchanged ==
  ASSUME UNCHANGED httpVars
  PROVE  NoMoreCompleting /\ pending' = pending
  BY DEF httpVars, NoMoreCompleting, Completing

\* Replacing an operation of a session by others than a call of the completer
\* takes no worker.
LEMMA ReplaceOps ==
  ASSUME PoolType, NEW s \in Sessions, NEW op, NEW next \in SUBSET H!Ops,
         H!Replace(s, op, next), sent' = sent, "semantic" \notin next
  PROVE  NoMoreCompleting /\ pending' \in [Sessions -> SUBSET H!Ops]
  BY DEF PoolType, H!Replace, NoMoreCompleting, Completing

\* A block that does not start takes no worker.
LEMMA GotoPC ==
  ASSUME PoolType, NEW s \in Sessions, NEW from, NEW to \in D!RequestPC,
         D!Goto(s, from, to),
         \/ from \in {"service", "open", "replace", "check", "get"}
         \/ to \in {"queued", "done"}
  PROVE  NoMoreBlocks /\ pc' \in [Sessions -> D!RequestPC]
  BY DEF PoolType, D!Goto, NoMoreBlocks, Blocks, D!InBlock

\* A step that leaves the notifications alone takes no worker for them.
LEMMA NotesUnchanged ==
  ASSUME note' = note, interrupt' = interrupt
  PROVE  NoMoreReceivers /\ NoMoreInterrupted
  BY HoldersFinite
  DEF NoMoreReceivers, Receivers, D!InReceiver, NoMoreInterrupted, Interrupted

\* A handler or a timer takes no worker.
LEMMA HandlerPool ==
  ASSUME PoolType, PoolInv, NEW s \in Sessions, Handler(s)
  PROVE  PoolType' /\ PoolInv'
<1>1. /\ NoMoreBlocks /\ NoMoreReceivers /\ NoMoreInterrupted
      /\ pc' = pc /\ note' = note
  BY SemaUnchanged DEF Handler
<1>2. NoMoreCompleting /\ pending' \in [Sessions -> SUBSET H!Ops]
  <2>1. CASE H!OnRead(s)
    <3>1. H!Replace(s, "read", {"block"}) /\ sent' = sent
      BY <2>1 DEF H!OnRead, H!Handled, H!clientVars
    <3> QED
      BY <3>1, ReplaceOps DEF H!Ops
  <2>2. CASE H!OnReadUnknown(s)
    <3>1. H!Replace(s, "read", {"write"}) /\ sent' = sent
      BY <2>2 DEF H!OnReadUnknown, H!clientVars
    <3> QED
      BY <3>1, ReplaceOps DEF H!Ops, H!AsioOps
  <2>3. CASE H!OnReadError(s)
    <3>1. H!Replace(s, "read", {}) /\ sent' = sent
      BY <2>3 DEF H!OnReadError, H!ReadFailed, H!clientVars
    <3> QED
      BY <3>1, ReplaceOps
  <2>4. CASE H!OnWrite(s)
    <3>1. H!Replace(s, "written", {"read"}) /\ sent' = sent
      BY <2>4 DEF H!OnWrite, H!Answered, H!clientVars
    <3> QED
      BY <3>1, ReplaceOps DEF H!Ops, H!AsioOps
  <2>5. CASE H!Transmit(s)
    <3>1. H!Replace(s, "write", {"written"}) /\ sent' = sent
      BY <2>5 DEF H!Transmit
    <3> QED
      BY <3>1, ReplaceOps DEF H!Ops, H!AsioOps
  <2>6. CASE H!SlowTimer(s)
    <3>1. H!Replace(s, "timer", {"write"}) /\ sent' = sent
      BY <2>6 DEF H!SlowTimer, H!Write, H!clientVars
    <3> QED
      BY <3>1, ReplaceOps DEF H!Ops, H!AsioOps
  <2>7. CASE H!TransmitAgain(s)
    <3>1. pending' = pending /\ sent' = sent
      BY <2>7 DEF H!TransmitAgain, H!sessionVars
    <3> QED
      BY <3>1 DEF NoMoreCompleting, Completing, PoolType
  <2> QED
    BY <2>1, <2>2, <2>3, <2>4, <2>5, <2>6, <2>7
    DEF Handler, H!ReadHandler, H!Callback
<1> QED
  BY <1>1, <1>2, TakesNone DEF PoolType

\* A block of another endpoint takes the free worker it waits for, if it
\* takes one.
LEMMA OtherBlockPool ==
  ASSUME PoolType, PoolInv, NEW s \in Sessions, OtherBlock(s)
  PROVE  PoolType' /\ PoolInv'
<1>1. /\ NoMoreBlocks /\ NoMoreReceivers /\ NoMoreInterrupted
      /\ pc' = pc /\ note' = note
  BY SemaUnchanged DEF OtherBlock
<1>2. ASSUME NoMoreCompleting, pending' \in [Sessions -> SUBSET H!Ops]
      PROVE  PoolType' /\ PoolInv'
  BY <1>1, <1>2, TakesNone DEF PoolType
<1>3. CASE H!Status(s) \/ H!Shutdown(s)
  <2>1. H!Replace(s, "block", {"write"}) /\ sent' = sent
    BY <1>3 DEF H!Status, H!Shutdown, H!Write, H!clientVars
  <2> QED
    BY <1>2, <2>1, ReplaceOps DEF H!Ops, H!AsioOps
<1>4. CASE H!SlowTest(s)
  <2>1. H!Replace(s, "block", {"timer"}) /\ sent' = sent
    BY <1>4 DEF H!SlowTest, H!clientVars
  <2> QED
    BY <1>2, <2>1, ReplaceOps DEF H!Ops
<1>5. CASE H!Completions(s)
  <2>1. H!Replace(s, "semantic", {"write"}) /\ sent' = sent
    BY <1>5 DEF H!Completions, H!Write, H!clientVars
  <2> QED
    BY <1>2, <2>1, ReplaceOps DEF H!Ops, H!AsioOps
<1>6. CASE H!BodyThrows(s)
  <2>1. pending' = pending /\ sent' = sent
    BY <1>6 DEF H!BodyThrows, H!sessionVars, H!clientVars
  <2> QED
    BY <1>2, <2>1 DEF PoolType, NoMoreCompleting, Completing
<1>7. CASE WorkerFree /\ H!CallCompleter(s)
  <2>1. H!Replace(s, "block", {"semantic"}) /\ sent' = sent
    BY <1>7 DEF H!CallCompleter, H!clientVars
  <2>2. /\ Completing' \subseteq Completing \cup {s}
        /\ pending' \in [Sessions -> SUBSET H!Ops]
    BY <2>1 DEF H!Replace, H!Ops, PoolType, Completing
  <2> QED
    BY <1>1, <1>7, <2>2, TakesOne DEF PoolType
<1> QED
  BY <1>3, <1>4, <1>5, <1>6, <1>7 DEF OtherBlock, H!Endpoint

\* The three joint steps: only the one that starts a block takes a worker.
LEMMA JointPool ==
  ASSUME PoolType, PoolInv, NEW s \in Sessions,
         \/ OnReadDiagnostics(s) \/ CallDiagnosticsForFile(s)
         \/ WriteDiagnostics(s)
  PROVE  PoolType' /\ PoolInv'
<1>1. CASE OnReadDiagnostics(s)
  <2>1. H!Replace(s, "read", {"block"}) /\ sent' = sent
    BY <1>1 DEF OnReadDiagnostics, H!OnRead, H!Handled, H!clientVars
  <2>2. D!Goto(s, "idle", "queued") /\ note' = note /\ interrupt' = interrupt
    BY <1>1 DEF OnReadDiagnostics, D!HandleRequest, D!receiverVars
  <2>3. NoMoreCompleting /\ pending' \in [Sessions -> SUBSET H!Ops]
    BY <2>1, ReplaceOps DEF H!Ops
  <2>4. NoMoreBlocks /\ pc' \in [Sessions -> D!RequestPC]
    BY <2>2, GotoPC DEF D!RequestPC
  <2>5. NoMoreReceivers /\ NoMoreInterrupted
    BY <2>2, NotesUnchanged
  <2> QED
    BY <2>2, <2>3, <2>4, <2>5, TakesNone DEF PoolType
<1>2. CASE CallDiagnosticsForFile(s)
  <2>1. H!Replace(s, "block", {"semantic"}) /\ sent' = sent
    BY <1>2 DEF CallDiagnosticsForFile, H!CallCompleter, H!clientVars
  <2>2. /\ D!Goto(s, "queued", "service")
        /\ note' = note /\ interrupt' = interrupt
    BY <1>2 DEF CallDiagnosticsForFile, D!StartBlock, D!receiverVars
  <2>3. NoMoreCompleting /\ pending' \in [Sessions -> SUBSET H!Ops]
    BY <1>2, <2>1 DEF CallDiagnosticsForFile, ForDiagnostics, H!Replace, H!Ops,
       PoolType, NoMoreCompleting, Completing
  <2>4. /\ Blocks' \subseteq Blocks \cup {s}
        /\ pc' \in [Sessions -> D!RequestPC]
    BY <2>2 DEF D!Goto, D!RequestPC, PoolType, Blocks, D!InBlock
  <2>5. NoMoreReceivers /\ NoMoreInterrupted
    BY <2>2, NotesUnchanged
  <2>6. WorkerFree
    BY <1>2 DEF CallDiagnosticsForFile
  <2> QED
    BY <2>2, <2>3, <2>4, <2>5, <2>6, TakesOne DEF PoolType
<1>3. CASE WriteDiagnostics(s)
  <2>1. H!Replace(s, "semantic", {"write"}) /\ sent' = sent
    BY <1>3 DEF WriteDiagnostics, H!Diagnostics, H!Write, H!clientVars
  <2>2. /\ D!Goto(s, "check", "done") \/ D!Goto(s, "get", "done")
        /\ note' = note /\ interrupt' = interrupt
    BY <1>3 DEF WriteDiagnostics, D!ReturnEmpty, D!FutureGet, D!receiverVars
  <2>3. NoMoreCompleting /\ pending' \in [Sessions -> SUBSET H!Ops]
    BY <2>1, ReplaceOps DEF H!Ops, H!AsioOps
  <2>4. NoMoreBlocks /\ pc' \in [Sessions -> D!RequestPC]
    BY <2>2, GotoPC DEF D!RequestPC
  <2>5. NoMoreReceivers /\ NoMoreInterrupted
    BY <2>2, NotesUnchanged
  <2> QED
    BY <2>2, <2>3, <2>4, <2>5, TakesNone DEF PoolType
<1> QED
  BY <1>1, <1>2, <1>3

\* DiagnosticsForFile runs on the worker its block has.
LEMMA DiagnosticsForFilePool ==
  ASSUME PoolType, PoolInv, NEW s \in Sessions, DiagnosticsForFile(s)
  PROVE  PoolType' /\ PoolInv'
<1>1. NoMoreCompleting /\ pending' = pending
  BY HttpUnchanged DEF DiagnosticsForFile
<1>2. /\ \/ D!Goto(s, "service", "open") \/ D!Goto(s, "open", "replace")
         \/ D!Goto(s, "replace", "check") \/ D!Goto(s, "check", "get")
      /\ note' = note /\ interrupt' = interrupt
  BY DEF DiagnosticsForFile, D!CreateService, D!EditorOpen,
     D!EditorReplaceText, D!RegisterFuture, D!receiverVars
<1>3. NoMoreBlocks /\ pc' \in [Sessions -> D!RequestPC]
  BY <1>2, GotoPC DEF D!RequestPC
<1>4. NoMoreReceivers /\ NoMoreInterrupted
  BY <1>2, NotesUnchanged
<1> QED
  BY <1>1, <1>2, <1>3, <1>4, TakesNone DEF PoolType

\* A receiver takes the free worker it waits for, and has it until it ends.
LEMMA ReceiverPool ==
  ASSUME PoolType, PoolInv, NEW e \in D!Edits, Receiver(e)
  PROVE  PoolType' /\ PoolInv'
<1>1. NoMoreCompleting /\ pending' = pending
  BY HttpUnchanged DEF Receiver
<1>2. pc' = pc /\ interrupt' = interrupt
  BY DEF Receiver, D!Receiver, D!OnNotification, D!StartReceiver,
     D!ReturnUnnamed, D!FetchSema, D!SetSema, D!requestVars
<1>3. NoMoreBlocks /\ NoMoreInterrupted
  BY <1>2, HoldersFinite
  DEF NoMoreBlocks, Blocks, D!InBlock, NoMoreInterrupted, Interrupted
<1>4. CASE D!StartReceiver(e)
  <2>1. /\ Receivers' \subseteq Receivers \cup {e}
        /\ note' \in [D!Edits -> D!NotePC]
    BY <1>4 DEF D!StartReceiver, PoolType, D!NotePC, Receivers, D!InReceiver
  <2>2. WorkerFree
    BY <1>4 DEF Receiver, D!StartReceiver
  <2> QED
    BY <1>1, <1>2, <1>3, <2>1, <2>2, TakesOne DEF PoolType
<1>5. CASE ~D!StartReceiver(e)
  <2>1. \/ note[e] = "main" /\ note' = [note EXCEPT ![e] = "global"]
        \/ note[e] = "running" /\ note' = [note EXCEPT ![e] = "fetched"]
        \/ note' = [note EXCEPT ![e] = "done"]
    BY <1>5 DEF Receiver, D!Receiver, D!OnNotification, D!ReturnUnnamed,
       D!FetchSema, D!SetSema
  <2>2. NoMoreReceivers /\ note' \in [D!Edits -> D!NotePC]
    BY <2>1 DEF PoolType, D!NotePC, NoMoreReceivers, Receivers, D!InReceiver
  <2> QED
    BY <1>1, <1>2, <1>3, <2>2, TakesNone DEF PoolType
<1> QED
  BY <1>4, <1>5

\* A notification is posted to the main queue, and has no worker there.
LEMMA SemaReadyPool ==
  ASSUME PoolType, PoolInv, NEW f \in Files, SemaReady(f)
  PROVE  PoolType' /\ PoolInv'
<1>1. NoMoreCompleting /\ pending' = pending
  BY HttpUnchanged DEF SemaReady
<1>2. pc' = pc /\ interrupt' = interrupt
  BY DEF SemaReady, D!SemaReady, D!requestVars
<1>3. NoMoreBlocks /\ NoMoreInterrupted
  BY <1>2, HoldersFinite
  DEF NoMoreBlocks, Blocks, D!InBlock, NoMoreInterrupted, Interrupted
<1>4. PICK where \in {"main", "none"} :
        note' = [note EXCEPT ![building[f]] = where]
  BY DEF SemaReady, D!SemaReady
<1>5. NoMoreReceivers /\ note' \in [D!Edits -> D!NotePC]
  BY <1>4 DEF PoolType, D!NotePC, NoMoreReceivers, Receivers, D!InReceiver
<1> QED
  BY <1>1, <1>2, <1>3, <1>5, TakesNone DEF PoolType

\* The receiver of the notification without payload takes a free worker.
LEMMA InterruptPool ==
  ASSUME PoolType, PoolInv, SourceKitDown \/ OnInterrupt
  PROVE  PoolType' /\ PoolInv'
<1>1. NoMoreCompleting /\ pending' = pending
  BY HttpUnchanged DEF SourceKitDown, OnInterrupt
<1>2. pc' = pc /\ note' = note
  BY DEF SourceKitDown, OnInterrupt, D!SourceKitDown, D!OnInterrupt,
     D!requestVars
<1>3. NoMoreBlocks /\ NoMoreReceivers
  BY <1>2 DEF NoMoreBlocks, Blocks, D!InBlock, NoMoreReceivers, Receivers,
     D!InReceiver
<1>4. CASE interrupt = "global"
  <2>1. WorkerFree
    BY <1>4 DEF OnInterrupt, SourceKitDown, D!SourceKitDown
  <2> QED
    BY <1>1, <1>2, <1>3, <2>1, TakesOne DEF PoolType
<1>5. CASE interrupt # "global"
  <2>1. interrupt' # "running"
    BY <1>5 DEF SourceKitDown, OnInterrupt, D!SourceKitDown, D!OnInterrupt
  <2>2. NoMoreInterrupted
    BY <2>1 DEF NoMoreInterrupted, Interrupted
  <2> QED
    BY <1>1, <1>2, <1>3, <2>2, TakesNone DEF PoolType
<1> QED
  BY <1>4, <1>5

\* A client that closes and a process that exits take no worker.
LEMMA OutsidePool ==
  ASSUME PoolType, PoolInv,
         ExitTimer \/ (\E s \in Sessions : ClientClose(s)) \/ UNCHANGED vars
  PROVE  PoolType' /\ PoolInv'
<1>1. UNCHANGED semaVars
  BY DEF ExitTimer, ClientClose, vars
<1>2. sent' = sent /\ pending' = pending
  BY DEF ExitTimer, H!ExitTimer, ClientClose, H!ClientClose, vars, httpVars,
     H!sessionVars, H!clientVars
<1>3. NoMoreCompleting
  BY <1>2 DEF NoMoreCompleting, Completing
<1>4. /\ NoMoreBlocks /\ NoMoreReceivers /\ NoMoreInterrupted
      /\ pc' = pc /\ note' = note
  BY <1>1, SemaUnchanged
<1> QED
  BY <1>2, <1>3, <1>4, TakesNone DEF PoolType

-----------------------------------------------------------------------------
(* The invariant *)

\* At the start nobody holds a worker.
LEMMA InitPool == Init => PoolType /\ PoolInv
<1> SUFFICES ASSUME Init
             PROVE  PoolType /\ PoolInv
  OBVIOUS
<1>1. /\ pc = [s \in Sessions |-> "idle"]
      /\ note = [e \in D!Edits |-> "none"]
      /\ interrupt = "none"
      /\ pending = [s \in Sessions |-> {"read"}]
  BY DEF Init, D!Init
<1>2. PoolType
  BY <1>1 DEF PoolType, D!RequestPC, D!NotePC, H!Ops, H!AsioOps
<1>3. /\ Blocks = {} /\ Receivers = {} /\ Completing = {}
      /\ Interrupted = 0
  BY <1>1 DEF Blocks, D!InBlock, Receivers, D!InReceiver, Completing,
     Interrupted
<1>4. PoolInv
  BY <1>3, BusyIs, FS_EmptySet, ServerAssumption DEF PoolInv
<1> QED
  BY <1>2, <1>4

\* Every step keeps it.
LEMMA NextPool == PoolType /\ PoolInv /\ [Next]_vars => PoolType' /\ PoolInv'
<1> SUFFICES ASSUME PoolType, PoolInv, [Next]_vars
             PROVE  PoolType' /\ PoolInv'
  OBVIOUS
<1>1. ASSUME NEW s \in Sessions, Session(s)
      PROVE  PoolType' /\ PoolInv'
  BY <1>1, HandlerPool, OtherBlockPool, JointPool, DiagnosticsForFilePool
  DEF Session
<1>2. ASSUME NEW e \in D!Edits, Receiver(e)
      PROVE  PoolType' /\ PoolInv'
  BY <1>2, ReceiverPool
<1>3. ASSUME NEW f \in Files, SemaReady(f)
      PROVE  PoolType' /\ PoolInv'
  BY <1>3, SemaReadyPool
<1> QED
  BY <1>1, <1>2, <1>3, InterruptPool, OutsidePool DEF Next, Step

\* The global queue never runs more blocks, receivers and completions than it
\* has workers, in any interleaving of sessions, notifications and a crash of
\* sourcekitd.
THEOREM PoolBounded == Spec => [](PoolType /\ PoolInv)
<1> QED
  BY InitPool, NextPool, PTL DEF Spec

-----------------------------------------------------------------------------
(* No way back *)

\* When every worker waits, no receiver has one.
LEMMA NoReceiver ==
  ASSUME PoolInv, Exhausted
  PROVE  Receivers = {}
<1>1. Waiting \subseteq Blocks
  BY DEF Waiting, Blocks, D!InBlock
<1>2. Cardinality(Waiting) <= Cardinality(Blocks)
  BY <1>1, HoldersFinite, FS_Subset
<1>3. Cardinality(Receivers) = 0
  BY <1>2, HoldersFinite, BusyIs, ServerAssumption DEF PoolInv, Exhausted
<1> QED
  BY <1>3, HoldersFinite, FS_EmptySet

\* A step that sets no future ends no wait.
LEMMA StillWaiting ==
  ASSUME result' = result,
         \A s \in Sessions : pc[s] = "get" /\ result[s] = None => pc'[s] = "get",
         Exhausted
  PROVE  Exhausted'
<1>1. Waiting \subseteq Waiting'
  BY DEF Waiting
<1>2. IsFiniteSet(Waiting)' /\ (Cardinality(Waiting) \in Nat)'
  BY HoldersFinite, PTL
<1>3. Cardinality(Waiting) <= Cardinality(Waiting')
  BY <1>1, <1>2, FS_Subset
<1> QED
  BY <1>2, <1>3, HoldersFinite, ServerAssumption DEF Exhausted

\* No step of a session ends a wait: future.get() returns to a block whose
\* future has a value, and that block does not wait.
LEMMA SessionWaits ==
  ASSUME PoolType, NEW s \in Sessions, Session(s), Exhausted
  PROVE  Exhausted'
<1>1. CASE Handler(s) \/ OtherBlock(s)
  BY <1>1, StillWaiting DEF Handler, OtherBlock, semaVars
<1>2. CASE OnReadDiagnostics(s) \/ CallDiagnosticsForFile(s)
  <2>1. result' = result
    BY <1>2 DEF OnReadDiagnostics, CallDiagnosticsForFile, D!HandleRequest,
       D!StartBlock, D!channelVars
  <2>2. D!Goto(s, "idle", "queued") \/ D!Goto(s, "queued", "service")
    BY <1>2 DEF OnReadDiagnostics, CallDiagnosticsForFile, D!HandleRequest,
       D!StartBlock
  <2> QED
    BY <2>1, <2>2, StillWaiting DEF D!Goto, PoolType
<1>3. CASE DiagnosticsForFile(s)
  <2>1. result' = result
    BY <1>3 DEF DiagnosticsForFile, D!CreateService, D!EditorOpen,
       D!EditorReplaceText, D!RegisterFuture, D!channelVars,
       D!SemaFutureChannel!Register
  <2>2. \/ D!Goto(s, "service", "open") \/ D!Goto(s, "open", "replace")
        \/ D!Goto(s, "replace", "check") \/ D!Goto(s, "check", "get")
    BY <1>3 DEF DiagnosticsForFile, D!CreateService, D!EditorOpen,
       D!EditorReplaceText, D!RegisterFuture
  <2> QED
    BY <2>1, <2>2, StillWaiting DEF D!Goto, PoolType
<1>4. CASE WriteDiagnostics(s)
  <2>1. result' = result
    BY <1>4 DEF WriteDiagnostics, D!ReturnEmpty, D!FutureGet, D!channelVars,
       D!SemaFutureChannel!Deliver
  <2>2. \/ D!Goto(s, "check", "done")
        \/ D!Goto(s, "get", "done") /\ result[s] # None
    BY <1>4 DEF WriteDiagnostics, D!ReturnEmpty, D!FutureGet,
       D!SemaFutureChannel!Deliver
  <2> QED
    BY <2>1, <2>2, StillWaiting DEF D!Goto, PoolType
<1> QED
  BY <1>1, <1>2, <1>3, <1>4 DEF Session

\* No receiver sets a future while every worker waits.
LEMMA ReceiverWaits ==
  ASSUME PoolInv, NEW e \in D!Edits, Receiver(e), Exhausted
  PROVE  Exhausted'
<1>1. note[e] # "fetched"
  BY NoReceiver DEF Receivers, D!InReceiver
<1>2. result' = result /\ pc' = pc
  BY <1>1 DEF Receiver, D!Receiver, D!OnNotification, D!StartReceiver,
     D!ReturnUnnamed, D!FetchSema, D!SetSema, D!requestVars, D!channelVars
<1> QED
  BY <1>2, StillWaiting

\* Every worker waits after a step as before it.
LEMMA NextExhausted ==
  ASSUME PoolType, PoolInv, [Next]_vars, Exhausted
  PROVE  Exhausted'
<1>1. CASE UNCHANGED semaVars
  BY <1>1, StillWaiting DEF semaVars
<1>2. CASE (\E f \in Files : SemaReady(f)) \/ SourceKitDown \/ OnInterrupt
  <2>1. result' = result /\ pc' = pc
    BY <1>2 DEF SemaReady, SourceKitDown, OnInterrupt, D!SemaReady,
       D!SourceKitDown, D!OnInterrupt, D!requestVars, D!channelVars
  <2> QED
    BY <2>1, StillWaiting
<1> QED
  BY <1>1, <1>2, SessionWaits, ReceiverWaits
  DEF Next, Step, ExitTimer, ClientClose, vars

\* Once every worker waits in future.get(), every worker waits for good: no
\* handler, timer, notification or crash of sourcekitd frees one.
THEOREM NoWayBackEver == Spec => NoWayBack
<1>1. PoolType /\ PoolInv /\ [Next]_vars
        => [Exhausted /\ process' = "up" => Exhausted']_vars
  BY NextExhausted
<1> QED
  BY <1>1, PoolBounded, PTL DEF Spec, NoWayBack

-----------------------------------------------------------------------------
(* The diagnostics path in the server *)

\* A step of the server is a step of the diagnostics path or none of its own.
LEMMA SemaStep == [Next]_vars => [D!Next]_(D!vars)
<1> SUFFICES ASSUME [Next]_vars
             PROVE  D!Next \/ UNCHANGED D!vars
  OBVIOUS
<1>1. UNCHANGED semaVars => UNCHANGED D!vars
  BY DEF semaVars, D!vars, D!requestVars, D!sourcekitVars, D!receiverVars,
     D!channelVars
<1>2. ASSUME NEW s \in Sessions, Session(s)
      PROVE  D!Next \/ UNCHANGED semaVars
  BY <1>2 DEF Session, Handler, OtherBlock, OnReadDiagnostics,
     CallDiagnosticsForFile, DiagnosticsForFile, WriteDiagnostics, D!Next,
     D!Block
<1> QED
  BY <1>1, <1>2 DEF Next, Step, Receiver, SemaReady, SourceKitDown,
     OnInterrupt, ExitTimer, ClientClose, D!Next, vars

\* D and DP are two instances of the same module: their edits, workers ...
LEMMA SameSema ==
  DP!Edits = D!Edits /\ (D!WorkerFree <=> DP!WorkerFree)
<1>1. DP!Edits = D!Edits
  BY DEF D!Edits, DP!Edits
<1>2. \A S : D!Cardinality(S) = DP!Cardinality(S)
  BY DEF D!Cardinality, DP!Cardinality
<1> QED
  BY <1>1, <1>2
  DEF D!WorkerFree, DP!WorkerFree, D!Busy, DP!Busy, D!InBlock, DP!InBlock,
      D!InReceiver, DP!InReceiver

\* ... and steps are the same.
LEMMA SameSemaStep == [D!Next]_(D!vars) => [DP!Next]_(DP!vars)
<1> SUFFICES ASSUME [D!Next]_(D!vars)
             PROVE  DP!Next \/ UNCHANGED DP!vars
  OBVIOUS
<1> USE SameSema
    DEF D!requestVars, D!sourcekitVars, D!receiverVars, D!channelVars,
        DP!requestVars, DP!sourcekitVars, DP!receiverVars, DP!channelVars,
        D!Goto, DP!Goto
<1>1. UNCHANGED D!vars => UNCHANGED DP!vars
  BY DEF D!vars, DP!vars
<1>2. ASSUME NEW r \in Sessions
      PROVE  /\ D!HandleRequest(r) => DP!HandleRequest(r)
             /\ D!StartBlock(r) => DP!StartBlock(r)
             /\ D!CreateService(r) => DP!CreateService(r)
             /\ D!ReturnEmpty(r) => DP!ReturnEmpty(r)
  BY DEF D!HandleRequest, D!StartBlock, D!CreateService, D!ReturnEmpty,
     DP!HandleRequest, DP!StartBlock, DP!CreateService, DP!ReturnEmpty,
     D!Empty, DP!Empty
<1>3. ASSUME NEW r \in Sessions
      PROVE  /\ D!EditorOpen(r) => DP!EditorOpen(r)
             /\ D!EditorReplaceText(r) => DP!EditorReplaceText(r)
  BY DEF D!EditorOpen, D!EditorReplaceText, D!BasicRequest, D!Analyse,
     DP!EditorOpen, DP!EditorReplaceText, DP!BasicRequest, DP!Analyse
<1>4. ASSUME NEW r \in Sessions
      PROVE  /\ D!RegisterFuture(r) => DP!RegisterFuture(r)
             /\ D!FutureGet(r) => DP!FutureGet(r)
  BY DEF D!RegisterFuture, D!FutureGet, D!Value, DP!RegisterFuture,
     DP!FutureGet, DP!Value, D!SemaFutureChannel!Register,
     DP!SemaFutureChannel!Register, D!SemaFutureChannel!Deliver,
     DP!SemaFutureChannel!Deliver, D!SemaFutureChannel!keys,
     DP!SemaFutureChannel!keys
<1>5. ASSUME NEW e \in D!Edits, D!Receiver(e)
      PROVE  DP!Receiver(e)
  BY <1>5
  DEF D!Receiver, D!OnNotification, D!StartReceiver, D!ReturnUnnamed,
      D!FetchSema, D!SetSema, D!Failed, D!Unregistered, D!Edited,
      DP!Receiver, DP!OnNotification, DP!StartReceiver, DP!ReturnUnnamed,
      DP!FetchSema, DP!SetSema, DP!Failed, DP!Unregistered, DP!Edited,
      D!SemaFutureChannel!Fulfil, DP!SemaFutureChannel!Fulfil,
      D!SemaFutureChannel!Reached, DP!SemaFutureChannel!Reached,
      D!SemaFutureChannel!keys, DP!SemaFutureChannel!keys
<1>6. ASSUME NEW f \in Files, D!SemaReady(f)
      PROVE  DP!SemaReady(f)
  BY <1>6 DEF D!SemaReady, DP!SemaReady
<1>7. D!SourceKitDown => DP!SourceKitDown
  BY DEF D!SourceKitDown, DP!SourceKitDown, D!Edited, DP!Edited
<1>8. D!OnInterrupt => DP!OnInterrupt
  BY DEF D!OnInterrupt, DP!OnInterrupt
<1> QED
  BY <1>1, <1>2, <1>3, <1>4, <1>5, <1>6, <1>7, <1>8
  DEF D!Next, DP!Next, D!Block, DP!Block

\* The server behaves as the diagnostics path does on its own.
THEOREM ServerIsDiagnostics == Spec => DP!Spec
<1>1. Init => DP!Init
  BY SameSema DEF Init, D!Init, DP!Init, D!SemaFutureChannel!Init,
     DP!SemaFutureChannel!Init
<1> QED
  BY <1>1, SemaStep, SameSemaStep, PTL DEF Spec, DP!Spec

\* What DiagnosticsForFile hands to a session of the server was found in
\* contents sent for the file that session asked about, whoever else shares
\* the workers and whatever clients close meanwhile.
THEOREM SessionsOwnAnswers == Spec => []D!AnswerIsForOwnFile
<1>1. DP!Spec => []DP!AnswerIsForOwnFile
  BY DP!OwnAnswers, ServerAssumption
  DEF D!Edits, D!Empty, D!Failed, DP!Edits, DP!Empty, DP!Failed
<1>2. DP!AnswerIsForOwnFile => D!AnswerIsForOwnFile
  BY DEF DP!AnswerIsForOwnFile, D!AnswerIsForOwnFile
<1> QED
  BY <1>1, <1>2, ServerIsDiagnostics, PTL

\* In the server, too, a block that waits with no notification coming has
\* missed it before it registered, lost it with sourcekitd, or has no name.
THEOREM SessionsThreeLosses == Spec => []D!NoOtherLostWakeUp
<1>1. DP!Spec => []DP!NoOtherLostWakeUp
  BY DP!OnlyThreeLosses, ServerAssumption
  DEF D!Edits, D!Empty, D!Failed, DP!Edits, DP!Empty, DP!Failed
<1>2. DP!NoOtherLostWakeUp => D!NoOtherLostWakeUp
  BY SameSema DEF DP!NoOtherLostWakeUp, D!NoOtherLostWakeUp, DP!Coming,
     D!Coming, DP!UnderWay, D!UnderWay
<1> QED
  BY <1>1, <1>2, ServerIsDiagnostics, PTL

-----------------------------------------------------------------------------
(* The sessions in the server *)

\* A step of the server is a step of the sessions or none of theirs.
LEMMA HttpStep == [Next]_vars => [H!Next]_(H!vars)
<1> SUFFICES ASSUME [Next]_vars
             PROVE  H!Next \/ UNCHANGED H!vars
  OBVIOUS
<1>1. UNCHANGED httpVars => UNCHANGED H!vars
  BY DEF httpVars, H!vars, H!sessionVars, H!clientVars, H!serverVars
<1>2. ASSUME NEW s \in Sessions, Session(s)
      PROVE  H!Next \/ UNCHANGED httpVars
  BY <1>2 DEF Session, Handler, OtherBlock, OnReadDiagnostics,
     CallDiagnosticsForFile, DiagnosticsForFile, WriteDiagnostics, H!Next,
     H!ReadHandler, H!Endpoint
<1> QED
  BY <1>1, <1>2 DEF Next, Step, Receiver, SemaReady, SourceKitDown,
     OnInterrupt, ExitTimer, ClientClose, H!Next, H!Client, vars

\* H and HP are two instances of the same module, with the same steps.
LEMMA SameHttpStep == [H!Next]_(H!vars) => [HP!Next]_(HP!vars)
<1> SUFFICES ASSUME [H!Next]_(H!vars)
             PROVE  HP!Next \/ UNCHANGED HP!vars
  OBVIOUS
<1> USE DEF H!sessionVars, H!clientVars, H!serverVars, H!Up, H!Replace,
        H!Write, H!Runs, H!request, H!StopIfIdle, H!AsioOps, H!Ok, H!Arrived,
        H!Incoming, H!Released, HP!sessionVars, HP!clientVars, HP!serverVars,
        HP!Up, HP!Replace, HP!Write, HP!Runs, HP!request, HP!StopIfIdle,
        HP!AsioOps, HP!Ok, HP!Arrived, HP!Incoming, HP!Released
<1>1. UNCHANGED H!vars => UNCHANGED HP!vars
  BY DEF H!vars, HP!vars
<1>2. ASSUME NEW s \in Sessions, H!Client(s)
      PROVE  HP!Client(s)
  <2>1. H!Requests = HP!Requests
    BY DEF H!Requests, HP!Requests
  <2>2. H!Cardinality(H!Requests) = HP!Cardinality(HP!Requests)
    BY <2>1 DEF H!Cardinality, HP!Cardinality
  <2>3. ASSUME NEW m \in Messages, H!ClientSend(s, m)
        PROVE  HP!ClientSend(s, m)
    BY <2>2, <2>3 DEF H!ClientSend, HP!ClientSend
  <2> QED
    BY <1>2, <2>3 DEF H!Client, H!Connect, H!ClientClose, HP!Client,
       HP!Connect, HP!ClientClose
<1>3. ASSUME NEW s \in Sessions, H!OnAccept(s)
      PROVE  HP!OnAccept(s)
  BY <1>3 DEF H!OnAccept, HP!OnAccept
<1>4. ASSUME NEW s \in Sessions, H!ReadHandler(s)
      PROVE  HP!ReadHandler(s)
  BY <1>4
  DEF H!ReadHandler, H!OnRead, H!OnReadUnknown, H!OnReadError, H!Handled,
      H!ReadFailed, H!notFoundResponse, H!Endpoints, HP!ReadHandler,
      HP!OnRead, HP!OnReadUnknown, HP!OnReadError, HP!Handled,
      HP!ReadFailed, HP!notFoundResponse, HP!Endpoints
<1>5. ASSUME NEW s \in Sessions, H!Callback(s)
      PROVE  HP!Callback(s)
  <2>1. H!CopiesSent(s) = HP!CopiesSent(s)
    BY DEF H!CopiesSent, HP!CopiesSent
  <2>2. H!LastBodies(s) = HP!LastBodies(s)
    BY <2>1 DEF H!LastBodies, HP!LastBodies
  <2>3. \A body : H!Deliver(s, body) <=> HP!Deliver(s, body)
    BY <2>1 DEF H!Deliver, HP!Deliver
  <2>4. H!Transmit(s) => HP!Transmit(s)
    BY <2>2, <2>3 DEF H!Transmit, HP!Transmit
  <2>5. H!TransmitAgain(s) => HP!TransmitAgain(s)
    BY <2>1, <2>3 DEF H!TransmitAgain, HP!TransmitAgain
  <2>6. H!OnWrite(s) \/ H!SlowTimer(s) => HP!OnWrite(s) \/ HP!SlowTimer(s)
    BY DEF H!OnWrite, H!SlowTimer, H!Answered, HP!OnWrite, HP!SlowTimer,
       HP!Answered
  <2> QED
    BY <1>5, <2>4, <2>5, <2>6 DEF H!Callback, HP!Callback
<1>6. ASSUME NEW s \in Sessions, H!Endpoint(s)
      PROVE  HP!Endpoint(s)
  BY <1>6
  DEF H!Endpoint, H!Status, H!Shutdown, H!SlowTest, H!BodyThrows,
      H!CallCompleter, H!Fatal, H!ExitAfter, HP!Endpoint, HP!Status,
      HP!Shutdown, HP!SlowTest, HP!BodyThrows, HP!CallCompleter, HP!Fatal,
      HP!ExitAfter
<1>7. ASSUME NEW s \in Sessions, H!Completions(s) \/ H!Diagnostics(s)
      PROVE  HP!Completions(s) \/ HP!Diagnostics(s)
  BY <1>7 DEF H!Completions, H!Diagnostics, HP!Completions, HP!Diagnostics
<1>8. H!OnAcceptError \/ H!ExitTimer => HP!OnAcceptError \/ HP!ExitTimer
  BY DEF H!OnAcceptError, H!ExitTimer, HP!OnAcceptError, HP!ExitTimer
<1> QED
  BY <1>1, <1>2, <1>3, <1>4, <1>5, <1>6, <1>7, <1>8 DEF H!Next, HP!Next

\* The invariant of the sessions holds of clients that have been accepted and
\* have sent their requests.
LEMMA InitSessions == Init => HP!IndInv
<1> SUFFICES ASSUME Init
             PROVE  HP!IndInv
  OBVIOUS
<1>1. sent \in [Sessions -> Seq(Messages)]
  <2>1. \A m \in Messages : <<m>> \in Seq(Messages)
    OBVIOUS
  <2> QED
    BY <2>1 DEF Init
<1>2. HP!TypeOK
  <2>1. response \in [Sessions -> HP!Responses]
    BY DEF Init, H!NoResponse, HP!Responses
  <2>2. received \in [Sessions -> HP!Receivable]
    BY DEF Init, H!Nothing, HP!Receivable
  <2>3. pending \in [Sessions -> SUBSET HP!Ops]
    BY DEF Init, HP!Ops, HP!AsioOps
  <2>4. /\ conn \in [Sessions -> {"closed", "backlog", "open", "gone"}]
        /\ taken \in [Sessions -> Nat]
        /\ exits \in SUBSET Sessions /\ acceptor \in {"armed", "dead"}
        /\ stopped \in BOOLEAN /\ process \in {"up", "exited", "aborted"}
    BY DEF Init
  <2> QED
    BY <1>1, <2>1, <2>2, <2>3, <2>4 DEF HP!TypeOK
<1>3. ASSUME NEW s \in Sessions
      PROVE  HP!SessionInv(s)
  <2>1. /\ conn[s] = "open" /\ taken[s] = 0 /\ pending[s] = {"read"}
        /\ received[s].to = 0
    BY DEF Init, H!Nothing
  <2>2. PICK m \in Messages : sent[s] = <<m>>
    BY DEF Init
  <2>3. Len(sent[s]) = 1
    BY <2>2
  <2>4. ~HP!Owes(s)
    BY <2>1 DEF HP!Owes, HP!OwingOps
  <2> QED
    BY <2>1, <2>3, <2>4 DEF HP!SessionInv, HP!UpToDate, HP!Ops, HP!AsioOps
<1> QED
  BY <1>2, <1>3 DEF HP!IndInv

\* It holds in every state of the server.
LEMMA SessionsInvariant == Spec => []HP!IndInv
<1>1. HP!IndInv /\ [HP!Next]_(HP!vars) => HP!IndInv'
  BY HP!NextInv, ServerAssumption
  DEF H!Urls, H!Endpoints, H!Bodies, HP!Urls, HP!Endpoints, HP!Bodies
<1> QED
  BY <1>1, InitSessions, HttpStep, SameHttpStep, PTL DEF Spec

\* In the server a worker in future.get(), the io_service threads and the
\* timers never have two operations under way on one session.
THEOREM SessionsOneAtATime == Spec => []H!SingleFlight
<1>1. HP!IndInv => HP!SingleFlight
  BY HP!InvSingleFlight, ServerAssumption
  DEF H!Urls, H!Endpoints, H!Bodies, HP!Urls, HP!Endpoints, HP!Bodies
<1>2. HP!SingleFlight => H!SingleFlight
  <2>1. \A S : H!Cardinality(S) = HP!Cardinality(S)
    BY DEF H!Cardinality, HP!Cardinality
  <2> QED
    BY <2>1 DEF HP!SingleFlight, H!SingleFlight
<1> QED
  BY <1>1, <1>2, SessionsInvariant, PTL

\* However long sourcekitd takes, no session is let go of while its client
\* is there, unless what the client sent is not HTTP.
THEOREM SessionsKept == Spec => []H!KeptWhileOpen
<1>1. HP!IndInv => HP!KeptWhileOpen
  BY HP!InvKept, ServerAssumption
  DEF H!Urls, H!Endpoints, H!Bodies, HP!Urls, HP!Endpoints, HP!Bodies
<1>2. HP!KeptWhileOpen => H!KeptWhileOpen
  BY DEF HP!KeptWhileOpen, H!KeptWhileOpen, HP!Released, H!Released,
     HP!Arrived, H!Arrived, HP!Incoming, H!Incoming
<1> QED
  BY <1>1, <1>2, SessionsInvariant, PTL

\* In the server too, whatever waits for a worker or for sourcekitd, what a
\* client gets is the response to its oldest request without one, or one more
\* copy of the latest response, of which no copy before was spoilt.
THEOREM SessionsAnswerInOrder ==
  Spec => [][H!Exchange!Next]_<<sent, received>>
<1>1. HP!IndInv /\ [HP!Next]_(HP!vars) => [HP!Exchange!Next]_<<sent, received>>
  BY HP!ExchangeStep, ServerAssumption
  DEF H!Urls, H!Endpoints, H!Bodies, HP!Urls, HP!Endpoints, HP!Bodies
<1>2. [HP!Exchange!Next]_<<sent, received>> => [H!Exchange!Next]_<<sent, received>>
  BY DEF HP!Exchange!Next, H!Exchange!Next, HP!Exchange!Ask, H!Exchange!Ask,
     HP!Exchange!Answer, H!Exchange!Answer, HP!Exchange!Repeat,
     H!Exchange!Repeat, HP!Exchange!Receive, H!Exchange!Receive,
     HP!Exchange!Response, H!Exchange!Response
<1> QED
  BY <1>1, <1>2, SessionsInvariant, HttpStep, SameHttpStep, PTL DEF Spec

-----------------------------------------------------------------------------
(* Quiet states *)

\* A block in DiagnosticsForFile is what is pending on its session, whose
\* request is for diagnostics; every client has sent one request.
LinkInv ==
  \A s \in Sessions :
    D!InBlock(s) => pending[s] = {"semantic"} /\ ForDiagnostics(s)
SentInv == sent \in [Sessions -> {<<m>> : m \in Messages}]

\* A step that ends an operation other than a call of the completer is not
\* one of a session whose block is in DiagnosticsForFile.
LEMMA ReplaceLink ==
  ASSUME PoolType, LinkInv, NEW s \in Sessions, NEW op, NEW next,
         H!Replace(s, op, next), op # "semantic", sent' = sent,
         \A r \in Sessions : D!InBlock(r)' => D!InBlock(r)
  PROVE  LinkInv'
  BY DEF PoolType, LinkInv, ForDiagnostics, H!Replace

\* A handler or a timer is such a step ...
LEMMA HandlerLink ==
  ASSUME PoolType, LinkInv, NEW s \in Sessions, Handler(s)
  PROVE  LinkInv' /\ sent' = sent
<1>1. \A r \in Sessions : D!InBlock(r)' => D!InBlock(r)
  BY DEF Handler, semaVars, D!InBlock
<1>2. \/ \E next : H!Replace(s, "read", next) /\ sent' = sent
      \/ \E next : H!Replace(s, "written", next) /\ sent' = sent
      \/ \E next : H!Replace(s, "write", next) /\ sent' = sent
      \/ \E next : H!Replace(s, "timer", next) /\ sent' = sent
      \/ pending' = pending /\ sent' = sent
  BY DEF Handler, H!ReadHandler, H!OnRead, H!OnReadUnknown, H!OnReadError,
     H!Callback, H!OnWrite, H!Transmit, H!TransmitAgain, H!SlowTimer,
     H!Write, H!clientVars, H!sessionVars
<1>3. CASE pending' = pending /\ sent' = sent
  BY <1>1, <1>3 DEF LinkInv, ForDiagnostics
<1> QED
  BY <1>1, <1>2, <1>3, ReplaceLink

\* ... and a block of another endpoint is one of a session of its own.
LEMMA OtherBlockLink ==
  ASSUME PoolType, LinkInv, NEW s \in Sessions, OtherBlock(s)
  PROVE  LinkInv' /\ sent' = sent
<1>1. \A r \in Sessions : D!InBlock(r)' => D!InBlock(r)
  BY DEF OtherBlock, semaVars, D!InBlock
<1>2. CASE H!BodyThrows(s)
  BY <1>1, <1>2 DEF H!BodyThrows, H!sessionVars, H!clientVars, LinkInv,
     ForDiagnostics
<1>3. CASE H!Completions(s)
  <2>1. ~ForDiagnostics(s)
    BY <1>3 DEF OtherBlock, H!Completions, H!serverVars, H!Runs, H!Up
  <2>2. H!Replace(s, "semantic", {"write"}) /\ sent' = sent
    BY <1>3 DEF H!Completions, H!Write, H!clientVars
  <2> QED
    BY <1>1, <2>1, <2>2 DEF PoolType, LinkInv, ForDiagnostics, H!Replace
<1>4. CASE H!Status(s) \/ H!Shutdown(s) \/ H!SlowTest(s) \/ H!CallCompleter(s)
  <2>1. \E next : H!Replace(s, "block", next) /\ sent' = sent
    BY <1>4 DEF H!Status, H!Shutdown, H!SlowTest, H!CallCompleter, H!Write,
       H!clientVars
  <2> QED
    BY <1>1, <2>1, ReplaceLink
<1> QED
  BY <1>2, <1>3, <1>4 DEF OtherBlock, H!Endpoint

\* The steps of the diagnostics path itself.
LEMMA DiagnosticsLink ==
  ASSUME PoolType, HP!IndInv, LinkInv, NEW s \in Sessions,
         \/ OnReadDiagnostics(s) \/ CallDiagnosticsForFile(s)
         \/ DiagnosticsForFile(s) \/ WriteDiagnostics(s)
  PROVE  LinkInv' /\ sent' = sent
<1> USE DEF D!Goto
<1>1. CASE OnReadDiagnostics(s)
  <2>1. H!Replace(s, "read", H!Handled) /\ sent' = sent
    BY <1>1 DEF OnReadDiagnostics, H!OnRead, H!clientVars
  <2>2. \A r \in Sessions : D!InBlock(r)' => D!InBlock(r)
    BY <1>1 DEF OnReadDiagnostics, D!HandleRequest, PoolType, D!InBlock
  <2> QED
    BY <2>1, <2>2, ReplaceLink
<1>2. CASE CallDiagnosticsForFile(s)
  <2>1. /\ H!Replace(s, "block", {"semantic"}) /\ sent' = sent
        /\ ForDiagnostics(s)
    BY <1>2 DEF CallDiagnosticsForFile, H!CallCompleter, H!clientVars
  <2>2. pending[s] = {"block"}
    BY <2>1 DEF H!Replace, HP!IndInv, HP!SessionInv
  <2>3. pending' = [pending EXCEPT ![s] = {"semantic"}]
    BY <2>1, <2>2 DEF H!Replace
  <2>4. \A r \in Sessions : r # s /\ D!InBlock(r)' => D!InBlock(r)
    BY <1>2 DEF CallDiagnosticsForFile, D!StartBlock, PoolType, D!InBlock
  <2> QED
    BY <2>1, <2>3, <2>4 DEF LinkInv, ForDiagnostics, PoolType
<1>3. CASE DiagnosticsForFile(s)
  <2>1. pending' = pending /\ sent' = sent
    BY <1>3 DEF DiagnosticsForFile, httpVars
  <2>2. \A r \in Sessions : D!InBlock(r)' => D!InBlock(r)
    BY <1>3 DEF DiagnosticsForFile, D!CreateService, D!EditorOpen,
       D!EditorReplaceText, D!RegisterFuture, PoolType, D!InBlock
  <2> QED
    BY <2>1, <2>2 DEF LinkInv, ForDiagnostics
<1>4. CASE WriteDiagnostics(s)
  <2>1. H!Replace(s, "semantic", {"write"}) /\ sent' = sent
    BY <1>4 DEF WriteDiagnostics, H!Diagnostics, H!Write, H!clientVars
  <2>2. \A r \in Sessions : D!InBlock(r)' => D!InBlock(r) /\ r # s
    BY <1>4 DEF WriteDiagnostics, D!ReturnEmpty, D!FutureGet, PoolType,
       D!InBlock
  <2> QED
    BY <2>1, <2>2 DEF PoolType, LinkInv, ForDiagnostics, H!Replace
<1> QED
  BY <1>1, <1>2, <1>3, <1>4

\* Every step keeps the link between blocks and sessions.
LEMMA NextLink ==
  PoolType /\ HP!IndInv /\ LinkInv /\ SentInv /\ [Next]_vars
    => LinkInv' /\ SentInv'
<1> SUFFICES ASSUME PoolType, HP!IndInv, LinkInv, SentInv, [Next]_vars
             PROVE  LinkInv' /\ SentInv'
  OBVIOUS
<1>1. ASSUME NEW s \in Sessions, Session(s)
      PROVE  LinkInv' /\ sent' = sent
  BY <1>1, HandlerLink, OtherBlockLink, DiagnosticsLink DEF Session
<1>2. ASSUME pc' = pc, pending' = pending, sent' = sent
      PROVE  LinkInv' /\ sent' = sent
  BY <1>2 DEF LinkInv, ForDiagnostics, D!InBlock
<1>3. CASE \E e \in D!Edits : Receiver(e)
  <2>1. pc' = pc /\ pending' = pending /\ sent' = sent
    BY <1>3 DEF Receiver, httpVars, D!Receiver, D!OnNotification,
       D!StartReceiver, D!ReturnUnnamed, D!FetchSema, D!SetSema, D!requestVars
  <2> QED
    BY <1>2, <2>1 DEF SentInv
<1>4. CASE (\E f \in Files : SemaReady(f)) \/ SourceKitDown \/ OnInterrupt
  <2>1. pc' = pc /\ pending' = pending /\ sent' = sent
    BY <1>4 DEF SemaReady, SourceKitDown, OnInterrupt, httpVars, D!SemaReady,
       D!SourceKitDown, D!OnInterrupt, D!requestVars
  <2> QED
    BY <1>2, <2>1 DEF SentInv
<1>5. CASE ExitTimer \/ (\E s \in Sessions : ClientClose(s)) \/ UNCHANGED vars
  <2>1. pc' = pc /\ pending' = pending /\ sent' = sent
    BY <1>5 DEF ExitTimer, ClientClose, semaVars, vars, httpVars,
       H!ExitTimer, H!ClientClose, H!clientVars, H!sessionVars
  <2> QED
    BY <1>2, <2>1 DEF SentInv
<1> QED
  BY <1>1, <1>3, <1>4, <1>5 DEF Next, Step, SentInv

\* What is known in every state of blocks, sessions and workers.
ServerInv == PoolType /\ PoolInv /\ HP!IndInv /\ LinkInv /\ SentInv

\* It holds in every state.
LEMMA ServerInvariant == Spec => []ServerInv
<1>1. Init => LinkInv /\ SentInv
  BY DEF Init, D!Init, LinkInv, SentInv, D!InBlock
<1> QED
  BY <1>1, NextLink, PoolBounded, SessionsInvariant, PTL DEF Spec, ServerInv

\* When all is quiet only blocks that wait hold a worker, so that there is a
\* free one unless all are held by them.
LEMMA QuietLeavesAWorker ==
  ASSUME ServerInv, Quiet, H!Up, ~Exhausted
  PROVE  WorkerFree
<1>1. Blocks \subseteq Waiting
  <2> SUFFICES ASSUME NEW s \in Sessions, D!InBlock(s)
               PROVE  s \in Waiting
    BY DEF Blocks
  <2>1. pending[s] = {"semantic"} /\ Idle(s)
    BY DEF ServerInv, LinkInv, Quiet
  <2> QED
    BY <2>1 DEF Idle
<1>2. Receivers = {} /\ Interrupted = 0
  BY DEF Quiet, Resting, Receivers, D!InReceiver, Interrupted
<1>3. Completing = {}
  <2> SUFFICES ASSUME NEW s \in Completing
               PROVE  FALSE
    OBVIOUS
  <2>1. s \in Sessions /\ "semantic" \in pending[s] /\ ~ForDiagnostics(s)
    BY DEF Completing, ForDiagnostics
  <2>2. s \in Waiting
    BY <2>1 DEF Quiet, Idle
  <2>3. D!InBlock(s)
    BY <2>2 DEF Waiting, D!InBlock
  <2> QED
    BY <2>1, <2>3 DEF ServerInv, LinkInv
<1>4. Cardinality(Blocks) <= Cardinality(Waiting)
  BY <1>1, HoldersFinite, FS_Subset
<1>5. Cardinality(Receivers) = 0 /\ Cardinality(Completing) = 0
  BY <1>2, <1>3, FS_EmptySet
<1> QED
  BY <1>2, <1>4, <1>5, HoldersFinite, BusyIs, ServerAssumption
  DEF WorkerFree, Exhausted

\* Then a session is over, has read all its client sent, or waits.
LEMMA QuietSession ==
  ASSUME ServerInv, Quiet, H!Up, ~Exhausted, NEW s \in Sessions
  PROVE  \/ pending[s] = {}
         \/ pending[s] = {"read"} /\ ~H!Arrived(s) /\ conn[s] = "open"
         \/ s \in Waiting
  BY QuietLeavesAWorker DEF Quiet, Idle

\* Requests for anything but diagnostics are answered whatever the blocks
\* that wait do, for as long as they leave one worker: proved for any number
\* of sessions and workers.
THEOREM OthersServed == Spec => []OthersAnswered
<1>1. ServerInv => OthersAnswered
  <2> SUFFICES ASSUME ServerInv, Quiet, H!Up, ~Exhausted, NEW s \in Sessions,
                      conn[s] = "open", ~ForDiagnostics(s)
               PROVE  received[s].to = 1 \/ sent[s][1].url = "malformed"
    BY DEF OthersAnswered
  <2>1. HP!SessionInv(s) /\ taken[s] \in Nat
    BY DEF ServerInv, HP!IndInv, HP!TypeOK
  <2>2. PICK m \in Messages : sent[s] = <<m>>
    BY DEF ServerInv, SentInv
  <2>3. Len(sent[s]) = 1
    BY <2>2
  <2>4. CASE pending[s] = {}
    <3>1. taken[s] < Len(sent[s]) /\ sent[s][taken[s] + 1].url = "malformed"
      BY <2>1, <2>4 DEF HP!SessionInv, HP!Arrived, HP!Incoming
    <3>2. taken[s] + 1 = 1
      BY <2>1, <2>3, <3>1
    <3> QED
      BY <3>1, <3>2
  <2>5. CASE pending[s] = {"read"} /\ ~H!Arrived(s)
    <3>1. ~HP!Owes(s)
      BY <2>5 DEF HP!Owes, HP!OwingOps
    <3>2. taken[s] = 1
      BY <2>1, <2>3, <2>5 DEF HP!SessionInv, H!Arrived
    <3> QED
      BY <2>1, <3>1, <3>2 DEF HP!SessionInv, HP!UpToDate
  <2>6. s \notin Waiting
    BY DEF ServerInv, LinkInv, Waiting, D!InBlock
  <2> QED
    BY <2>4, <2>5, <2>6, QuietSession
<1> QED
  BY <1>1, ServerInvariant, PTL

\* No notification is left in a queue while a worker is free to receive it.
THEOREM NotificationsArrive == Spec => []NotificationsSet
<1>1. ServerInv => NotificationsSet
  <2> SUFFICES ASSUME ServerInv, Quiet, H!Up, ~Exhausted
               PROVE  \A f : ~D!UnderWay(f)
    BY DEF NotificationsSet
  <2>1. \A e \in D!Edits : note[e] \in {"none", "done"}
    BY QuietLeavesAWorker DEF Quiet, Resting
  <2> QED
    BY <2>1 DEF D!UnderWay
<1> QED
  BY <1>1, ServerInvariant, PTL

\* Of the clients that have closed, only those whose block waits for
\* diagnostics leave a session behind.
THEOREM OthersReleased == Spec => []OnlyWaitersKept
<1>1. ServerInv => OnlyWaitersKept
  <2> SUFFICES ASSUME ServerInv, Quiet, H!Up, ~Exhausted, NEW s \in Sessions,
                      conn[s] = "gone"
               PROVE  H!Released(s) \/ s \in Waiting
    BY DEF OnlyWaitersKept
  <2>1. exits = {}
    BY DEF Quiet
  <2> QED
    BY <2>1, QuietSession DEF H!Released
<1> QED
  BY <1>1, ServerInvariant, PTL

\* In a quiet state no session takes a step.
LEMMA QuietSessionSteps ==
  ASSUME ServerInv, Quiet, NEW s \in Sessions, Session(s)
  PROVE  FALSE
<1>1. H!Up
  BY DEF Session, Handler, OtherBlock, OnReadDiagnostics,
     CallDiagnosticsForFile, DiagnosticsForFile, WriteDiagnostics,
     H!ReadHandler, H!OnRead, H!OnReadUnknown, H!OnReadError, H!Callback,
     H!OnWrite, H!Transmit, H!TransmitAgain, H!SlowTimer, H!Endpoint,
     H!Status, H!Shutdown, H!SlowTest, H!BodyThrows, H!CallCompleter, H!Completions,
     H!Diagnostics, H!Runs
<1>2. /\ Idle(s)
      /\ D!InBlock(s) => pending[s] = {"semantic"} /\ ForDiagnostics(s)
  BY <1>1 DEF Quiet, ServerInv, LinkInv
<1>3. s \in Waiting => D!InBlock(s)
  BY DEF Waiting, D!InBlock
<1>4. CASE Handler(s)
  <2>1. \/ "read" \in pending[s] /\ (H!Arrived(s) \/ conn[s] = "gone")
        \/ "written" \in pending[s] \/ "write" \in pending[s]
        \/ "timer" \in pending[s]
    BY <1>4 DEF Handler, H!ReadHandler, H!OnRead, H!OnReadUnknown,
       H!OnReadError, H!Callback, H!OnWrite, H!Transmit, H!TransmitAgain,
       H!SlowTimer, H!Write, H!Replace
  <2> QED
    BY <1>2, <1>3, <2>1 DEF Idle
<1>5. CASE OtherBlock(s)
  <2>1. \/ WorkerFree /\ "block" \in pending[s]
        \/ "semantic" \in pending[s] /\ ~ForDiagnostics(s)
    BY <1>5 DEF OtherBlock, H!Endpoint, H!Status, H!Shutdown, H!SlowTest,
       H!BodyThrows, H!CallCompleter, H!Completions, H!Runs, H!serverVars,
       H!Up
  <2> QED
    BY <1>2, <1>3, <2>1 DEF Idle
<1>6. CASE OnReadDiagnostics(s) \/ CallDiagnosticsForFile(s)
  <2>1. \/ "read" \in pending[s] /\ H!Arrived(s)
        \/ "block" \in pending[s] /\ WorkerFree
    BY <1>6 DEF OnReadDiagnostics, CallDiagnosticsForFile, H!OnRead,
       H!CallCompleter, H!Replace
  <2> QED
    BY <1>2, <1>3, <2>1 DEF Idle
<1>7. CASE DiagnosticsForFile(s) \/ WriteDiagnostics(s)
  <2>1. D!InBlock(s) /\ s \notin Waiting
    BY <1>7 DEF DiagnosticsForFile, WriteDiagnostics, D!CreateService,
       D!EditorOpen, D!EditorReplaceText, D!RegisterFuture, D!ReturnEmpty,
       D!FutureGet, D!Goto, D!SemaFutureChannel!Deliver, Waiting, D!InBlock
  <2> QED
    BY <1>2, <2>1 DEF Idle
<1> QED
  BY <1>4, <1>5, <1>6, <1>7 DEF Session

\* In a quiet state only a client that closes, or sourcekitd going down,
\* makes a step: no thread, timer or notification has anything left to do.
\* This is the half of QuietIsStuck that does not need ENABLED.
THEOREM QuietTakesNoStep == Spec => [][Quiet => ~Step]_vars
<1>1. ServerInv => (Quiet => ~Step)
  <2> SUFFICES ASSUME ServerInv, Quiet, Step
               PROVE  FALSE
    OBVIOUS
  <2>1. ASSUME NEW e \in D!Edits, Receiver(e)
        PROVE  FALSE
    BY <2>1 DEF Quiet, Resting, Receiver, D!Receiver, D!OnNotification,
       D!StartReceiver, D!ReturnUnnamed, D!FetchSema, D!SetSema
  <2>2. ASSUME NEW f \in Files, SemaReady(f)
        PROVE  FALSE
    BY <2>2 DEF Quiet, SemaReady, D!SemaReady
  <2>3. CASE OnInterrupt
    BY <2>3 DEF Quiet, Resting, OnInterrupt, D!OnInterrupt
  <2>4. CASE ExitTimer
    BY <2>4 DEF Quiet, ExitTimer, H!ExitTimer
  <2> QED
    BY <2>1, <2>2, <2>3, <2>4, QuietSessionSteps DEF Step
<1> QED
  BY <1>1, ServerInvariant, PTL
=============================================================================

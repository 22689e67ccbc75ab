------------------------- MODULE DiagnosticsProofs -------------------------
(***************************************************************************)
(* Proofs about Diagnostics, for any number of requests, documents and     *)
(* workers, whether or not sourcekitd goes down.                           *)
(*                                                                         *)
(* AnswerIsForOwnFile holds because the name of the document goes with     *)
(* everything that is passed on: FileInv follows it from the edit to the   *)
(* answer.  NoOtherLostWakeUp speaks of blocks in future.get(); WakeUpInv  *)
(* says the same of a request from its first successful edit on, and       *)
(* PathInv what is known at each point of DiagnosticsForFile.  EditsOnce   *)
(* and CallsOnce show that the channel is called as it is meant to be.     *)
(***************************************************************************)
EXTENDS Diagnostics, TLAPS

\* Whatever is known of a document was found in contents sent for it.
FileInv ==
  /\ \A f \in Files : building[f] # None => file[building[f][1]] = f
  /\ \A f \in Files : ast[f] # None => file[ast[f]] = f
  /\ \A e \in Edits : reply[e] \in Requests => file[reply[e]] = file[e[1]]
  /\ \A r \in Requests : result[r] # None => file[result[r][1]] = file[r]

\* What is known at each point of DiagnosticsForFile.
PathInv ==
  \A r \in Requests :
    /\ pc[r] \in {"idle", "queued", "service", "open"} => ~response[r]
    /\ pc[r] \in {"open", "replace", "check", "get"} => initialized
    /\ pc[r] = "get" => response[r]
    /\ pc[r] = "get" /\ result[r] = None => r \in registered

\* A request that has edited its document, has no result and has missed
\* nothing has a notification coming.
WakeUpInv ==
  \A r \in Requests :
    Edited(r) /\ result[r] = None /\ ~missed[r] /\ file[r] # Unnamed
      => Coming(file[r])

\* Where a block is that has not made an edit yet.
Before(kind) == {"idle", "queued", "service", "open"}
                  \cup (IF kind = "open" THEN {} ELSE {"replace"})

\* An edit is sent, analysed and notified at most once.
EditsOnce ==
  /\ \A f \in Files : building[f] # None => note[building[f]] = "none"
  /\ \A e \in Edits : pc[e[1]] \in Before(e[2])
       => note[e] = "none" /\ \A f \in Files : building[f] # e

\* A block calls future() once and then get() once, a receiver set() once.
CallsOnce ==
  /\ \A r \in Requests : pc[r] \notin {"get", "done"}
       => r \notin registered /\ result[r] = None
  /\ \A r \in Requests : pc[r] # "done" => r \notin delivered
  /\ \A e \in Edits : note[e] # "done" => e \notin fired

\* The calls that blocks and receivers are about to make are those the channel
\* admits: future() for a new promise, get() for one whose value has not been
\* taken, set() for a new value.
CallsAdmitted ==
  /\ \A r \in Requests : pc[r] = "check" => r \notin registered /\ result[r] = None
  /\ \A r \in Requests : pc[r] = "get" => r \notin delivered
  /\ \A e \in Edits : note[e] = "fetched" => e \notin fired

-----------------------------------------------------------------------------
(* Type correctness *)

\* An edit is a request and what it does.
LEMMA EditParts ==
  /\ \A e \in Edits : e[1] \in Requests
  /\ \A r \in Requests, k \in {"open", "replace"} :
       <<r, k>> \in Edits /\ <<r, k>>[1] = r
  BY DEF Edits

\* The initial state has the types of TypeOK.
LEMMA InitTypeOK == Init => TypeOK
  BY DEF Init, TypeOK, Answers, RequestPC, NotePC, SemaFutureChannel!Init

\* A request to sourcekitd keeps the types of what it changes.
LEMMA BasicRequestType ==
  ASSUME TypeOK, NEW r \in Requests, NEW kind \in {"open", "replace"},
         BasicRequest(r, kind)
  PROVE  /\ building' \in [Files -> Edits \cup {None}]
         /\ ast' = ast
         /\ response' \in [Requests -> BOOLEAN]
         /\ missed' \in [Requests -> BOOLEAN]
<1>1. CASE UNCHANGED <<sourcekitVars, response, missed>>
  BY <1>1 DEF TypeOK, sourcekitVars
<1>2. CASE Analyse(r, kind) /\ response' = [response EXCEPT ![r] = TRUE]
                            /\ missed' = [missed EXCEPT ![r] = FALSE]
  <2>1. <<r, kind>> \in Edits
    BY EditParts
  <2> QED
    BY <1>2, <2>1 DEF TypeOK, Analyse
<1> QED
  BY <1>1, <1>2 DEF BasicRequest

\* Every step of a block keeps the types.
LEMMA BlockTypeOK ==
  ASSUME TypeOK, NEW r \in Requests, HandleRequest(r) \/ Block(r)
  PROVE  TypeOK'
<1> USE DEF sourcekitVars, receiverVars, channelVars
<1>1. CASE HandleRequest(r)
  BY <1>1 DEF TypeOK, HandleRequest, Goto, RequestPC
<1>2. CASE StartBlock(r)
  BY <1>2 DEF TypeOK, StartBlock, Goto, RequestPC
<1>3. CASE CreateService(r)
  BY <1>3 DEF TypeOK, CreateService, Goto, RequestPC
<1>4. CASE EditorOpen(r)
  BY <1>4, BasicRequestType DEF TypeOK, EditorOpen, Goto, RequestPC
<1>5. CASE EditorReplaceText(r)
  BY <1>5, BasicRequestType DEF TypeOK, EditorReplaceText, Goto, RequestPC
<1>6. CASE ReturnEmpty(r)
  BY <1>6 DEF TypeOK, ReturnEmpty, Goto, RequestPC, Answers
<1>7. CASE RegisterFuture(r)
  BY <1>7 DEF TypeOK, RegisterFuture, Goto, RequestPC, SemaFutureChannel!Register
<1>8. CASE FutureGet(r)
  <2>1. Value(r) \in Answers
    BY <1>8 DEF TypeOK, FutureGet, Value, SemaFutureChannel!Deliver
  <2>2. delivered' \in SUBSET Requests
    BY <1>8 DEF TypeOK, FutureGet, SemaFutureChannel!Deliver
  <2> QED
    BY <1>8, <2>1, <2>2
    DEF TypeOK, FutureGet, Goto, RequestPC, SemaFutureChannel!Deliver
<1> QED
  BY <1>1, <1>2, <1>3, <1>4, <1>5, <1>6, <1>7, <1>8 DEF Block

\* Every step of a notification on its way keeps the types.
LEMMA ReceiverTypeOK ==
  ASSUME TypeOK, NEW e \in Edits, Receiver(e)
  PROVE  TypeOK'
<1> USE DEF sourcekitVars, receiverVars, channelVars, requestVars
<1>1. CASE OnNotification(e)
  BY <1>1 DEF TypeOK, OnNotification, NotePC
<1>2. CASE StartReceiver(e)
  BY <1>2 DEF TypeOK, StartReceiver, NotePC
<1>3. CASE ReturnUnnamed(e)
  BY <1>3 DEF TypeOK, ReturnUnnamed, NotePC
<1>4. CASE FetchSema(e)
  <2>1. file[e[1]] \in Files
    BY EditParts DEF TypeOK
  <2>2. reply' \in [Edits -> Answers]
    BY <1>4, <2>1 DEF TypeOK, FetchSema, Answers
  <2> QED
    BY <1>4, <2>2 DEF TypeOK, FetchSema, NotePC
<1>5. CASE SetSema(e)
  <2>1. missed' \in [Requests -> BOOLEAN]
    BY <1>5 DEF TypeOK, SetSema
  <2>2. result' \in [Requests -> Edits \cup {None}]
    BY <1>5 DEF TypeOK, SetSema, SemaFutureChannel!Fulfil
  <2> QED
    BY <1>5, <2>1, <2>2 DEF TypeOK, SetSema, NotePC, SemaFutureChannel!Fulfil
<1> QED
  BY <1>1, <1>2, <1>3, <1>4, <1>5 DEF Receiver

\* Every step of sourcekitd, and of the notification of its end, keeps the
\* types.
LEMMA SourceKitTypeOK ==
  ASSUME TypeOK,
         (\E f \in Files : SemaReady(f)) \/ SourceKitDown \/ OnInterrupt
  PROVE  TypeOK'
<1> USE DEF sourcekitVars, receiverVars, channelVars, requestVars
<1>1. ASSUME NEW f \in Files, SemaReady(f) PROVE TypeOK'
  <2>1. building[f] \in Edits /\ building[f][1] \in Requests
    BY <1>1, EditParts DEF TypeOK, SemaReady
  <2> QED
    BY <1>1, <2>1 DEF TypeOK, SemaReady, NotePC
<1>2. CASE SourceKitDown
  BY <1>2 DEF TypeOK, SourceKitDown
<1>3. CASE OnInterrupt
  BY <1>3 DEF TypeOK, OnInterrupt
<1> QED
  BY <1>1, <1>2, <1>3

\* Blocks, sourcekitd, receivers and channel keep their types in every
\* reachable state; in particular what DiagnosticsForFile returns is the
\* value of a notification and never its name.
THEOREM TypeCorrect == Spec => []TypeOK
<1>1. TypeOK /\ [Next]_vars => TypeOK'
  <2>1. TypeOK /\ UNCHANGED vars => TypeOK'
    BY DEF vars, TypeOK, requestVars, sourcekitVars, receiverVars, channelVars
  <2> QED
    BY <2>1, BlockTypeOK, ReceiverTypeOK, SourceKitTypeOK DEF Next
<1> QED
  BY InitTypeOK, <1>1, PTL DEF Spec

-----------------------------------------------------------------------------
(* Answers *)

\* The names of documents agree at the start: nothing is known of any.
LEMMA InitFileInv == Init => FileInv /\ AnswerIsForOwnFile
  BY DiagnosticsAssumption
  DEF Init, FileInv, AnswerIsForOwnFile, SemaFutureChannel!Init

\* A step of a block keeps to its document.
LEMMA BlockFileInv ==
  ASSUME TypeOK, FileInv, AnswerIsForOwnFile,
         NEW r \in Requests, HandleRequest(r) \/ Block(r)
  PROVE  FileInv' /\ AnswerIsForOwnFile'
<1> USE DEF sourcekitVars, receiverVars, channelVars
<1>1. ASSUME UNCHANGED <<file, building, ast, reply, result, answer>>
      PROVE  FileInv' /\ AnswerIsForOwnFile'
  BY <1>1 DEF FileInv, AnswerIsForOwnFile
<1>2. ASSUME NEW kind \in {"open", "replace"}, BasicRequest(r, kind),
             UNCHANGED <<file, answer, receiverVars, channelVars>>
      PROVE  FileInv' /\ AnswerIsForOwnFile'
  <2>1. CASE UNCHANGED <<sourcekitVars, response, missed>>
    BY <1>1, <1>2, <2>1
  <2>2. CASE Analyse(r, kind)
    <3>1. \A f \in Files : building'[f] # None => file[building'[f][1]] = f
      BY <2>2, EditParts DEF TypeOK, FileInv, Analyse
    <3> QED
      BY <1>2, <2>2, <3>1 DEF FileInv, AnswerIsForOwnFile, Analyse
  <2> QED
    BY <1>2, <2>1, <2>2 DEF BasicRequest
<1>3. CASE HandleRequest(r) \/ StartBlock(r) \/ CreateService(r)
  BY <1>1, <1>3 DEF HandleRequest, StartBlock, CreateService
<1>4. CASE EditorOpen(r) \/ EditorReplaceText(r)
  BY <1>2, <1>4 DEF EditorOpen, EditorReplaceText
<1>5. CASE ReturnEmpty(r)
  BY <1>5, DiagnosticsAssumption
  DEF ReturnEmpty, FileInv, AnswerIsForOwnFile, TypeOK
<1>6. CASE RegisterFuture(r)
  BY <1>1, <1>6 DEF RegisterFuture, SemaFutureChannel!Register
<1>7. CASE FutureGet(r)
  <2>1. result[r] \in Edits /\ result[r] # None
    BY <1>7 DEF FutureGet, SemaFutureChannel!Deliver, TypeOK
  <2>2. Value(r) \in Requests => file[Value(r)] = file[r]
    BY <2>1 DEF Value, FileInv
  <2>3. UNCHANGED <<file, building, ast, reply, result>>
    BY <1>7 DEF FutureGet, SemaFutureChannel!Deliver
  <2>4. AnswerIsForOwnFile'
    BY <1>7, <2>2, <2>3 DEF FutureGet, AnswerIsForOwnFile, TypeOK
  <2> QED
    BY <2>3, <2>4 DEF FileInv
<1> QED
  BY <1>3, <1>4, <1>5, <1>6, <1>7 DEF Block

\* A receiver sets what it was told of its own document.
LEMMA ReceiverFileInv ==
  ASSUME TypeOK, FileInv, AnswerIsForOwnFile, NEW e \in Edits, Receiver(e)
  PROVE  FileInv' /\ AnswerIsForOwnFile'
<1> USE DEF sourcekitVars, channelVars, requestVars
<1>1. CASE OnNotification(e) \/ StartReceiver(e) \/ ReturnUnnamed(e)
  BY <1>1
  DEF OnNotification, StartReceiver, ReturnUnnamed, FileInv, AnswerIsForOwnFile
<1>2. CASE FetchSema(e)
  <2>1. file[e[1]] \in Files
    BY EditParts DEF TypeOK
  <2>2. \A d \in Edits : reply'[d] \in Requests => file[reply'[d]] = file[d[1]]
    BY <1>2, <2>1, DiagnosticsAssumption DEF FetchSema, FileInv, TypeOK
  <2> QED
    BY <1>2, <2>2 DEF FetchSema, FileInv, AnswerIsForOwnFile
<1>3. CASE SetSema(e)
  <2>1. \A r \in Requests :
          r \in SemaFutureChannel!Reached(e) => file[r] = file[e[1]]
    BY DEF SemaFutureChannel!Reached
  <2>2. \A r \in Requests : result'[r] # None => file[result'[r][1]] = file[r]
    BY <1>3, <2>1 DEF SetSema, SemaFutureChannel!Fulfil, FileInv
  <2> QED
    BY <1>3, <2>2 DEF SetSema, FileInv, AnswerIsForOwnFile
<1> QED
  BY <1>1, <1>2, <1>3 DEF Receiver

\* sourcekitd analyses a document from the contents sent for it.
LEMMA SourceKitFileInv ==
  ASSUME TypeOK, FileInv, AnswerIsForOwnFile,
         (\E f \in Files : SemaReady(f)) \/ SourceKitDown \/ OnInterrupt
  PROVE  FileInv' /\ AnswerIsForOwnFile'
<1> USE DEF sourcekitVars, channelVars, requestVars
<1>1. ASSUME NEW f \in Files, SemaReady(f)
      PROVE  FileInv' /\ AnswerIsForOwnFile'
  BY <1>1 DEF SemaReady, FileInv, AnswerIsForOwnFile, TypeOK
<1>2. CASE SourceKitDown
  BY <1>2 DEF SourceKitDown, FileInv, AnswerIsForOwnFile
<1>3. CASE OnInterrupt
  BY <1>3 DEF OnInterrupt, FileInv, AnswerIsForOwnFile
<1> QED
  BY <1>1, <1>2, <1>3

\* What is known of a document, from the edit to the answer, comes from
\* contents sent for it.
THEOREM DocumentsAgree == Spec => [](FileInv /\ AnswerIsForOwnFile)
<1> DEFINE Inv == FileInv /\ AnswerIsForOwnFile
<1>1. TypeOK /\ Inv /\ [Next]_vars => Inv'
  <2>1. Inv /\ UNCHANGED vars => Inv'
    BY DEF vars, FileInv, AnswerIsForOwnFile, requestVars, sourcekitVars,
           receiverVars, channelVars
  <2> QED
    BY <2>1, BlockFileInv, ReceiverFileInv, SourceKitFileInv DEF Next
<1> QED
  BY InitFileInv, <1>1, TypeCorrect, PTL DEF Spec

\* DiagnosticsForFile never returns the diagnostics of another document,
\* however many requests share the channel and whichever edit of whichever
\* request caused the notification that ends the wait.
THEOREM OwnAnswers == Spec => []AnswerIsForOwnFile
  BY DocumentsAgree, PTL

-----------------------------------------------------------------------------
(* Wake-ups *)

\* Nothing has been asked of sourcekitd, and nobody waits.
LEMMA InitWakeUpInv == Init => PathInv /\ WakeUpInv
  BY DEF Init, PathInv, WakeUpInv, Edited

\* A block learns at each point of DiagnosticsForFile what PathInv says.
LEMMA BlockPathInv ==
  ASSUME TypeOK, PathInv, NEW r \in Requests, HandleRequest(r) \/ Block(r)
  PROVE  PathInv'
<1> USE DEF channelVars, PathInv, Goto
<1>1. CASE HandleRequest(r) \/ StartBlock(r)
  BY <1>1 DEF HandleRequest, StartBlock, TypeOK
<1>2. CASE CreateService(r)
  BY <1>2 DEF CreateService, TypeOK
<1>3. CASE EditorOpen(r) \/ EditorReplaceText(r)
  <2>1. \A q \in Requests : q # r => response'[q] = response[q]
    BY <1>3 DEF EditorOpen, EditorReplaceText, BasicRequest, TypeOK
  <2>2. pc'[r] \in {"replace", "check"} /\ initialized
    BY <1>3 DEF EditorOpen, EditorReplaceText, TypeOK
  <2> QED
    BY <1>3, <2>1, <2>2 DEF EditorOpen, EditorReplaceText, TypeOK
<1>4. CASE ReturnEmpty(r)
  BY <1>4 DEF ReturnEmpty, TypeOK
<1>5. CASE RegisterFuture(r)
  BY <1>5 DEF RegisterFuture, TypeOK, SemaFutureChannel!Register
<1>6. CASE FutureGet(r)
  BY <1>6 DEF FutureGet, TypeOK, SemaFutureChannel!Deliver
<1> QED
  BY <1>1, <1>2, <1>3, <1>4, <1>5, <1>6 DEF Block

\* What others do leaves a block where it is: a set gives a result to whom
\* it takes off the channel.
LEMMA OtherPathInv ==
  ASSUME TypeOK, PathInv,
         \/ \E e \in Edits : Receiver(e)
         \/ \E f \in Files : SemaReady(f)
         \/ SourceKitDown \/ OnInterrupt
  PROVE  PathInv'
<1> USE DEF channelVars, requestVars, PathInv
<1>1. ASSUME NEW e \in Edits, SetSema(e) PROVE PathInv'
  <2>1. \A r \in Requests : result'[r] = None =>
          result[r] = None /\ (r \in registered => r \in registered')
    BY <1>1, DiagnosticsAssumption DEF SetSema, SemaFutureChannel!Fulfil
  <2> QED
    BY <1>1, <2>1 DEF SetSema
<1>2. ASSUME NEW e \in Edits,
             \/ OnNotification(e) \/ StartReceiver(e) \/ ReturnUnnamed(e)
             \/ FetchSema(e)
      PROVE  PathInv'
  BY <1>2 DEF OnNotification, StartReceiver, ReturnUnnamed, FetchSema
<1>3. ASSUME NEW f \in Files, SemaReady(f) PROVE PathInv'
  BY <1>3 DEF SemaReady
<1>4. CASE SourceKitDown \/ OnInterrupt
  BY <1>4 DEF SourceKitDown, OnInterrupt
<1> QED
  BY <1>1, <1>2, <1>3, <1>4 DEF Receiver

\* A step of a block takes no notification away that some request needs, and
\* an edit that counts brings one.
LEMMA BlockWakeUpInv ==
  ASSUME TypeOK, PathInv, WakeUpInv,
         NEW r \in Requests, HandleRequest(r) \/ Block(r)
  PROVE  WakeUpInv'
<1> USE DEF channelVars, receiverVars, sourcekitVars
<1>1. ASSUME UNCHANGED <<file, building, note, response, result, missed>>,
             \A q \in Requests : Edited(q)' => Edited(q)
      PROVE  WakeUpInv'
  BY <1>1 DEF WakeUpInv, Coming, UnderWay
<1>2. CASE HandleRequest(r) \/ StartBlock(r) \/ CreateService(r)
           \/ ReturnEmpty(r) \/ RegisterFuture(r) \/ FutureGet(r)
  <2>1. UNCHANGED <<file, building, note, response, result, missed>>
    BY <1>2 DEF HandleRequest, StartBlock, CreateService, ReturnEmpty,
                RegisterFuture, FutureGet, SemaFutureChannel!Register,
                SemaFutureChannel!Deliver
  <2>2. \A q \in Requests : Edited(q)' => Edited(q)
    BY <1>2 DEF HandleRequest, StartBlock, CreateService, ReturnEmpty,
                RegisterFuture, FutureGet, Goto, Edited, TypeOK
  <2> QED
    BY <1>1, <2>1, <2>2
<1>3. ASSUME NEW kind \in {"open", "replace"}, BasicRequest(r, kind),
             EditorOpen(r) \/ EditorReplaceText(r)
      PROVE  WakeUpInv'
  <2>1. UNCHANGED <<file, note, result>>
    BY <1>3 DEF EditorOpen, EditorReplaceText
  <2>2. CASE UNCHANGED <<sourcekitVars, response, missed>>
    <3>1. \A q \in Requests : Edited(q)' => Edited(q)
      BY <1>3, <2>2
      DEF EditorOpen, EditorReplaceText, Goto, Edited, TypeOK, PathInv
    <3> QED
      BY <1>1, <2>1, <2>2, <3>1
  <2>3. CASE Analyse(r, kind) /\ response' = [response EXCEPT ![r] = TRUE]
                              /\ missed' = [missed EXCEPT ![r] = FALSE]
    <3>1. \A f \in Files : Coming(f) => Coming(f)'
      <4>1. \A f \in Files : UnderWay(f)' = UnderWay(f)
        BY <2>1 DEF UnderWay
      <4>2. <<r, kind>> # None
        BY EditParts, DiagnosticsAssumption
      <4>3. \A f \in Files : building'[f] \in {building[f], <<r, kind>>}
        BY <2>3 DEF Analyse, TypeOK
      <4>4. \A f \in Files : building[f] # None => building'[f] # None
        BY <4>2, <4>3
      <4> QED
        BY <4>1, <4>4 DEF Coming
    <3>2. Coming(file[r])'
      BY <2>1, <2>3, EditParts, DiagnosticsAssumption
      DEF Coming, Analyse, TypeOK
    <3>3. \A q \in Requests \ {r} :
            /\ missed'[q] = missed[q]
            /\ Edited(q)' => Edited(q)
      BY <1>3, <2>3 DEF EditorOpen, EditorReplaceText, Goto, Edited, TypeOK
    <3> QED
      BY <2>1, <3>1, <3>2, <3>3 DEF WakeUpInv, TypeOK
  <2> QED
    BY <1>3, <2>2, <2>3 DEF BasicRequest
<1>4. CASE EditorOpen(r) \/ EditorReplaceText(r)
  BY <1>3, <1>4 DEF EditorOpen, EditorReplaceText
<1> QED
  BY <1>2, <1>4 DEF Block

\* A receiver lets go of a notification only when it has set the channel: who
\* has registered has a result, and who has edited and not registered has
\* missed it.
LEMMA ReceiverWakeUpInv ==
  ASSUME TypeOK, PathInv, WakeUpInv, NEW e \in Edits, Receiver(e)
  PROVE  WakeUpInv'
<1> USE DEF channelVars, requestVars, sourcekitVars
<1> DEFINE f == file[e[1]]
<1>1. e[1] \in Requests /\ f \in Files
  BY EditParts DEF TypeOK
<1>2. UNCHANGED <<file, pc, response, building>>
  BY DEF Receiver, OnNotification, StartReceiver, ReturnUnnamed, FetchSema, SetSema
<1>3. \A q \in Requests : Edited(q)' = Edited(q)
  BY <1>2 DEF Edited
<1>4. \A d \in Edits : d # e => note'[d] = note[d]
  BY DEF Receiver, OnNotification, StartReceiver, ReturnUnnamed, FetchSema,
         SetSema, TypeOK
<1>5. \A g \in Files : g # f /\ Coming(g) => Coming(g)'
  BY <1>2, <1>4 DEF Coming, UnderWay
<1>6. CASE OnNotification(e) \/ StartReceiver(e) \/ FetchSema(e)
  <2>1. note'[e] \in {"global", "running", "fetched"}
    BY <1>6 DEF OnNotification, StartReceiver, FetchSema, TypeOK
  <2>2. Coming(f)'
    BY <1>2, <2>1 DEF Coming, UnderWay
  <2>3. UNCHANGED <<result, missed>>
    BY <1>6 DEF OnNotification, StartReceiver, FetchSema
  <2> QED
    BY <1>2, <1>3, <1>5, <2>2, <2>3 DEF WakeUpInv, TypeOK
<1>7. CASE ReturnUnnamed(e)
  <2>1. UNCHANGED <<result, missed>> /\ f = Unnamed
    BY <1>7 DEF ReturnUnnamed
  <2> QED
    BY <1>2, <1>3, <1>5, <2>1 DEF WakeUpInv, TypeOK
<1>8. CASE SetSema(e)
  <2>1. \A q \in Requests : file[q] = f /\ Edited(q) =>
          result'[q] # None \/ missed'[q]
    <3> SUFFICES ASSUME NEW q \in Requests, file[q] = f, Edited(q), ~missed'[q]
                 PROVE  result'[q] # None
      OBVIOUS
    <3>1. pc[q] = "get"
      BY <1>8 DEF SetSema, Unregistered
    <3>2. result[q] = None => q \in registered
      BY <3>1 DEF PathInv
    <3>3. q \in registered => result'[q] = e
      BY <1>8 DEF SetSema, SemaFutureChannel!Fulfil, SemaFutureChannel!Reached
    <3>4. result'[q] \in {e, result[q]}
      BY <1>8 DEF SetSema, SemaFutureChannel!Fulfil
    <3> QED
      BY <3>2, <3>3, <3>4, DiagnosticsAssumption
  <2>2. \A q \in Requests : result'[q] = None /\ ~missed'[q] =>
          result[q] = None /\ ~missed[q]
    BY <1>8, DiagnosticsAssumption DEF SetSema, SemaFutureChannel!Fulfil, TypeOK
  <2> QED
    BY <1>2, <1>3, <1>5, <2>1, <2>2 DEF WakeUpInv, TypeOK
<1> QED
  BY <1>6, <1>7, <1>8 DEF Receiver

\* sourcekitd posts a notification for what it has analysed; if it goes down,
\* all who have edited have missed theirs.
LEMMA SourceKitWakeUpInv ==
  ASSUME TypeOK, FileInv, PathInv, WakeUpInv,
         (\E f \in Files : SemaReady(f)) \/ SourceKitDown \/ OnInterrupt
  PROVE  WakeUpInv'
<1> USE DEF channelVars, requestVars, sourcekitVars
<1>1. ASSUME NEW f \in Files, SemaReady(f) PROVE WakeUpInv'
  <2> DEFINE e == building[f]
  <2>1. e \in Edits /\ e[1] \in Requests /\ file[e[1]] = f
    BY <1>1, EditParts DEF SemaReady, FileInv, TypeOK
  <2>2. UNCHANGED <<file, pc, response, result, missed>>
    BY <1>1 DEF SemaReady
  <2>3. \A q \in Requests : Edited(q)' = Edited(q)
    BY <2>2 DEF Edited
  <2>4. \A g \in Files : g # f /\ Coming(g) => Coming(g)'
    <3>1. \A g \in Files : g # f => building'[g] = building[g]
      BY <1>1 DEF SemaReady, TypeOK
    <3>2. \A d \in Edits : d # e => note'[d] = note[d]
      BY <1>1 DEF SemaReady, TypeOK
    <3> QED
      BY <2>1, <2>2, <3>1, <3>2 DEF Coming, UnderWay
  <2>5. ASSUME NEW q \in Requests, Edited(q) PROVE Coming(f)'
    <3>1. initialized
      BY <2>5 DEF Edited, PathInv
    <3>2. note'[e] = "main"
      BY <1>1, <2>1, <3>1 DEF SemaReady, TypeOK
    <3> QED
      BY <2>1, <2>2, <3>2 DEF Coming, UnderWay
  <2> QED
    BY <2>2, <2>3, <2>4, <2>5 DEF WakeUpInv, TypeOK
<1>2. CASE SourceKitDown
  <2>1. \A q \in Requests : Edited(q)' => missed'[q]
    BY <1>2 DEF SourceKitDown, Edited
  <2> QED
    BY <2>1 DEF WakeUpInv
<1>3. CASE OnInterrupt
  BY <1>3 DEF OnInterrupt, WakeUpInv, Edited, Coming, UnderWay
<1> QED
  BY <1>1, <1>2, <1>3

\* From its first successful edit on, a request without a result has missed
\* its notification, has one coming, or is for a document without a name.
THEOREM WakeUps == Spec => [](PathInv /\ WakeUpInv)
<1> DEFINE Inv == PathInv /\ WakeUpInv
<1>1. TypeOK /\ FileInv /\ Inv /\ [Next]_vars => Inv'
  <2>1. Inv /\ UNCHANGED vars => Inv'
    BY DEF vars, PathInv, WakeUpInv, Edited, Coming, UnderWay, requestVars,
           sourcekitVars, receiverVars, channelVars
  <2>2. ASSUME TypeOK, FileInv, Inv, Next PROVE PathInv'
    BY <2>2, BlockPathInv, OtherPathInv DEF Next
  <2>3. ASSUME TypeOK, FileInv, Inv, Next PROVE WakeUpInv'
    BY <2>3, BlockWakeUpInv, ReceiverWakeUpInv, SourceKitWakeUpInv DEF Next
  <2> QED
    BY <2>1, <2>2, <2>3
<1> QED
  BY InitWakeUpInv, <1>1, TypeCorrect, DocumentsAgree, PTL DEF Spec

\* DiagnosticsForFile waits in vain only if the notification was set before
\* it had registered, sourcekitd went down, or the document has no name.
THEOREM OnlyThreeLosses == Spec => []NoOtherLostWakeUp
<1>1. TypeOK /\ PathInv /\ WakeUpInv => NoOtherLostWakeUp
  BY DEF PathInv, WakeUpInv, NoOtherLostWakeUp, Edited, TypeOK
<1> QED
  BY <1>1, TypeCorrect, WakeUps, PTL

-----------------------------------------------------------------------------
(* The use of the channel *)

\* Nothing has been edited, posted or called.
LEMMA InitOnce == Init => EditsOnce /\ CallsOnce
  BY DiagnosticsAssumption
  DEF Init, EditsOnce, CallsOnce, SemaFutureChannel!Init

\* A block edits its document once each way, and calls the channel last.
LEMMA BlockOnce ==
  ASSUME TypeOK, EditsOnce, CallsOnce,
         NEW r \in Requests, HandleRequest(r) \/ Block(r)
  PROVE  EditsOnce' /\ CallsOnce'
<1> USE DEF sourcekitVars, receiverVars, channelVars
<1>1. ASSUME NEW from \in RequestPC, NEW to \in RequestPC, Goto(r, from, to),
             \A kind \in {"open", "replace"} :
               to \in Before(kind) => from \in Before(kind),
             UNCHANGED <<building, note>>
      PROVE  EditsOnce'
  BY <1>1 DEF Goto, EditsOnce, TypeOK, Edits
<1>2. ASSUME NEW from \in RequestPC, NEW to \in RequestPC, Goto(r, from, to),
             from \notin {"get", "done"}, to # "done",
             UNCHANGED <<note, channelVars>>
      PROVE  CallsOnce'
  BY <1>2 DEF Goto, CallsOnce, TypeOK
<1>3. CASE HandleRequest(r) \/ StartBlock(r) \/ CreateService(r)
  <2>1. /\ Goto(r, "idle", "queued") \/ Goto(r, "queued", "service")
           \/ Goto(r, "service", "open")
        /\ UNCHANGED <<building, note, channelVars>>
    BY <1>3 DEF HandleRequest, StartBlock, CreateService
  <2> QED
    BY <1>1, <1>2, <2>1 DEF RequestPC, Before
<1>4. ASSUME NEW kind \in {"open", "replace"}, BasicRequest(r, kind),
             Goto(r, kind, IF kind = "open" THEN "replace" ELSE "check"),
             UNCHANGED <<receiverVars, channelVars>>
      PROVE  EditsOnce' /\ CallsOnce'
  <2>1. CallsOnce'
    BY <1>2, <1>4 DEF RequestPC
  <2>2. CASE UNCHANGED <<sourcekitVars, response, missed>>
    BY <1>1, <1>4, <2>1, <2>2 DEF RequestPC, Before
  <2>3. CASE Analyse(r, kind)
    <3>1. <<r, kind>> \in Edits /\ note[<<r, kind>>] = "none"
      BY <1>4, EditParts DEF EditsOnce, Before, Goto, Edits
    <3>2. \A f \in Files : building'[f] # None => note[building'[f]] = "none"
      BY <2>3, <3>1 DEF Analyse, EditsOnce, TypeOK
    <3>3. ASSUME NEW e \in Edits, pc'[e[1]] \in Before(e[2])
          PROVE  note[e] = "none" /\ \A f \in Files : building'[f] # e
      <4>1. e # <<r, kind>> /\ pc[e[1]] \in Before(e[2])
        BY <1>4, <3>3 DEF Goto, Before, TypeOK, Edits
      <4> QED
        BY <2>3, <4>1 DEF Analyse, EditsOnce, TypeOK
    <3> QED
      BY <1>4, <2>1, <3>2, <3>3 DEF EditsOnce
  <2> QED
    BY <1>4, <2>2, <2>3 DEF BasicRequest
<1>5. CASE EditorOpen(r) \/ EditorReplaceText(r)
  BY <1>4, <1>5 DEF EditorOpen, EditorReplaceText
<1>6. CASE ReturnEmpty(r)
  <2>1. Goto(r, "check", "done") /\ UNCHANGED <<building, note, channelVars>>
    BY <1>6 DEF ReturnEmpty
  <2>2. EditsOnce'
    BY <1>1, <2>1 DEF RequestPC, Before
  <2>3. CallsOnce'
    BY <2>1 DEF Goto, CallsOnce, TypeOK
  <2> QED
    BY <2>2, <2>3
<1>7. CASE RegisterFuture(r)
  <2>1. Goto(r, "check", "get") /\ UNCHANGED <<building, note>>
        /\ registered' = registered \cup {r}
        /\ UNCHANGED <<result, fired, delivered>>
    BY <1>7 DEF RegisterFuture, SemaFutureChannel!Register
  <2>2. EditsOnce'
    BY <1>1, <2>1 DEF RequestPC, Before
  <2>3. CallsOnce'
    BY <2>1 DEF Goto, CallsOnce, TypeOK
  <2> QED
    BY <2>2, <2>3
<1>8. CASE FutureGet(r)
  <2>1. Goto(r, "get", "done") /\ UNCHANGED <<building, note>>
        /\ delivered' = delivered \cup {r}
        /\ UNCHANGED <<registered, result, fired>>
    BY <1>8 DEF FutureGet, SemaFutureChannel!Deliver
  <2>2. EditsOnce'
    BY <1>1, <2>1 DEF RequestPC, Before
  <2>3. CallsOnce'
    BY <2>1 DEF Goto, CallsOnce, TypeOK
  <2> QED
    BY <2>2, <2>3
<1> QED
  BY <1>3, <1>5, <1>6, <1>7, <1>8 DEF Block

\* A notification goes its way once, and its set reaches only those that have
\* registered.
LEMMA OtherOnce ==
  ASSUME TypeOK, FileInv, EditsOnce, CallsOnce,
         \/ \E e \in Edits : Receiver(e)
         \/ \E f \in Files : SemaReady(f)
         \/ SourceKitDown \/ OnInterrupt
  PROVE  EditsOnce' /\ CallsOnce'
<1> USE DEF channelVars, requestVars, sourcekitVars
<1>1. ASSUME NEW e \in Edits, note[e] # "none", note' = [note EXCEPT ![e] = note'[e]],
             UNCHANGED <<pc, building>>
      PROVE  EditsOnce'
  BY <1>1 DEF EditsOnce, TypeOK
<1>2. ASSUME NEW e \in Edits,
             \/ OnNotification(e) \/ StartReceiver(e) \/ ReturnUnnamed(e)
             \/ FetchSema(e)
      PROVE  EditsOnce' /\ CallsOnce'
  <2>1. PICK to \in NotePC :
          /\ note' = [note EXCEPT ![e] = to] /\ note[e] \notin {"none", "done"}
          /\ UNCHANGED <<pc, building, channelVars>>
    BY <1>2 DEF OnNotification, StartReceiver, ReturnUnnamed, FetchSema, NotePC
  <2>2. EditsOnce'
    BY <1>1, <2>1 DEF TypeOK
  <2>3. CallsOnce'
    BY <2>1 DEF CallsOnce, TypeOK
  <2> QED
    BY <2>2, <2>3
<1>3. ASSUME NEW e \in Edits, SetSema(e)
      PROVE  EditsOnce' /\ CallsOnce'
  <2>1. /\ note' = [note EXCEPT ![e] = "done"] /\ note[e] = "fetched"
        /\ UNCHANGED <<pc, building>> /\ fired' = fired \cup {e}
        /\ delivered' = delivered
    BY <1>3 DEF SetSema, SemaFutureChannel!Fulfil
  <2>2. EditsOnce'
    BY <1>1, <2>1 DEF TypeOK
  <2>3. ASSUME NEW r \in Requests, r \notin registered
        PROVE  r \notin registered' /\ result'[r] = result[r]
    BY <1>3, <2>3 DEF SetSema, SemaFutureChannel!Fulfil, SemaFutureChannel!Reached
  <2>4. CallsOnce'
    BY <2>1, <2>3 DEF CallsOnce, TypeOK
  <2> QED
    BY <2>2, <2>4
<1>4. ASSUME NEW f \in Files, SemaReady(f)
      PROVE  EditsOnce' /\ CallsOnce'
  <2> DEFINE e == building[f]
  <2>1. e \in Edits /\ note[e] = "none" /\ pc[e[1]] \notin Before(e[2])
    BY <1>4 DEF SemaReady, EditsOnce, TypeOK
  <2>2. \A g \in Files : building'[g] # None => building'[g] = building[g] /\ building[g] # e
    BY <1>4, <2>1 DEF SemaReady, FileInv, TypeOK
  <2>3. /\ UNCHANGED <<pc, channelVars>>
        /\ \A d \in Edits : d # e => note'[d] = note[d]
        /\ note'[e] \in {"main", "none"}
    BY <1>4, <2>1 DEF SemaReady, TypeOK
  <2>4. \A g \in Files : building'[g] # None => building'[g] \in Edits
    BY <2>2 DEF TypeOK
  <2>5. \A d \in Edits : d # None
    BY DiagnosticsAssumption
  <2> HIDE DEF e
  <2>6. EditsOnce'
    BY <2>1, <2>2, <2>3, <2>4, <2>5 DEF EditsOnce
  <2>7. CallsOnce'
    BY <2>1, <2>3 DEF CallsOnce
  <2> QED
    BY <2>6, <2>7
<1>5. CASE SourceKitDown
  BY <1>5, DiagnosticsAssumption DEF SourceKitDown, EditsOnce, CallsOnce
<1>6. CASE OnInterrupt
  BY <1>6 DEF OnInterrupt, EditsOnce, CallsOnce
<1> QED
  BY <1>2, <1>3, <1>4, <1>5, <1>6 DEF Receiver

\* Edits, notifications and calls of the channel happen once each.
LEMMA Once == Spec => [](EditsOnce /\ CallsOnce)
<1> DEFINE Inv == EditsOnce /\ CallsOnce
<1>1. TypeOK /\ FileInv /\ Inv /\ [Next]_vars => Inv'
  <2>1. Inv /\ UNCHANGED vars => Inv'
    BY DEF vars, EditsOnce, CallsOnce, requestVars, sourcekitVars,
           receiverVars, channelVars
  <2> QED
    BY <2>1, BlockOnce, OtherOnce DEF Next
<1> QED
  BY InitOnce, <1>1, TypeCorrect, DocumentsAgree, PTL DEF Spec

\* No call of SemaFutureChannel is held up for any other reason than a value
\* that has not been set: what PromiseChannel requires of its callers, one
\* future() per promise, one get() and one set() per value, DiagnosticsForFile
\* and NotificationReceiver always respect.
THEOREM ChannelAdmits == Spec => []CallsAdmitted
<1>1. CallsOnce => CallsAdmitted
  BY DEF CallsOnce, CallsAdmitted
<1> QED
  BY <1>1, Once, PTL

\* DiagnosticsForFile and NotificationReceiver touch the channel through its
\* operations only, so that every promise of PromiseChannel, which
\* FutureChannel implements, holds of the diagnostics path.
THEOREM UsesChannel == Spec => SemaFutureChannel!Spec
<1>1. Init => SemaFutureChannel!Init
  BY DEF Init
<1>2. [Next]_vars => [SemaFutureChannel!Next]_(SemaFutureChannel!vars)
  <2> SUFFICES ASSUME [Next]_vars
               PROVE  SemaFutureChannel!Next \/ UNCHANGED SemaFutureChannel!vars
    OBVIOUS
  <2> USE DEF channelVars
  <2>1. ASSUME UNCHANGED <<file, channelVars>>
        PROVE  UNCHANGED SemaFutureChannel!vars
    BY <2>1 DEF SemaFutureChannel!vars
  <2>2. ASSUME NEW r \in Requests, HandleRequest(r) \/ Block(r)
        PROVE  SemaFutureChannel!Next \/ UNCHANGED <<file, channelVars>>
    BY <2>2 DEF Block, HandleRequest, StartBlock, CreateService, EditorOpen,
       EditorReplaceText, ReturnEmpty, RegisterFuture, FutureGet,
       SemaFutureChannel!Next
  <2>3. ASSUME NEW e \in Edits, Receiver(e)
        PROVE  SemaFutureChannel!Next \/ UNCHANGED <<file, channelVars>>
    BY <2>3 DEF Receiver, OnNotification, StartReceiver, ReturnUnnamed,
       FetchSema, SetSema, SemaFutureChannel!Next
  <2> QED
    BY <2>1, <2>2, <2>3 DEF Next, SemaReady, SourceKitDown, OnInterrupt, vars
<1> QED
  BY <1>1, <1>2, PTL DEF Spec, SemaFutureChannel!Spec
=============================================================================

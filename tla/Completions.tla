---------------------------- MODULE Completions ----------------------------
(***************************************************************************)
(* SwiftCompleter::CandidatesForLocationInFile: CompletionOpen and then    *)
(* CompletionUpdate, each of which works out text and offset again with    *)
(* GetOffset (CompletionOffset), sends them to sourcekitd and waits for    *)
(* the reply.  sourcekitd is external: either request may fail, and an     *)
(* update has results only for a completion session opened at its offset.  *)
(* Nothing ever closes a session.                                          *)
(***************************************************************************)
EXTENDS CompletionOffset

CONSTANT None  \* absent value

EmptyResponse == "empty"
Uids == {"open", "update"}

ASSUME CompletionsAssumption == None \notin Uids \cup {EmptyResponse}

VARIABLES
  stage,     \* "open", "update", "return" or "returned"
  session,   \* the offset of the completion session in sourcekitd
  sent,      \* per request, what was sent, and whether it had results
  response,  \* whose results *oresponse holds
  answer     \* what CandidatesForLocationInFile returned

callVars == <<stage, session, sent, response, answer>>

CallInit ==
  /\ Init
  /\ stage = "open"
  /\ session = None
  /\ sent = [uid \in Uids |-> None]
  /\ response = None
  /\ answer = None

\* A step of the GetOffset the request under way has called.
GetOffset == stage \in Uids /\ Next /\ UNCHANGED callVars

\* What sourcekitd may do with a request: an open makes a session.
Accepts(uid) == uid = "open" \/ session = offset

\* The handler of an error leaves *oresponse.  Mutant: it clears it.
OnError_Clear == None
OnError == response

\* CodeCompleteRequest and SendRequestSync, with the handler they are given.
CodeCompleteRequest(uid, ok) ==
  /\ stage = uid /\ pc = "done"
  /\ ok => Accepts(uid)
  /\ sent' = [sent EXCEPT ![uid] =
                [offset |-> offset, text |-> CleanFile, ok |-> ok]]
  /\ response' = IF ok THEN uid ELSE OnError
  /\ session' = IF ok THEN offset ELSE session
  /\ UNCHANGED <<input, answer>>

\* CompletionUpdate has its own offset and CleanFile.  Mutant: it is passed
\* those of CompletionOpen.
Outputs_Shared == UNCHANGED <<CleanFile, offset>>
Outputs == CleanFile' = <<>> /\ offset' = 0

NewLocals ==
  /\ Outputs
  /\ pc' = "assert" /\ pos' = 1 /\ someLine' = <<>>
  /\ currentLine' = 0 /\ i' = 0

CompletionOpen ==
  /\ \E ok \in BOOLEAN : CodeCompleteRequest("open", ok)
  /\ stage' = "update"
  /\ NewLocals

CompletionUpdate ==
  /\ \E ok \in BOOLEAN : CodeCompleteRequest("update", ok)
  /\ stage' = "return"
  /\ UNCHANGED vars

Return ==
  /\ stage = "return"
  /\ stage' = "returned"
  /\ answer' = IF response = None THEN EmptyResponse ELSE response
  /\ UNCHANGED <<vars, session, sent, response>>

CallNext == GetOffset \/ CompletionOpen \/ CompletionUpdate \/ Return

\* The block's thread keeps running, and sourcekitd answers a synchronous
\* request, if only with an error.
CallSpec ==
  /\ CallInit
  /\ [][CallNext]_<<vars, callVars>>
  /\ WF_<<vars, callVars>>(CallNext)

-----------------------------------------------------------------------------
(* Properties *)

\* CompletionUpdate asks about the text and the place CompletionOpen opened
\* its session for, although it computes them anew: else it finds none.
SameQuestion ==
  sent["update"] # None =>
    /\ sent["update"].offset = sent["open"].offset
    /\ sent["update"].text = sent["open"].text

\* The candidates returned are the latest there are: the update's if it had
\* results, else the open's, and the literal only if both failed.
BestAnswer ==
  answer # None =>
    answer = IF sent["update"].ok THEN "update"
             ELSE IF sent["open"].ok THEN "open" ELSE EmptyResponse

\* Whatever the line and the column, also negative ones that wrap around,
\* CandidatesForLocationInFile returns, or GetOffset's assertion fails.
Returns == <>(answer # None \/ pc = "aborted")
=============================================================================

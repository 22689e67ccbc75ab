--------------------------- MODULE ResponseCopies ---------------------------
(***************************************************************************)
(* What a session may rely on when it hands a response to write(): copies  *)
(* of it go out one after the other, and then onWrite is called.  All of   *)
(* them but the last are the response as it was written.  The last one may *)
(* have a body of other bytes ("torn"); if it is not the first, it may     *)
(* also be of another length than its header says ("misframed").           *)
(***************************************************************************)
EXTENDS Sequences

VARIABLES copies,  \* the form of each copy that went out, oldest first
          done     \* onWrite has been called

Init == copies = <<>> /\ done = FALSE

\* What the last copy may look like, if some went out before, or if none did.
Forms(before) ==
  {"intact", "torn"} \cup (IF before = <<>> THEN {} ELSE {"misframed"})

\* A copy is out, and another one follows.
Again ==
  /\ ~done
  /\ copies' = Append(copies, "intact")
  /\ UNCHANGED done

\* The last copy is out.
Last ==
  /\ ~done /\ done' = TRUE
  /\ \E form \in Forms(copies) : copies' = Append(copies, form)

\* The write fails in the middle of a copy, which does not count: the client
\* is gone, or the memory the rest is read from is.
Fail == ~done /\ done' = TRUE /\ UNCHANGED copies

Next == Again \/ Last \/ Fail

Spec == Init /\ [][Next]_<<copies, done>>
=============================================================================

------------------------------ MODULE MCServer ------------------------------
(* Small instances of Server for TLC. *)
EXTENDS Server, TLC

\* What waits for a notification, what waits for a reply of sourcekitd, what
\* waits for neither and ends the process, and what is not HTTP.
Requests ==
  {[url |-> u, body |-> "good"] :
     u \in {"/diagnostics", "/completions", "/shutdown", "malformed"}}

\* Connections are interchangeable.
Symmetry == Permutations(Sessions)
=============================================================================

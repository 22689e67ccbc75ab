---------------------------- MODULE MCDiagnostics ----------------------------
(* Small instances of Diagnostics for TLC. *)
EXTENDS Diagnostics, TLC

\* Requests are interchangeable, and so are documents with a name.
Symmetry == Permutations(Requests) \cup Permutations(Files \ {Unnamed})
=============================================================================

-------------------------- MODULE MCPrintComponent --------------------------
(* PrintComponent with small constants. *)
EXTENDS PrintComponent, TLC

\* Requests and process ids are interchangeable: no property is temporal.
Symmetry == Permutations(Calls) \cup Permutations(Procs)
=============================================================================

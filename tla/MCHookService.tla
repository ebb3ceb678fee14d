---------------------------- MODULE MCHookService ----------------------------
(* Small instances of HookService: two processes, so that a restart overlaps *)
(* the end of the one before it, and room for one host too many.             *)
EXTENDS HookService, TLC

Symmetric == Permutations(Processes) \cup Permutations(Hosts)
=============================================================================

--------------------------- MODULE MC_ProcNotify ---------------------------
(* ProcNotify for TLC. *)
EXTENDS ProcNotify, TLC

Symmetry == Permutations(Callers) \cup Permutations(Procs)
=============================================================================

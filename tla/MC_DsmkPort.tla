---------------------------- MODULE MC_DsmkPort ----------------------------
(* DsmkPort for TLC: processes and worker threads are interchangeable. *)
EXTENDS DsmkPort, TLC

Symmetry == Permutations(Procs) \cup Permutations(Workers)
=============================================================================

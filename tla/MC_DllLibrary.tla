--------------------------- MODULE MC_DllLibrary ---------------------------
(* DllLibrary for TLC. *)
EXTENDS DllLibrary, TLC

Symmetry == Permutations(Threads)
=============================================================================

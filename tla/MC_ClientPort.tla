--------------------------- MODULE MC_ClientPort ---------------------------
(* ClientPort for TLC. *)
EXTENDS ClientPort, TLC

Symmetry == Permutations(Clients)
=============================================================================

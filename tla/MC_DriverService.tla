-------------------------- MODULE MC_DriverService --------------------------
(* DriverService for TLC. *)
EXTENDS DriverService, TLC

Symmetry == Permutations(Clients)
=============================================================================

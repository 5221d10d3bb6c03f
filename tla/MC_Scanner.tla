----------------------------- MODULE MC_Scanner -----------------------------
(* Scanner for TLC. *)
EXTENDS Scanner

MCFiles == UNION {[1..n -> Cells] : n \in 0..3}
MCRests == {[i \in 1..3 |-> "other"]}
=============================================================================

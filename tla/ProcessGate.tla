----------------------------- MODULE ProcessGate -----------------------------
(***************************************************************************)
(* What process monitoring promises, without the port, the worker threads  *)
(* or the driver's life: a process that is being created may be referred   *)
(* to the user; its creation is refused only for a process for which the   *)
(* user answered "kill"; in every other case (monitoring off, nobody at    *)
(* the port, the answer lost) it is admitted.  A refusal is final.         *)
(*                                                                         *)
(* DsmkPort implements this module.                                        *)
(***************************************************************************)
CONSTANT Procs   \* the processes whose creation is observed

VARIABLES gate,   \* gate[p]: how far the creation of p has come
          killed  \* the processes for which the user pressed OK ("kill")

vars == <<gate, killed>>

Gates == {"none", "pending", "admitted", "denied", "gone"}

TypeOK == /\ gate \in [Procs -> Gates]
          /\ killed \subseteq Procs

Init == /\ gate = [p \in Procs |-> "none"]
        /\ killed = {}

\* The creation of p is referred to the user.
Refer(p) == /\ gate[p] = "none"
            /\ gate' = [gate EXCEPT ![p] = "pending"]
            /\ UNCHANGED killed

\* The user asks for p to be killed.  The dialog may outlive the question it
\* was opened for, so the answer may also come when p is past the gate.
Kill(p) == /\ gate[p] # "none"
           /\ killed' = killed \cup {p}
           /\ UNCHANGED gate

Admit(p) == /\ gate[p] \in {"none", "pending"}
            /\ gate' = [gate EXCEPT ![p] = "admitted"]
            /\ UNCHANGED killed

Deny(p) == /\ gate[p] = "pending"
           /\ p \in killed
           /\ gate' = [gate EXCEPT ![p] = "denied"]
           /\ UNCHANGED killed

Leave(p) == /\ gate[p] \in {"admitted", "denied"}
            /\ gate' = [gate EXCEPT ![p] = "gone"]
            /\ UNCHANGED killed

Next == \E p \in Procs : Refer(p) \/ Kill(p) \/ Admit(p) \/ Deny(p) \/ Leave(p)

Spec == Init /\ [][Next]_vars
=============================================================================

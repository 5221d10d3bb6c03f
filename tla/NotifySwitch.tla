---------------------------- MODULE NotifySwitch ----------------------------
(***************************************************************************)
(* What procmon_on and procmon_off promise about the process-notify        *)
(* routine (callbacks_ps.c), each as few steps as its caller can tell      *)
(* apart: turning on is one step; turning off is two, since the removal    *)
(* keeps new callbacks out at once and returns when those that run have    *)
(* ended.  Callbacks start only while the routine is registered, and the   *)
(* flag is set from the registration to the end of the removal.            *)
(*                                                                         *)
(* DsmkPort implements this module; ProcNotify, which has a step for each  *)
(* test, kernel call and write, does so until two commands overlap.        *)
(***************************************************************************)
CONSTANT Procs   \* processes with a callback that may run

VARIABLES flag,        \* gProcessNotifyRegistered
          registered,  \* the kernel has the routine
          running      \* the processes whose callback runs

vars == <<flag, registered, running>>

Init == /\ flag = FALSE /\ registered = FALSE
        /\ running = {}

TurnOn == /\ ~flag
          /\ flag' = TRUE /\ registered' = TRUE
          /\ UNCHANGED running

TurnOff == /\ flag /\ registered
           /\ registered' = FALSE
           /\ UNCHANGED <<flag, running>>

OffReturns == /\ flag /\ ~registered /\ running = {}
              /\ flag' = FALSE
              /\ UNCHANGED <<registered, running>>

CallbackStarts(p) == /\ registered /\ p \notin running
                     /\ running' = running \cup {p}
                     /\ UNCHANGED <<flag, registered>>

CallbackEnds(p) == /\ p \in running
                   /\ running' = running \ {p}
                   /\ UNCHANGED <<flag, registered>>

Next == \/ TurnOn \/ TurnOff \/ OffReturns
        \/ \E p \in Procs : CallbackStarts(p) \/ CallbackEnds(p)

Spec == Init /\ [][Next]_vars
=============================================================================

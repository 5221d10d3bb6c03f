----------------------------- MODULE ProcNotify -----------------------------
(***************************************************************************)
(* DrvInitializeProcNotify and DrvUninitializeProcNotify (callbacks_ps.c)  *)
(* step by step: gProcessNotifyRegistered is read, the kernel is called,   *)
(* the flag is written, and no lock spans the three.  The callers are the  *)
(* threads whose commands ClientReceiveMessage runs; test1 has one, a      *)
(* program of its own on dll1 may call DexToggleProcessMonitoring from     *)
(* several at once (overlapped).  The kernel is external:                  *)
(* PsSetCreateProcessNotifyRoutineEx refuses a routine it already has, its *)
(* removal fails when it does not have it, and otherwise returns when the  *)
(* callbacks that were running have.                                       *)
(***************************************************************************)
CONSTANTS Callers,   \* threads with a command in the driver
          Procs      \* processes with a callback that may run

VARIABLES
  gProcessNotifyRegistered,
  registered,  \* the kernel has the routine
  running,     \* the processes whose callback runs
  pc,          \* pc[c]: where the command of c stands
  waits,       \* waits[c]: the callbacks the removal by c waits for
  outcome,     \* outcome[c]: what the last command of c came to
  bugcheck,    \* the system has stopped
  overlapped   \* history: a command has begun while another was in progress

kernelVars == <<registered, running, waits>>
vars == <<gProcessNotifyRegistered, kernelVars, pc, outcome, bugcheck, overlapped>>

Places   == {"idle", "registering", "registered", "removing", "draining", "removed"}
Outcomes == {"none", "on", "already", "failed", "off"}

TypeOK ==
  /\ gProcessNotifyRegistered \in BOOLEAN /\ registered \in BOOLEAN /\ bugcheck \in BOOLEAN
  /\ overlapped \in BOOLEAN
  /\ running \subseteq Procs
  /\ pc \in [Callers -> Places]
  /\ waits \in [Callers -> SUBSET Procs]
  /\ outcome \in [Callers -> Outcomes]

Init ==
  /\ gProcessNotifyRegistered = FALSE /\ registered = FALSE /\ bugcheck = FALSE
  /\ running = {}
  /\ pc = [c \in Callers |-> "idle"]
  /\ waits = [c \in Callers |-> {}]
  /\ outcome = [c \in Callers |-> "none"]
  /\ overlapped = FALSE

Up == ~bugcheck /\ UNCHANGED bugcheck

Quiescent == \A c \in Callers : pc[c] = "idle"

\* A command arrives for c.
Begins(c) == pc[c] = "idle" /\ overlapped' = (overlapped \/ ~Quiescent)

\* The command of c is at that place.
At(c, place) == pc[c] = place /\ UNCHANGED overlapped

Goes(c, place) == pc' = [pc EXCEPT ![c] = place]

Returns(c, result) ==
  /\ Goes(c, "idle")
  /\ outcome' = [outcome EXCEPT ![c] = result]

(***************************************************************************)
(* cmdEnableProcmon                                                        *)
(***************************************************************************)
\* Variant with a defect: the status is not one the callers know.
EnableAlreadyExists(c) ==
  /\ Up
  /\ Begins(c) /\ gProcessNotifyRegistered
  /\ Returns(c, "exists")
  /\ UNCHANGED <<gProcessNotifyRegistered, kernelVars>>

\* STATUS_OBJECT_NAME_EXISTS
EnableAlready(c) ==
  /\ Up
  /\ Begins(c) /\ gProcessNotifyRegistered
  /\ Returns(c, "already")
  /\ UNCHANGED <<gProcessNotifyRegistered, kernelVars>>

Enable(c) ==
  /\ Up
  /\ Begins(c) /\ ~gProcessNotifyRegistered
  /\ Goes(c, "registering")
  /\ UNCHANGED <<gProcessNotifyRegistered, kernelVars, outcome>>

PsSetRegister(c) ==
  /\ Up
  /\ At(c, "registering") /\ ~registered
  /\ registered' = TRUE
  /\ Goes(c, "registered")
  /\ UNCHANGED <<gProcessNotifyRegistered, running, waits, outcome>>

\* Variant with a defect: the flag is set whatever the kernel said.
PsSetRegisterFailsFlagSet(c) ==
  /\ ~bugcheck
  /\ At(c, "registering")
  /\ gProcessNotifyRegistered' = TRUE
  /\ Returns(c, "failed")
  /\ bugcheck' \in BOOLEAN
  /\ UNCHANGED kernelVars

\* The call may fail also for want of a free slot.  LOG then formats the status
\* with %s: the read of that string is survived, or it stops the system.
PsSetRegisterFails(c) ==
  /\ ~bugcheck
  /\ At(c, "registering")
  /\ Returns(c, "failed")
  /\ bugcheck' \in BOOLEAN
  /\ UNCHANGED <<gProcessNotifyRegistered, kernelVars>>

SetFlag(c) ==
  /\ Up
  /\ At(c, "registered")
  /\ gProcessNotifyRegistered' = TRUE
  /\ Returns(c, "on")
  /\ UNCHANGED kernelVars

(***************************************************************************)
(* cmdDisableProcmon                                                       *)
(***************************************************************************)
DisableAlready(c) ==
  /\ Up
  /\ Begins(c) /\ ~gProcessNotifyRegistered
  /\ Returns(c, "off")
  /\ UNCHANGED <<gProcessNotifyRegistered, kernelVars>>

\* Variant with a defect: the flag is not looked at.
DisableAlways(c) ==
  /\ Up
  /\ Begins(c)
  /\ Goes(c, "removing")
  /\ UNCHANGED <<gProcessNotifyRegistered, kernelVars, outcome>>

Disable(c) ==
  /\ Up
  /\ Begins(c) /\ gProcessNotifyRegistered
  /\ Goes(c, "removing")
  /\ UNCHANGED <<gProcessNotifyRegistered, kernelVars, outcome>>

PsSetRemove(c) ==
  /\ Up
  /\ At(c, "removing") /\ registered
  /\ registered' = FALSE
  /\ waits' = [waits EXCEPT ![c] = running]
  /\ Goes(c, "draining")
  /\ UNCHANGED <<gProcessNotifyRegistered, running, outcome>>

PsSetRemoveFails(c) ==
  /\ Up
  /\ At(c, "removing") /\ ~registered
  /\ Goes(c, "removed")
  /\ UNCHANGED <<gProcessNotifyRegistered, kernelVars, outcome>>

PsSetRemoveReturns(c) ==
  /\ Up
  /\ At(c, "draining") /\ waits[c] = {}
  /\ Goes(c, "removed")
  /\ UNCHANGED <<gProcessNotifyRegistered, kernelVars, outcome>>

\* The flag is cleared whatever the removal returned.
ClearFlag(c) ==
  /\ Up
  /\ At(c, "removed")
  /\ gProcessNotifyRegistered' = FALSE
  /\ Returns(c, "off")
  /\ UNCHANGED kernelVars

(***************************************************************************)
(* Callbacks                                                               *)
(***************************************************************************)
CallbackStarts(p) ==
  /\ Up
  /\ registered /\ p \notin running
  /\ running' = running \cup {p}
  /\ UNCHANGED <<gProcessNotifyRegistered, registered, waits, pc, outcome, overlapped>>

CallbackEnds(p) ==
  /\ Up
  /\ p \in running
  /\ running' = running \ {p}
  /\ waits' = [c \in Callers |-> waits[c] \ {p}]
  /\ UNCHANGED <<gProcessNotifyRegistered, registered, pc, outcome, overlapped>>

Step(c) ==
  \/ PsSetRegister(c) \/ PsSetRegisterFails(c) \/ SetFlag(c)
  \/ PsSetRemove(c) \/ PsSetRemoveFails(c) \/ PsSetRemoveReturns(c) \/ ClearFlag(c)

Next ==
  \/ \E c \in Callers : EnableAlready(c) \/ Enable(c) \/ DisableAlready(c) \/ Disable(c) \/ Step(c)
  \/ \E p \in Procs : CallbackStarts(p) \/ CallbackEnds(p)

Spec == Init /\ [][Next]_vars

(***************************************************************************)
(* Properties                                                              *)
(***************************************************************************)
\* The flag as it will be when the command that has registered returns.
FlagToBe == gProcessNotifyRegistered \/ \E c \in Callers : pc[c] = "registered"

Switch == INSTANCE NotifySwitch WITH flag <- FlagToBe

\* As long as commands come one at a time, the tests, kernel calls and writes
\* of the two functions amount to the single steps of NotifySwitch: flag and
\* registration change together, and the flag is not cleared before the last
\* callback has ended.
SwitchUntilOverlap ==
  Switch!Init /\ [][~overlapped' => [Switch!Next]_(Switch!vars)]_vars

\* As long as commands have come one at a time, the flag says between them
\* what the kernel has.
FlagTracksKernel ==
  ~overlapped /\ Quiescent => gProcessNotifyRegistered = registered

\* As long as they have, no callback runs and none will start when no command
\* is in progress and the flag is clear.
OffMeansQuiet ==
  ~overlapped /\ Quiescent /\ ~gProcessNotifyRegistered => ~registered /\ running = {}

\* The kernel has the routine, the flag says otherwise, and no command is past
\* the point where it would still set it right.
Orphaned ==
  /\ registered /\ ~gProcessNotifyRegistered
  /\ \A c \in Callers : pc[c] \in {"idle", "registering"}

\* Commands that overlap can leave monitoring orphaned, and then no sequence of
\* procmon_on and procmon_off, however issued, turns it off again.
OrphanedForEver == [][Orphaned => Orphaned']_vars

\* "already initialized" is only logged when the routine is registered, or
\* while another command is in progress.
AlreadyMeansRegistered ==
  [][\A c \in Callers :
       Quiescent /\ EnableAlready(c) => registered]_vars
=============================================================================

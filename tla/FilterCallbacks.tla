-------------------------- MODULE FilterCallbacks --------------------------
(***************************************************************************)
(* What the filter manager calls in the driver for the files and volumes   *)
(* of the system (minifilter_callbacks.c, registered in driver1.c): the    *)
(* instances on the volumes, PreOperation and PostOperation of the         *)
(* creates, the only operation registered, and DriverUnload with the       *)
(* teardown of every instance; and the registry callback, there until      *)
(* RfUnload, which like PostOperation uses a name without looking whether  *)
(* it was given one.                                                       *)
(*                                                                         *)
(* The filter manager is external: operations below an instance that is    *)
(* torn down are drained, PostOperation is called for them then, and the   *)
(* teardown is complete when no callback for the instance runs.  A name    *)
(* information is freed with its last reference.                           *)
(***************************************************************************)
EXTENDS Naturals, FiniteSets

CONSTANTS Volumes,
          Ops,      \* threads that open a file
          Files

ConstantsOK == IsFiniteSet(Ops)

VARIABLES
  filter,    \* where DriverUnload, then RfUnload, stands
  inst,      \* inst[v]: the instance on volume v
  op,        \* op[o]: where the create of o stands
  on,        \* on[o]: its volume
  file,      \* file[o]: its file
  refs,      \* refs[f]: references to the name information of f
  unnamed,   \* history: a query for a name has failed
  bugcheck   \* the system has stopped

opVars == <<op, on, file>>
vars == <<filter, inst, opVars, refs, unnamed, bugcheck>>

Filters == {"on", "closing", "tearing", "gone", "unloaded"}
Insts   == {"none", "attached", "tearing"}
Places  == {"idle", "below", "named", "used", "unnamed", "strayed"}

TypeOK ==
  /\ filter \in Filters
  /\ inst \in [Volumes -> Insts]
  /\ op \in [Ops -> Places] /\ on \in [Ops -> Volumes] /\ file \in [Ops -> Files]
  /\ refs \in [Files -> Nat]
  /\ unnamed \in BOOLEAN /\ bugcheck \in BOOLEAN

\* FltStartFiltering has returned.
Init ==
  /\ filter = "on"
  /\ inst = [v \in Volumes |-> "none"]
  /\ op = [o \in Ops |-> "idle"] /\ on \in [Ops -> Volumes] /\ file \in [Ops -> Files]
  /\ refs = [f \in Files |-> 0]
  /\ unnamed = FALSE /\ bugcheck = FALSE

Up == ~bugcheck /\ UNCHANGED bugcheck

\* The system may stop; it runs on or it does not.
MayStop == ~bugcheck /\ bugcheck' \in BOOLEAN

Goes(o, place) == op' = [op EXCEPT ![o] = place] /\ UNCHANGED <<on, file>>

(***************************************************************************)
(* Instances                                                               *)
(***************************************************************************)
\* Every volume gets one.
InstanceSetup(v) ==
  /\ Up
  /\ filter = "on" /\ inst[v] = "none"
  /\ inst' = [inst EXCEPT ![v] = "attached"]
  /\ UNCHANGED <<filter, opVars, refs, unnamed>>

\* A detach is never refused; a dismount does not ask.
InstanceQueryTeardown(v) ==
  /\ Up
  /\ filter \in {"on", "closing"} /\ inst[v] = "attached"
  /\ inst' = [inst EXCEPT ![v] = "tearing"]
  /\ UNCHANGED <<filter, opVars, refs, unnamed>>

InstanceTeardownComplete(v) ==
  /\ Up
  /\ inst[v] = "tearing" /\ \A o \in Ops : on[o] = v => op[o] = "idle"
  /\ inst' = [inst EXCEPT ![v] = "none"]
  /\ UNCHANGED <<filter, opVars, refs, unnamed>>

(***************************************************************************)
(* A create                                                                *)
(***************************************************************************)
\* Passed on with a callback; a create is none of the operations for which
\* DoRequestOperationStatus wants the status.
PreOperation(o, v, f) ==
  /\ Up
  /\ op[o] = "idle" /\ inst[v] = "attached"
  /\ op' = [op EXCEPT ![o] = "below"]
  /\ on' = [on EXCEPT ![o] = v] /\ file' = [file EXCEPT ![o] = f]
  /\ UNCHANGED <<filter, inst, refs, unnamed>>

\* Variant with a defect: the failed create is pended and nobody resumes it.
PostOperationPends(o) ==
  /\ Up
  /\ op[o] = "below"
  /\ Goes(o, "pended")
  /\ UNCHANGED <<filter, inst, refs, unnamed>>

\* The create has failed, or is to be reparsed.
PostOperationSkips(o) ==
  /\ Up
  /\ op[o] = "below"
  /\ Goes(o, "idle")
  /\ UNCHANGED <<filter, inst, refs, unnamed>>

\* FltGetFileNameInformation gives a reference.  The flag that says the
\* operation is only being drained is not looked at.
QueryName(o) ==
  /\ Up
  /\ op[o] = "below"
  /\ Goes(o, "named")
  /\ refs' = [refs EXCEPT ![file[o]] = @ + 1]
  /\ UNCHANGED <<filter, inst, unnamed>>

\* fileNameInfo keeps what the stack held.
QueryNameFails(o) ==
  /\ Up
  /\ op[o] = "below"
  /\ Goes(o, "unnamed")
  /\ unnamed' = TRUE
  /\ UNCHANGED <<filter, inst, refs>>

\* wcswcs reads the name.
UseName(o) ==
  /\ MayStop /\ (refs[file[o]] > 0 => ~bugcheck')
  /\ op[o] = "named"
  /\ Goes(o, "used")
  /\ UNCHANGED <<filter, inst, refs, unnamed>>

\* Variant with a defect: only the name of a text file is released.
ReleaseTextNameOnly(o) ==
  /\ Up
  /\ op[o] = "used"
  /\ Goes(o, "idle")
  /\ UNCHANGED <<filter, inst, unnamed>>
  /\ \/ refs' = [refs EXCEPT ![file[o]] = @ - 1]
     \/ UNCHANGED refs

\* Variant with a defect: the release is repeated on the way out.
ReleaseNameTwice(o) ==
  /\ MayStop /\ (refs[file[o]] > 0 => ~bugcheck')
  /\ op[o] = "used"
  /\ Goes(o, "idle")
  /\ refs' = [refs EXCEPT ![file[o]] = IF @ > 1 THEN @ - 2 ELSE 0]
  /\ UNCHANGED <<filter, inst, unnamed>>

\* FltReleaseFileNameInformation
ReleaseName(o) ==
  /\ MayStop /\ (refs[file[o]] > 0 => ~bugcheck')
  /\ op[o] = "used"
  /\ Goes(o, "idle")
  /\ refs' = [refs EXCEPT ![file[o]] = IF @ > 0 THEN @ - 1 ELSE 0]
  /\ UNCHANGED <<filter, inst, unnamed>>

\* The pointer may lead anywhere.
UseNoName(o) ==
  /\ MayStop
  /\ op[o] = "unnamed"
  /\ Goes(o, "strayed")
  /\ UNCHANGED <<filter, inst, refs, unnamed>>

\* What is released is nothing, or a name an earlier call left on the stack.
ReleaseNoName(o) ==
  /\ MayStop
  /\ op[o] = "strayed"
  /\ Goes(o, "idle")
  /\ UNCHANGED <<filter, inst, unnamed>>
  /\ \/ UNCHANGED refs
     \/ \E f \in Files : refs[f] > 0 /\ refs' = [refs EXCEPT ![f] = @ - 1]

\* RfRegistryCallback, when a value is deleted: CmCallbackGetKeyObjectID is
\* given a cookie of its own instead of g_CmCookie; its status is not looked at
\* and objectName is read.  With a name it is only logged.
RegNtPreDeleteValueKey ==
  /\ MayStop
  /\ filter # "unloaded"
  /\ unnamed' = TRUE
  /\ UNCHANGED <<filter, inst, opVars, refs>>

(***************************************************************************)
(* DriverUnload: UninitializeCommunication, then FltUnregisterFilter; and  *)
(* when it has returned, RfUnload                                          *)
(***************************************************************************)
UninitializeCommunication ==
  /\ Up
  /\ filter = "on"
  /\ filter' = "closing"
  /\ UNCHANGED <<inst, opVars, refs, unnamed>>

FltUnregisterFilter ==
  /\ Up
  /\ filter = "closing"
  /\ filter' = "tearing"
  /\ inst' = [v \in Volumes |-> IF inst[v] = "none" THEN "none" ELSE "tearing"]
  /\ UNCHANGED <<opVars, refs, unnamed>>

Unregistered ==
  /\ Up
  /\ filter = "tearing" /\ \A v \in Volumes : inst[v] = "none"
  /\ filter' = "gone"
  /\ UNCHANGED <<inst, opVars, refs, unnamed>>

\* CmUnRegisterCallback
RfUnload ==
  /\ Up
  /\ filter = "gone"
  /\ filter' = "unloaded"
  /\ UNCHANGED <<inst, opVars, refs, unnamed>>

Callback(o) ==
  \/ QueryName(o) \/ QueryNameFails(o) \/ PostOperationSkips(o)
  \/ UseName(o) \/ ReleaseName(o) \/ UseNoName(o) \/ ReleaseNoName(o)

Next ==
  \/ \E v \in Volumes :
       \/ InstanceSetup(v) \/ InstanceQueryTeardown(v) \/ InstanceTeardownComplete(v)
       \/ \E o \in Ops, f \in Files : PreOperation(o, v, f)
  \/ \E o \in Ops : Callback(o)
  \/ RegNtPreDeleteValueKey
  \/ UninitializeCommunication \/ FltUnregisterFilter \/ Unregistered \/ RfUnload

Spec == Init /\ [][Next]_vars

(***************************************************************************)
(* Properties                                                              *)
(***************************************************************************)
Holders(f) == {o \in Ops : op[o] \in {"named", "used"} /\ file[o] = f}

\* A file's name information never has more references than there are
\* PostOperations between its query and its release, so none leaks, neither when
\* the teardown drains a create nor after a query that failed; and as long as
\* every query has succeeded it has one for each, so none is released twice.
NamesBalanced ==
  /\ \A f \in Files : refs[f] <= Cardinality(Holders(f))
  /\ ~unnamed => \A f \in Files : refs[f] = Cardinality(Holders(f))

\* The callbacks stop the system only after a query whose failure they did not
\* notice; however creates, detaches and the unload interleave, no callback
\* reads or releases a name that is gone.
StopsOnlyUnnamed == bugcheck => unnamed
=============================================================================

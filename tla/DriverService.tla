--------------------------- MODULE DriverService ---------------------------
(***************************************************************************)
(* Loading and unloading driver1: DriverEntry, DriverUnload and RfUnload   *)
(* (driver1.c) with each registration that can fail, and the two ways in:  *)
(* DexStartDriver, DexStopDriver and DexQueryDriver called by several      *)
(* programs, and the installation scripts.  dll1 exports two copies of the *)
(* three, under C names (public_api.cpp) and C++ names (dll1.cpp), which   *)
(* differ in the filter they stop.  The filter manager and the service     *)
(* control manager are external: they load or unload one driver at a time; *)
(* unloading the filter runs its unload callback and then the driver       *)
(* object's, stopping the service runs the driver object's alone, which    *)
(* DriverEntry has replaced by RfUnload.                                   *)
(***************************************************************************)
CONSTANTS Clients,  \* programs that call the library
          None      \* no program

ASSUME ServiceAssumption == None \notin Clients

Copies == {"public_api", "dll1"}

VARIABLES
  installed,  \* the service key of DRIVER1 exists
  drv,        \* where DriverEntry or the unload stands; "out": not in memory
  filter,     \* the filter manager's filter of that name
  cm,         \* the kernel has RfRegistryCallback
  port,       \* the filter manager has the server port
  left,       \* how the driver last left memory
  bugcheck,   \* the system has stopped
  owner,      \* the program whose FilterLoad or FilterUnload is under way
  pc,         \* pc[c]: where the call of c stands
  copy,       \* copy[c]: the copy of the functions c has called
  restart,    \* restart[c]: RestartIfRunning
  result      \* result[c]: what the last call of c returned

kernelRefs == <<filter, cm, port>>
callVars   == <<pc, copy, restart, result>>
vars == <<installed, drv, kernelRefs, left, bugcheck, owner, callVars>>

TypeOK ==
  /\ installed \in BOOLEAN /\ cm \in BOOLEAN /\ port \in BOOLEAN /\ bugcheck \in BOOLEAN
  /\ drv \in {"out", "register", "cmregister", "start", "comm", "in", "unload", "unregister", "rfunload"}
  /\ filter \in {"none", "registered", "filtering"}
  /\ left \in {"never", "failed", "filter", "service"}
  /\ owner \in Clients \cup {None}
  /\ pc \in [Clients -> {"idle", "query", "stop", "unloading", "load", "loading"}]
  /\ copy \in [Clients -> Copies]
  /\ restart \in [Clients -> BOOLEAN]
  /\ result \in [Clients -> {"none", "success", "unsuccessful"}]

Init ==
  /\ installed = TRUE /\ drv = "out"
  /\ filter = "none" /\ cm = FALSE /\ port = FALSE
  /\ left = "never" /\ bugcheck = FALSE
  /\ owner = None
  /\ pc = [c \in Clients |-> "idle"]
  /\ copy = [c \in Clients |-> "public_api"]
  /\ restart = [c \in Clients |-> FALSE]
  /\ result = [c \in Clients |-> "none"]

Up == ~bugcheck /\ UNCHANGED bugcheck

\* Nothing in the kernel points into the driver's image.
Clean == filter = "none" /\ ~cm /\ ~port

\* The call of c ends with status.
Returns(c, status) ==
  /\ pc' = [pc EXCEPT ![c] = "idle"]
  /\ result' = [result EXCEPT ![c] = status]
  /\ UNCHANGED <<copy, restart>>

Goes(c, place) ==
  /\ pc' = [pc EXCEPT ![c] = place]
  /\ UNCHANGED <<copy, restart, result>>

\* FilterLoad, whoever called it, returns what DriverEntry does.
LoadReturns(status) ==
  /\ owner' = None
  /\ IF owner = None THEN UNCHANGED callVars ELSE Returns(owner, status)

\* FilterUnload returns S_OK: a restart goes on to load.
UnloadReturns ==
  /\ owner' = None
  /\ \/ owner = None /\ UNCHANGED callVars
     \/ owner # None /\ restart[owner] /\ Goes(owner, "load")
     \/ owner # None /\ ~restart[owner] /\ Returns(owner, "success")

(***************************************************************************)
(* DriverEntry                                                             *)
(***************************************************************************)
RegisterFilter ==
  /\ Up
  /\ drv = "register"
  /\ drv' = "cmregister" /\ filter' = "registered"
  /\ UNCHANGED <<installed, cm, port, left, owner, callVars>>

\* FLT_ASSERT stops a checked build; otherwise DriverEntry goes on with a NULL
\* filter handle.
RegisterFilterFails ==
  /\ ~bugcheck
  /\ drv = "register"
  /\ drv' = "cmregister"
  /\ bugcheck' \in BOOLEAN
  /\ UNCHANGED <<installed, kernelRefs, left, owner, callVars>>

\* The driver object's unload routine is RfUnload from here on.
CmRegister ==
  /\ Up
  /\ drv = "cmregister"
  /\ drv' = "start" /\ cm' = TRUE
  /\ UNCHANGED <<installed, filter, port, left, owner, callVars>>

\* Without the registry callback filtering is not started.
CmRegisterFails ==
  /\ ~bugcheck
  /\ drv = "cmregister"
  /\ drv' = "comm"
  /\ bugcheck' \in BOOLEAN
  /\ UNCHANGED <<installed, kernelRefs, left, owner, callVars>>

StartFiltering ==
  /\ Up
  /\ drv = "start" /\ filter = "registered"
  /\ drv' = "comm" /\ filter' = "filtering"
  /\ UNCHANGED <<installed, cm, port, left, owner, callVars>>

\* Variant with a defect: DexStartDriver hands on what FilterLoad returned.
StartFilteringFailsRaw ==
  /\ Up
  /\ drv = "start" /\ filter = "registered"
  /\ drv' = "out" /\ left' = "failed" /\ filter' = "none"
  /\ LoadReturns("insufficient resources")
  /\ UNCHANGED <<installed, cm, port>>

\* The filter is unregistered and the load fails; the registry callback stays.
StartFilteringFails ==
  /\ Up
  /\ drv = "start" /\ filter = "registered"
  /\ drv' = "out" /\ left' = "failed" /\ filter' = "none"
  /\ LoadReturns("unsuccessful")
  /\ UNCHANGED <<installed, cm, port>>

\* InitializeCommunication.
CreatePort ==
  /\ Up
  /\ drv = "comm" /\ filter # "none"
  /\ drv' = "in" /\ port' = TRUE
  /\ LoadReturns("success")
  /\ UNCHANGED <<installed, filter, cm, left>>

\* The port, or the security descriptor built before a filter is needed.
\* NT_ASSERT(0) stops a checked build; otherwise the load succeeds all the same,
\* with no port and perhaps with no filter.
CreatePortFails ==
  /\ ~bugcheck
  /\ drv = "comm" /\ drv' = "in"
  /\ bugcheck' \in BOOLEAN
  /\ LoadReturns("success")
  /\ UNCHANGED <<installed, kernelRefs, left>>

\* FltStartFiltering or FltCreateCommunicationPort is handed a NULL filter.
UsesNullFilter ==
  /\ ~bugcheck
  /\ drv \in {"start", "comm"} /\ filter = "none"
  /\ bugcheck' = TRUE
  /\ UNCHANGED <<installed, drv, kernelRefs, left, owner, callVars>>

(***************************************************************************)
(* Unloading                                                               *)
(***************************************************************************)
\* driver_stop.cmd: fltmc unload driver1.
FltmcUnload ==
  /\ Up
  /\ drv = "in" /\ filter # "none" /\ drv' = "unload"
  /\ UNCHANGED <<installed, kernelRefs, left, owner, callVars>>

\* Variant with a defect: the server port is not closed.
UnloadPortKeepsPort ==
  /\ Up
  /\ drv = "unload"
  /\ drv' = "unregister"
  /\ UNCHANGED <<installed, kernelRefs, left, owner, callVars>>

\* DriverUnload, first half: UninitializeCommunication.
UnloadPort ==
  /\ Up
  /\ drv = "unload"
  /\ drv' = "unregister" /\ port' = FALSE
  /\ UNCHANGED <<installed, filter, cm, left, owner, callVars>>

\* Variant with a defect: FltUnregisterFilter is not called.
UnregisterFilterForgotten ==
  /\ Up
  /\ drv = "unregister"
  /\ drv' = "rfunload" /\ left' = "filter"
  /\ UNCHANGED <<installed, kernelRefs, owner, callVars>>

\* Second half: FltUnregisterFilter.
UnregisterFilter ==
  /\ Up
  /\ drv = "unregister"
  /\ drv' = "rfunload" /\ filter' = "none" /\ left' = "filter"
  /\ UNCHANGED <<installed, cm, port, owner, callVars>>

\* driver_uninstall.cmd stops the service before it deletes it (driver1.inf).
Uninstall ==
  /\ Up
  /\ drv = "in"
  /\ drv' = "rfunload" /\ left' = "service" /\ installed' = FALSE
  /\ UNCHANGED <<kernelRefs, owner, callVars>>

UninstallStopped ==
  /\ Up
  /\ drv = "out" /\ installed /\ installed' = FALSE
  /\ UNCHANGED <<drv, kernelRefs, left, owner, callVars>>

Install ==
  /\ Up
  /\ ~installed /\ installed' = TRUE
  /\ UNCHANGED <<drv, kernelRefs, left, owner, callVars>>

\* Then the image is unmapped.
RfUnload ==
  /\ Up
  /\ drv = "rfunload"
  /\ drv' = "out" /\ cm' = FALSE
  /\ UnloadReturns
  /\ UNCHANGED <<installed, filter, port, left>>

\* The next registry access, file creation or connection calls unmapped code.
CallsUnmappedImage ==
  /\ ~bugcheck
  /\ drv = "out" /\ ~Clean
  /\ bugcheck' = TRUE
  /\ UNCHANGED <<installed, drv, kernelRefs, left, owner, callVars>>

(***************************************************************************)
(* The library's calls                                                     *)
(***************************************************************************)
DexStartDriver(c, name, restartIfRunning) ==
  /\ Up
  /\ pc[c] = "idle"
  /\ pc' = [pc EXCEPT ![c] = "query"]
  /\ copy' = [copy EXCEPT ![c] = name]
  /\ restart' = [restart EXCEPT ![c] = restartIfRunning]
  /\ UNCHANGED <<installed, drv, kernelRefs, left, owner, result>>

\* DexStopDriver called by itself.
CallStop(c, name) ==
  /\ Up
  /\ pc[c] = "idle"
  /\ pc' = [pc EXCEPT ![c] = "stop"]
  /\ copy' = [copy EXCEPT ![c] = name]
  /\ restart' = [restart EXCEPT ![c] = FALSE]
  /\ UNCHANGED <<installed, drv, kernelRefs, left, owner, result>>

\* FilterCreate finds a registered filter, or fails for a reason of its own,
\* which counts as "not running".
DexQueryDriver(c) ==
  /\ Up
  /\ pc[c] = "query"
  /\ \E isRunning \in {filter # "none", FALSE} :
       \/ ~isRunning /\ Goes(c, "load")
       \/ isRunning /\ restart[c] /\ Goes(c, "stop")
       \/ isRunning /\ ~restart[c] /\ Returns(c, "success")
  /\ UNCHANGED <<installed, drv, kernelRefs, left, owner>>

\* Variant with a defect: the stop is tried again until it succeeds.
StopFsFilter1Retries(c) ==
  /\ Up
  /\ pc[c] = "stop" /\ copy[c] = "public_api"
  /\ UNCHANGED <<installed, drv, kernelRefs, left, owner, callVars>>

\* DexStopDriver of public_api.cpp, FilterUnload(L"FsFilter1"): there is no
\* filter of that name.
StopFsFilter1(c) ==
  /\ Up
  /\ pc[c] = "stop" /\ copy[c] = "public_api"
  /\ Returns(c, "unsuccessful")
  /\ UNCHANGED <<installed, drv, kernelRefs, left, owner>>

\* Variant with a defect: the stop does not wait for the unload.
StopDriver1NoWait(c) ==
  /\ Up
  /\ pc[c] = "stop" /\ copy[c] = "dll1" /\ drv = "in" /\ filter # "none"
  /\ drv' = "unload" /\ owner' = c
  /\ Returns(c, "success")
  /\ UNCHANGED <<installed, kernelRefs, left>>

\* DexStopDriver of dll1.cpp, FilterUnload(L"DRIVER1").
StopDriver1(c) ==
  /\ Up
  /\ pc[c] = "stop" /\ copy[c] = "dll1" /\ drv = "in" /\ filter # "none"
  /\ drv' = "unload" /\ owner' = c
  /\ Goes(c, "unloading")
  /\ UNCHANGED <<installed, kernelRefs, left>>

DexStopDriver(c) == StopFsFilter1(c) \/ StopDriver1(c)

\* Somebody else has unloaded it, it has no filter, or the filter manager refuses.
StopFails(c) ==
  /\ Up
  /\ pc[c] = "stop" /\ copy[c] = "dll1" /\ drv \in {"out", "in"}
  /\ Returns(c, "unsuccessful")
  /\ UNCHANGED <<installed, drv, kernelRefs, left, owner>>

\* FilterLoad: the image is mapped and its globals are zero.
FilterLoad(c) ==
  /\ Up
  /\ pc[c] = "load" /\ drv = "out" /\ installed /\ Clean
  /\ drv' = "register" /\ owner' = c
  /\ Goes(c, "loading")
  /\ UNCHANGED <<installed, kernelRefs, left>>

\* There is no such service, it runs already, or the load fails before the
\* driver is entered.
FilterLoadFails(c) ==
  /\ Up
  /\ pc[c] = "load" /\ drv \in {"out", "in"}
  /\ Returns(c, "unsuccessful")
  /\ UNCHANGED <<installed, drv, kernelRefs, left, owner>>

\* driver_start.cmd: fltmc load driver1.
FltmcLoad ==
  /\ Up
  /\ drv = "out" /\ installed /\ Clean
  /\ drv' = "register"
  /\ UNCHANGED <<installed, kernelRefs, left, owner, callVars>>

EntryStep == RegisterFilter \/ CmRegister \/ StartFiltering \/ CreatePort \/ UsesNullFilter

UnloadStep == UnloadPort \/ UnregisterFilter \/ RfUnload

ClientStep(c) ==
  DexQueryDriver(c) \/ DexStopDriver(c) \/ StopFails(c) \/ FilterLoad(c) \/ FilterLoadFails(c)

Next ==
  \/ EntryStep
  \/ RegisterFilterFails \/ CmRegisterFails \/ StartFilteringFails \/ CreatePortFails
  \/ UnloadStep
  \/ FltmcLoad \/ FltmcUnload \/ Uninstall \/ UninstallStopped \/ Install
  \/ CallsUnmappedImage
  \/ \E c \in Clients :
       \/ \E name \in Copies : CallStop(c, name)
       \/ \E name \in Copies, restartIfRunning \in BOOLEAN : DexStartDriver(c, name, restartIfRunning)
       \/ ClientStep(c)

Spec == Init /\ [][Next]_vars

\* DriverEntry and the unload routines run to their end, and so do the calls;
\* one that waits for the driver to be out of transit is served in the end.
Fairness ==
  /\ WF_vars(EntryStep) /\ WF_vars(UnloadStep)
  /\ \A c \in Clients : SF_vars(ClientStep(c))

FairSpec == Spec /\ Fairness

(***************************************************************************)
(* Properties                                                              *)
(***************************************************************************)
\* What the kernel still refers to while the driver is not in memory depends on
\* how it left: nothing before the first load and after fltmc unload or
\* FilterUnload; at most the registry callback after a load that failed at
\* FltStartFiltering; at most the filter and the port, never the registry
\* callback, after a stop of the service.
CleanWhenOut ==
  drv = "out" =>
    /\ left \in {"never", "filter"} => Clean
    /\ left = "failed" => filter = "none" /\ ~port
    /\ left = "service" => ~cm

\* What is registered keeps its order, whatever fails: in memory or not, a port
\* is open only on a registered filter and never while that is unregistered;
\* FltStartFiltering is reached with the registry callback in place only, which
\* then stays until RfUnload; and a load that went on without a filter ends with
\* nothing registered, if it ends at all.
RegistrationsNest ==
  /\ port => filter # "none" /\ drv # "unregister"
  /\ filter = "filtering" /\ drv # "out" => cm
  /\ drv = "in" /\ filter = "none" => Clean

\* A program waits in FilterLoad exactly while DriverEntry runs on its behalf,
\* and in FilterUnload exactly while the driver unloads on its behalf: the end
\* of a load or unload, by its own call, another program or a script, on every
\* failure path, wakes its caller and nobody else.
Entering == drv \in {"register", "cmregister", "start", "comm"}
Leaving  == drv \in {"unload", "unregister", "rfunload"}
OwnerWaits ==
  /\ \A c \in Clients : /\ pc[c] = "loading" <=> owner = c /\ Entering
                        /\ pc[c] = "unloading" <=> owner = c /\ Leaving
  /\ drv \in {"out", "in"} => owner = None

\* A call of the library returns, whatever others load and unload meanwhile.
CallsReturn == \A c \in Clients : pc[c] # "idle" ~> pc[c] = "idle" \/ bugcheck

\* A stop that the filter manager does not refuse unloads a running driver.
StopUnloads ==
  [][\A c \in Clients : DexStopDriver(c) /\ drv = "in" /\ filter # "none" => drv' = "unload"]_vars

\* The unload routine DriverEntry sets up leaves nothing behind: when it has
\* run, the kernel holds no reference to the driver.
UnloadRoutineCleans == [][RfUnload => Clean']_vars
=============================================================================

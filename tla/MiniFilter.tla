---------------------------- MODULE MiniFilter ----------------------------
(***************************************************************************)
(* The callbacks of the filter and the text scan together, in one driver   *)
(* that is unloaded: a scan works with an instance, whose teardown waits   *)
(* for it; it waits for the client without a timeout; and DriverUnload     *)
(* closes the client's port before it unregisters the filter.              *)
(***************************************************************************)
EXTENDS Naturals, Sequences, FiniteSets

CONSTANTS Volumes, Ops, Names,
          Scans, Workers, Contents, Rests, BufferSize, SectorSizes, None

VARIABLES filter, inst, op, on, named, refs, unnamed, bugcheck,
          client, place, text, notification, SafeToOpen, status, holder, wmsg, wtext,
          at,   \* at[s]: the volume of the instance that s scans with
          late  \* a client that connects across the beginning of the unload

Filter == INSTANCE FilterCallbacks WITH Files <- Names, file <- named
Scan   == INSTANCE Scanner WITH Files <- Contents, file <- text

ASSUME MiniFilterAssumption == Filter!ConstantsOK /\ Scan!ConstantsOK

filterVars == <<filter, inst, op, on, named, refs, unnamed, bugcheck>>
scanVars   == <<client, place, text, notification, SafeToOpen, status, holder, wmsg, wtext>>
vars == <<filterVars, scanVars, at, late>>

Init == Filter!Init /\ Scan!Init /\ at \in [Scans -> Volumes] /\ late = "may"

TypeOK ==
  /\ Filter!TypeOK /\ Scan!TypeOK
  /\ at \in [Scans -> Volumes] /\ late \in {"may", "no", "connected"}

Scanning(s) == place[s] \notin {"idle", "returned"}

\* A step of the filter's callbacks, or of a scan, alone.
FilterAlone == UNCHANGED <<scanVars, at, late>>
ScanAlone   == ~bugcheck /\ UNCHANGED <<filterVars, late>>

(***************************************************************************)
(* Where they meet                                                         *)
(***************************************************************************)
ScanBegins(s, v) ==
  /\ inst[v] = "attached"
  /\ Scan!ScanBegins(s) /\ at' = [at EXCEPT ![s] = v]
  /\ ScanAlone

\* What needs the instance fails once that is being torn down.
ScanStep(s) ==
  /\ Scan!Step(s)
  /\ place[s] \in {"preparing", "reading"} /\ inst[at[s]] # "attached" => Scan!Fails(s)
  /\ ScanAlone /\ UNCHANGED at

Reply(w) == Scan!Replies(w) /\ ScanAlone /\ UNCHANGED at

ClientConnects == filter = "on" /\ Scan!ClientConnects /\ ScanAlone /\ UNCHANGED at

ClientLeaves == client /\ Scan!PortCloses /\ ScanAlone /\ UNCHANGED at

InstanceTeardownComplete(v) ==
  /\ Filter!InstanceTeardownComplete(v) /\ \A s \in Scans : Scanning(s) => at[s] # v
  /\ FilterAlone

\* Variant with a defect: the client's port is left to FltUnregisterFilter.
UninitializeServerOnly == Filter!UninitializeCommunication /\ FilterAlone

\* The client that has the pointer loses its port.  Without one there may be one
\* that is accepted and not yet shown to ClientConnectedCallback; it is missed.
UninitializeCommunication ==
  /\ Filter!UninitializeCommunication
  /\ Scan!PortCloses /\ UNCHANGED at
  /\ late' = IF client THEN "no" ELSE "may"

\* ClientConnectedCallback, after UninitializeCommunication took the pointer.
LateClientConnects ==
  /\ ~bugcheck /\ filter \in {"closing", "tearing"} /\ late = "may"
  /\ Scan!ClientConnects /\ late' = "connected"
  /\ UNCHANGED <<filterVars, at>>

Callback(o) == Filter!Callback(o) /\ FilterAlone

Unload ==
  (Filter!FltUnregisterFilter \/ Filter!Unregistered \/ Filter!RfUnload) /\ FilterAlone

Next ==
  \/ \E v \in Volumes :
       \/ (Filter!InstanceSetup(v) \/ Filter!InstanceQueryTeardown(v)) /\ FilterAlone
       \/ InstanceTeardownComplete(v)
       \/ \E o \in Ops, f \in Names : Filter!PreOperation(o, v, f) /\ FilterAlone
       \/ \E s \in Scans : ScanBegins(s, v)
  \/ \E o \in Ops : Callback(o)
  \/ Filter!RegNtPreDeleteValueKey /\ FilterAlone
  \/ \E s \in Scans : ScanStep(s) \/ (Scan!SenderTerminated(s) /\ ScanAlone /\ UNCHANGED at)
  \/ \E w \in Workers :
       Reply(w) \/ \E s \in Scans : Scan!TakeMessage(w, s) /\ ScanAlone /\ UNCHANGED at
  \/ ClientConnects \/ LateClientConnects \/ ClientLeaves
  \/ UninitializeCommunication \/ Unload

Spec == Init /\ [][Next]_vars

(***************************************************************************)
(* Fairness: threads in the driver run, a create below an instance that is *)
(* torn down is drained.  The client need not answer.                      *)
(***************************************************************************)
Fairness ==
  /\ \A o \in Ops : WF_vars(Callback(o))
  /\ \A s \in Scans : WF_vars(ScanStep(s))
  /\ \A v \in Volumes : WF_vars(InstanceTeardownComplete(v))
  /\ WF_vars(Unload)

FairSpec == Spec /\ Fairness

(***************************************************************************)
(* Properties                                                              *)
(***************************************************************************)
NamesBalanced       == Filter!NamesBalanced
StopsOnlyUnnamed    == Filter!StopsOnlyUnnamed
FailedScanIsSafe    == Scan!FailedScanIsSafe
VerdictIsForItsFront == Scan!VerdictIsForItsFront

\* A scan waits for an answer.
Asked(v) == \E s \in Scans : place[s] = "waiting" /\ at[s] = v

\* A detach or dismount ends, unless a scan on that volume waits for a client
\* that does not answer: draining creates, name queries that fail and scans at
\* work only delay it.
DetachEnds ==
  \A v \in Volumes : inst[v] = "tearing" ~> inst[v] # "tearing" \/ Asked(v) \/ bugcheck

\* From the moment FltUnregisterFilter may wait for the instances, no scan that
\* has one of them waits for a client, nor can one begin to, unless a client got
\* the pointer when the unload had already taken it.
UnloadAsksNobody ==
  filter # "on" /\ late # "connected" => ~client /\ \A s \in Scans : place[s] # "waiting"

\* The unload ends whether or not the client answers, since its port goes first;
\* with the same exception.
UnloadEnds == filter = "closing" ~> filter = "unloaded" \/ bugcheck \/ late = "connected"
=============================================================================

-------------------------- MODULE MiniFilterProofs --------------------------
(***************************************************************************)
(* MiniFilter implements both of its parts: each of its steps is a step of *)
(* the callbacks or leaves them alone, and likewise of the scan.  So what  *)
(* FilterCallbacksProofs and ScannerProofs show of either alone holds of   *)
(* the driver that has both.                                               *)
(***************************************************************************)
EXTENDS MiniFilter, TLAPS

FilterPart == INSTANCE FilterCallbacksProofs WITH Files <- Names, file <- named
ScanPart   == INSTANCE ScannerProofs WITH Files <- Contents, file <- text

\* Closing the port for the unload is a step of both parts at once; every other
\* step is one of one of them.
LEMMA PartSteps == [Next]_vars => [Filter!Next]_(Filter!vars) /\ [Scan!Next]_(Scan!vars)
<1> SUFFICES ASSUME [Next]_vars
             PROVE  [Filter!Next]_(Filter!vars) /\ [Scan!Next]_(Scan!vars)
  OBVIOUS
<1>1. FilterAlone => UNCHANGED Scan!vars
  BY DEF FilterAlone, scanVars, Scan!vars, Scan!scanVars, Scan!workVars
<1>2. ScanAlone => UNCHANGED Filter!vars
  BY DEF ScanAlone, filterVars, Filter!vars, Filter!opVars
<1>3. UNCHANGED vars => UNCHANGED <<Filter!vars, Scan!vars>>
  BY DEF vars, filterVars, scanVars, Filter!vars, Filter!opVars, Scan!vars, Scan!scanVars, Scan!workVars
<1>4. ASSUME NEW v \in Volumes,
             \/ (Filter!InstanceSetup(v) \/ Filter!InstanceQueryTeardown(v)) /\ FilterAlone
             \/ InstanceTeardownComplete(v)
             \/ \E o \in Ops, f \in Names : Filter!PreOperation(o, v, f) /\ FilterAlone
      PROVE  Filter!Next /\ FilterAlone
  BY <1>4 DEF InstanceTeardownComplete, Filter!Next
<1>5. ASSUME \/ \E o \in Ops : Callback(o)
             \/ Filter!RegNtPreDeleteValueKey /\ FilterAlone
             \/ Unload
      PROVE  Filter!Next /\ FilterAlone
  BY <1>5 DEF Callback, Unload, Filter!Next
<1>6. ASSUME \/ \E s \in Scans : \/ \E v \in Volumes : ScanBegins(s, v)
                                 \/ ScanStep(s)
                                 \/ Scan!SenderTerminated(s) /\ ScanAlone
             \/ \E w \in Workers : Reply(w) \/ \E s \in Scans : Scan!TakeMessage(w, s) /\ ScanAlone
             \/ ClientConnects \/ ClientLeaves
      PROVE  Scan!Next /\ UNCHANGED Filter!vars
  BY <1>2, <1>6 DEF ScanBegins, ScanStep, Reply, ClientConnects, ClientLeaves, Scan!Next
<1>7. ASSUME UninitializeCommunication
      PROVE  Filter!Next /\ Scan!Next
  BY <1>7 DEF UninitializeCommunication, Filter!Next, Scan!Next
<1>8. ASSUME LateClientConnects
      PROVE  Scan!Next /\ UNCHANGED Filter!vars
  BY <1>8 DEF LateClientConnects, Scan!Next, filterVars, Filter!vars, Filter!opVars
<1> QED
  BY <1>1, <1>3, <1>4, <1>5, <1>6, <1>7, <1>8 DEF Next

\* Scans, and a client that does not answer them, let the filter manager call
\* the callbacks in no order that it would not without them.
THEOREM CallbacksImplemented == Spec => Filter!Spec
<1>1. Init => Filter!Init
  BY DEF Init
<1> QED
  BY <1>1, PartSteps, PTL DEF Spec, Filter!Spec

\* Detaches, the unload and what the callbacks do leave a scan only what it has
\* alone: to fail, or to go on.
THEOREM ScanImplemented == Spec => Scan!Spec
<1>1. Init => Scan!Init
  BY DEF Init
<1> QED
  BY <1>1, PartSteps, PTL DEF Spec, Scan!Spec

(***************************************************************************)
(* What is proved of the parts is stated of the copies of their modules    *)
(* that FilterPart and ScanPart bring; they say the same.                  *)
(***************************************************************************)
LEMMA PartConstants == FilterPart!ConstantsOK /\ ScanPart!ConstantsOK
  BY MiniFilterAssumption
  DEF Filter!ConstantsOK, FilterPart!ConstantsOK, Filter!IsFiniteSet, FilterPart!IsFiniteSet,
      Scan!ConstantsOK, ScanPart!ConstantsOK, Scan!Cells, ScanPart!Cells

\* Operation by operation, the callbacks.
LEMMA SameCallbacks == Filter!Spec <=> FilterPart!Spec
<1>1. Filter!Init <=> FilterPart!Init
  BY DEF
      Filter!Init, FilterPart!Init
<1>2. UNCHANGED Filter!vars <=> UNCHANGED FilterPart!vars
  BY DEF
      Filter!vars, FilterPart!vars, Filter!opVars, FilterPart!opVars
<1>3. Filter!Next <=> FilterPart!Next
  BY DEF
      Filter!Next, FilterPart!Next, Filter!Up, FilterPart!Up,
      Filter!MayStop, FilterPart!MayStop, Filter!Goes, FilterPart!Goes,
      Filter!opVars, FilterPart!opVars, Filter!InstanceSetup, FilterPart!InstanceSetup,
      Filter!InstanceQueryTeardown, FilterPart!InstanceQueryTeardown,
      Filter!InstanceTeardownComplete, FilterPart!InstanceTeardownComplete,
      Filter!PreOperation, FilterPart!PreOperation,
      Filter!PostOperationSkips, FilterPart!PostOperationSkips,
      Filter!QueryName, FilterPart!QueryName,
      Filter!QueryNameFails, FilterPart!QueryNameFails, Filter!UseName, FilterPart!UseName,
      Filter!ReleaseName, FilterPart!ReleaseName, Filter!UseNoName, FilterPart!UseNoName,
      Filter!ReleaseNoName, FilterPart!ReleaseNoName,
      Filter!RegNtPreDeleteValueKey, FilterPart!RegNtPreDeleteValueKey,
      Filter!UninitializeCommunication, FilterPart!UninitializeCommunication,
      Filter!FltUnregisterFilter, FilterPart!FltUnregisterFilter,
      Filter!Unregistered, FilterPart!Unregistered, Filter!RfUnload, FilterPart!RfUnload,
      Filter!Callback, FilterPart!Callback
<1>4. [Filter!Next]_(Filter!vars) <=> [FilterPart!Next]_(FilterPart!vars)
  BY <1>2, <1>3
<1> QED
  BY <1>1, <1>4, PTL DEF Filter!Spec, FilterPart!Spec

\* And the scan.
LEMMA SameScan == Scan!Spec <=> ScanPart!Spec
<1>1. Scan!Init <=> ScanPart!Init
  BY DEF
      Scan!Init, ScanPart!Init, Scan!NoText, ScanPart!NoText
<1>2. UNCHANGED Scan!vars <=> UNCHANGED ScanPart!vars
  BY DEF
      Scan!vars, ScanPart!vars, Scan!scanVars, ScanPart!scanVars,
      Scan!workVars, ScanPart!workVars
<1>3. Scan!Next <=> ScanPart!Next
  BY DEF
      Scan!Next, ScanPart!Next, Scan!scanVars, ScanPart!scanVars,
      Scan!workVars, ScanPart!workVars, Scan!ScanBegins, ScanPart!ScanBegins,
      Scan!Step, ScanPart!Step, Scan!SenderTerminated, ScanPart!SenderTerminated,
      Scan!ClientConnects, ScanPart!ClientConnects, Scan!PortCloses, ScanPart!PortCloses,
      Scan!Replies, ScanPart!Replies, Scan!TakeMessage, ScanPart!TakeMessage,
      Scan!Prepared, ScanPart!Prepared, Scan!Fails, ScanPart!Fails,
      Scan!FltReadFile, ScanPart!FltReadFile, Scan!FltSendMessage, ScanPart!FltSendMessage,
      Scan!Goes, ScanPart!Goes, Scan!Returns, ScanPart!Returns,
      Scan!NoText, ScanPart!NoText, Scan!Notification, ScanPart!Notification,
      Scan!Lesser, ScanPart!Lesser, Scan!Greater, ScanPart!Greater,
      Scan!Permission, ScanPart!Permission, Scan!Collected, ScanPart!Collected,
      Scan!HasWord, ScanPart!HasWord
<1>4. [Scan!Next]_(Scan!vars) <=> [ScanPart!Next]_(ScanPart!vars)
  BY <1>2, <1>3
<1> QED
  BY <1>1, <1>4, PTL DEF Scan!Spec, ScanPart!Spec

LEMMA SameCallbackProperties ==
  /\ Filter!TypeOK <=> FilterPart!TypeOK
  /\ Filter!NamesBalanced <=> FilterPart!NamesBalanced
  /\ Filter!StopsOnlyUnnamed <=> FilterPart!StopsOnlyUnnamed
<1>1. Filter!TypeOK <=> FilterPart!TypeOK
  BY DEF Filter!TypeOK, FilterPart!TypeOK, Filter!Filters, FilterPart!Filters,
         Filter!Insts, FilterPart!Insts, Filter!Places, FilterPart!Places
<1>2. Filter!NamesBalanced <=> FilterPart!NamesBalanced
  BY DEF Filter!NamesBalanced, FilterPart!NamesBalanced, Filter!Holders, FilterPart!Holders,
         Filter!Cardinality, FilterPart!Cardinality
<1>3. Filter!StopsOnlyUnnamed <=> FilterPart!StopsOnlyUnnamed
  BY DEF Filter!StopsOnlyUnnamed, FilterPart!StopsOnlyUnnamed
<1> QED
  BY <1>1, <1>2, <1>3

LEMMA SameScanProperties ==
  /\ Scan!TypeOK <=> ScanPart!TypeOK
  /\ Scan!FailedScanIsSafe <=> ScanPart!FailedScanIsSafe
  /\ Scan!VerdictIsForItsFront <=> ScanPart!VerdictIsForItsFront
<1>1. Scan!TypeOK <=> ScanPart!TypeOK
  BY DEF Scan!TypeOK, ScanPart!TypeOK, Scan!Places, ScanPart!Places,
         Scan!Notifications, ScanPart!Notifications, Scan!Cells, ScanPart!Cells
<1>2. Scan!FailedScanIsSafe <=> ScanPart!FailedScanIsSafe
  BY DEF Scan!FailedScanIsSafe, ScanPart!FailedScanIsSafe
<1>3. Scan!VerdictIsForItsFront <=> ScanPart!VerdictIsForItsFront
  BY DEF Scan!VerdictIsForItsFront, ScanPart!VerdictIsForItsFront,
         Scan!WordInFront, ScanPart!WordInFront, Scan!Front, ScanPart!Front,
         Scan!Lesser, ScanPart!Lesser
<1> QED
  BY <1>1, <1>2, <1>3

(***************************************************************************)
(* The properties of the driver that has both                              *)
(***************************************************************************)
\* The type invariant.
THEOREM TypeCorrect == Spec => []TypeOK
<1>1. FilterPart!Spec => []FilterPart!TypeOK
  BY PartConstants, FilterPart!TypeCorrect
<1>2. ScanPart!Spec => []ScanPart!TypeOK
  BY PartConstants, ScanPart!TypeCorrect
<1> DEFINE OwnTypeOK == at \in [Scans -> Volumes] /\ late \in {"may", "no", "connected"}
<1>3. Init => OwnTypeOK
  BY DEF Init
<1>4. OwnTypeOK /\ [Next]_vars => OwnTypeOK'
  BY DEF Next, vars, FilterAlone, ScanAlone, ScanBegins, ScanStep, Reply, ClientConnects,
         ClientLeaves, LateClientConnects, InstanceTeardownComplete,
         UninitializeCommunication, Callback, Unload
<1>5. Filter!TypeOK /\ Scan!TypeOK /\ OwnTypeOK <=> TypeOK
  BY DEF TypeOK
<1> QED
  BY <1>1, <1>2, <1>3, <1>4, <1>5, CallbacksImplemented, ScanImplemented, SameCallbacks, SameScan,
     SameCallbackProperties, SameScanProperties, PTL DEF Spec

\* Each file's name information is referenced by no more than the callbacks
\* between FltGetFileNameInformation and its release, the drained ones included,
\* and until a query fails unnoticed by exactly those, whatever scans and clients
\* do beside them.
THEOREM NamesAreBalanced == Spec => []NamesBalanced
<1>1. FilterPart!Spec => []FilterPart!NamesBalanced
  BY PartConstants, FilterPart!NamesAreBalanced
<1> QED
  BY <1>1, CallbacksImplemented, SameCallbacks, SameCallbackProperties, PTL DEF NamesBalanced

\* No interleaving of creates, detaches, scans and the unload stops the system
\* before a query has failed unnoticed.
THEOREM StopsHaveReason == Spec => []StopsOnlyUnnamed
<1>1. FilterPart!Spec => []FilterPart!StopsOnlyUnnamed
  BY PartConstants, FilterPart!StopsHaveReason
<1> QED
  BY <1>1, CallbacksImplemented, SameCallbacks, SameCallbackProperties, PTL DEF StopsOnlyUnnamed

\* ScannerpScanFileInUserMode leaves SafeToOpen TRUE whenever it fails, also
\* because its volume is detached or the driver closes the client's port.
THEOREM FailureIsSafe == Spec => []FailedScanIsSafe
<1>1. ScanPart!Spec => []ScanPart!FailedScanIsSafe
  BY PartConstants, ScanPart!FailureIsSafe
<1> QED
  BY <1>1, ScanImplemented, SameScan, SameScanProperties, PTL DEF FailedScanIsSafe

\* The worker's answer is used for the file it is about and is right about its
\* front, whatever detaches and unloads come between request and answer.
THEOREM VerdictIsRight == Spec => []VerdictIsForItsFront
<1>1. ScanPart!Spec => []ScanPart!VerdictIsForItsFront
  BY PartConstants, ScanPart!VerdictIsRight
<1> QED
  BY <1>1, ScanImplemented, SameScan, SameScanProperties, PTL DEF VerdictIsForItsFront

(***************************************************************************)
(* The safety half of UnloadEnds                                           *)
(***************************************************************************)
\* The unload begins in one step, which closes the client's port; no other
\* callback or detach leads into it, and nothing leads out of it.
LEMMA UnloadBegins ==
  ASSUME [Next]_vars, filter' # "on"
  PROVE  filter # "on" \/ UninitializeCommunication
<1>1. ASSUME NEW v \in Volumes,
             \/ Filter!InstanceSetup(v) \/ Filter!InstanceQueryTeardown(v)
             \/ InstanceTeardownComplete(v)
             \/ \E o \in Ops, f \in Names : Filter!PreOperation(o, v, f)
      PROVE  filter' = filter
  BY <1>1 DEF InstanceTeardownComplete, Filter!InstanceSetup, Filter!InstanceQueryTeardown,
              Filter!InstanceTeardownComplete, Filter!PreOperation
<1>2. ASSUME NEW o \in Ops, Callback(o)
      PROVE  filter' = filter
  BY <1>2 DEF Callback, Filter!Callback, Filter!QueryName, Filter!QueryNameFails,
              Filter!PostOperationSkips, Filter!UseName, Filter!ReleaseName,
              Filter!UseNoName, Filter!ReleaseNoName, Filter!Goes
<1>3. Filter!RegNtPreDeleteValueKey => filter' = filter
  BY DEF Filter!RegNtPreDeleteValueKey
<1>4. Unload => filter # "on"
  BY DEF Unload, Filter!FltUnregisterFilter, Filter!Unregistered, Filter!RfUnload
<1>5. ScanAlone \/ LateClientConnects \/ UNCHANGED vars => filter' = filter
  BY DEF ScanAlone, LateClientConnects, filterVars, vars
<1> QED
  BY <1>1, <1>2, <1>3, <1>4, <1>5
  DEF Next, ScanBegins, ScanStep, Reply, ClientConnects, ClientLeaves

\* A client comes before the unload, or is the late one, and that is remembered.
LEMMA ClientsComeBefore ==
  ASSUME [Next]_vars, filter # "on", late' # "connected"
  PROVE  late # "connected" /\ (client' => client)
<1>1. ASSUME UNCHANGED <<client, late>>
      PROVE  late # "connected" /\ (client' => client)
  BY <1>1
<1>2. FilterAlone \/ UNCHANGED vars => UNCHANGED <<client, late>>
  BY DEF FilterAlone, scanVars, vars
<1>3. ASSUME NEW s \in Scans, \/ \E v \in Volumes : ScanBegins(s, v)
                             \/ ScanStep(s) \/ (Scan!SenderTerminated(s) /\ ScanAlone)
      PROVE  UNCHANGED <<client, late>>
  BY <1>3 DEF ScanBegins, ScanStep, ScanAlone, Scan!ScanBegins, Scan!SenderTerminated,
              Scan!Step, Scan!Prepared, Scan!Fails, Scan!FltReadFile, Scan!FltSendMessage
<1>4. ASSUME NEW w \in Workers,
             Reply(w) \/ \E s \in Scans : Scan!TakeMessage(w, s) /\ ScanAlone
      PROVE  UNCHANGED <<client, late>>
  BY <1>4 DEF Reply, ScanAlone, Scan!Replies, Scan!TakeMessage
<1>5. ~ClientConnects /\ ~UninitializeCommunication /\ ~LateClientConnects
  BY DEF ClientConnects, UninitializeCommunication, Filter!UninitializeCommunication,
         LateClientConnects
<1>6. ClientLeaves => UNCHANGED late /\ ~client'
  BY DEF ClientLeaves, ScanAlone, Scan!PortCloses
<1> QED
  BY <1>1, <1>2, <1>3, <1>4, <1>5, <1>6
  DEF Next, InstanceTeardownComplete, Callback, Unload

\* A scan begins to wait only while a client is connected.
LEMMA ScansAskTheClient ==
  ASSUME Scan!TypeOK, [Scan!Next]_(Scan!vars), ~client, NEW s \in Scans, place'[s] = "waiting"
  PROVE  place[s] = "waiting"
<1> USE DEF Scan!TypeOK, Scan!Goes, Scan!Returns
<1>1. ASSUME NEW r \in Scans, Scan!ScanBegins(r) \/ Scan!Step(r) \/ Scan!SenderTerminated(r)
      PROVE  place[s] = "waiting"
  BY <1>1 DEF Scan!ScanBegins, Scan!Step, Scan!SenderTerminated, Scan!Prepared, Scan!Fails,
              Scan!FltReadFile, Scan!FltSendMessage
<1>2. ASSUME NEW w \in Workers, Scan!Replies(w) \/ \E r \in Scans : Scan!TakeMessage(w, r)
      PROVE  place[s] = "waiting"
  BY <1>2 DEF Scan!Replies, Scan!TakeMessage, Scan!scanVars
<1>3. ASSUME Scan!ClientConnects \/ Scan!PortCloses \/ UNCHANGED Scan!vars
      PROVE  place[s] = "waiting"
  BY <1>3 DEF Scan!ClientConnects, Scan!PortCloses, Scan!vars, Scan!scanVars
<1> QED
  BY <1>1, <1>2, <1>3 DEF Scan!Next

\* With the client's port closed first, the unload waits for no scan that waits
\* for a client, save the one that UninitializeCommunication could not see.
THEOREM UnloadNeedsNoAnswer == Spec => []UnloadAsksNobody
<1>1. Init => UnloadAsksNobody
  BY DEF Init, Filter!Init, UnloadAsksNobody
<1>2. TypeOK /\ UnloadAsksNobody /\ [Next]_vars => UnloadAsksNobody'
  <2> SUFFICES ASSUME TypeOK, UnloadAsksNobody, [Next]_vars, filter' # "on", late' # "connected"
               PROVE  ~client' /\ \A s \in Scans : place'[s] # "waiting"
    BY DEF UnloadAsksNobody
  <2>1. Scan!TypeOK /\ [Scan!Next]_(Scan!vars)
    BY PartSteps DEF TypeOK
  <2>2. CASE UninitializeCommunication
    BY <2>1, <2>2 DEF UninitializeCommunication, Scan!PortCloses, Scan!TypeOK
  <2>3. CASE filter # "on"
    BY <2>1, <2>3, ClientsComeBefore, ScansAskTheClient DEF UnloadAsksNobody
  <2> QED
    BY <2>2, <2>3, UnloadBegins
<1> QED
  BY <1>1, <1>2, TypeCorrect, PTL DEF Spec
=============================================================================

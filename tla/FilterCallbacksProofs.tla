----------------------- MODULE FilterCallbacksProofs -----------------------
(***************************************************************************)
(* Proofs about FilterCallbacks, for any volumes, any files and any finite *)
(* set of threads that open them.                                         *)
(***************************************************************************)
EXTENDS FilterCallbacks, FiniteSetTheorems, TLAPS

\* Who holds a name, when one create comes to a place or leaves it.
LEMMA HoldersGain ==
  ASSUME TypeOK, NEW o \in Ops, op[o] # "named", op[o] # "used",
         op' = [op EXCEPT ![o] = "named"], UNCHANGED file
  PROVE  /\ Holders(file[o])' = Holders(file[o]) \cup {o} /\ o \notin Holders(file[o])
         /\ \A f \in Files \ {file[o]} : Holders(f)' = Holders(f)
  BY DEF TypeOK, Holders

LEMMA HoldersLose ==
  ASSUME TypeOK, NEW o \in Ops, op[o] = "used", op' = [op EXCEPT ![o] = "idle"], UNCHANGED file
  PROVE  /\ Holders(file[o])' = Holders(file[o]) \ {o} /\ o \in Holders(file[o])
         /\ \A f \in Files \ {file[o]} : Holders(f)' = Holders(f)
  BY DEF TypeOK, Holders

\* There are finitely many.
LEMMA HoldersFinite ==
  ASSUME ConstantsOK, NEW f
  PROVE  IsFiniteSet(Holders(f)) /\ Cardinality(Holders(f)) \in Nat
  BY FS_Subset, FS_CardinalityType DEF ConstantsOK, Holders

\* A create without a name is there only after a failed query.
PlaceInv == ~unnamed => \A o \in Ops : op[o] \notin {"unnamed", "strayed"}

Inv == TypeOK /\ NamesBalanced /\ PlaceInv /\ StopsOnlyUnnamed

\* As long as every query has succeeded, whoever holds a name has a reference.
LEMMA HolderHasReference ==
  ASSUME ConstantsOK, Inv, ~unnamed, NEW o \in Ops, op[o] \in {"named", "used"}
  PROVE  refs[file[o]] > 0
<1>1. file[o] \in Files /\ o \in Holders(file[o])
  BY DEF Inv, TypeOK, Holders
<1>2. Cardinality(Holders(file[o])) # 0
  BY <1>1, HoldersFinite, FS_EmptySet
<1> QED
  BY <1>1, <1>2, HoldersFinite DEF Inv, NamesBalanced

\* The filter that has just started has all of it.
LEMMA InvInit == ConstantsOK /\ Init => Inv
<1> SUFFICES ASSUME ConstantsOK, Init PROVE Inv
  OBVIOUS
<1>1. TypeOK /\ PlaceInv /\ StopsOnlyUnnamed
  BY DEF Init, TypeOK, PlaceInv, StopsOnlyUnnamed, Filters, Insts, Places
<1>2. \A f \in Files : Holders(f) = {}
  BY DEF Init, Holders
<1>3. \A f \in Files : refs[f] = Cardinality(Holders(f)) /\ refs[f] <= Cardinality(Holders(f))
  BY <1>2, FS_EmptySet DEF Init
<1> QED
  BY <1>1, <1>3 DEF Inv, NamesBalanced

\* Every step keeps the types.
LEMMA TypeStep == TypeOK /\ [Next]_vars => TypeOK'
<1> SUFFICES ASSUME TypeOK, [Next]_vars PROVE TypeOK'
  OBVIOUS
<1> USE DEF TypeOK, Filters, Insts, Places, Up, MayStop, Goes, opVars
<1>1. ASSUME NEW v \in Volumes,
             InstanceSetup(v) \/ InstanceQueryTeardown(v) \/ InstanceTeardownComplete(v)
      PROVE  TypeOK'
  BY <1>1 DEF InstanceSetup, InstanceQueryTeardown, InstanceTeardownComplete
<1>2. ASSUME NEW v \in Volumes, NEW o \in Ops, NEW f \in Files, PreOperation(o, v, f)
      PROVE  TypeOK'
  BY <1>2 DEF PreOperation
<1>3. ASSUME NEW o \in Ops, Callback(o) PROVE TypeOK'
  <2>1. CASE QueryName(o)
    BY <2>1 DEF QueryName
  <2>2. CASE QueryNameFails(o) \/ PostOperationSkips(o) \/ UseName(o) \/ UseNoName(o)
    BY <2>2 DEF QueryNameFails, PostOperationSkips, UseName, UseNoName
  <2>3. CASE ReleaseName(o)
    BY <2>3 DEF ReleaseName
  <2>4. CASE ReleaseNoName(o)
    BY <2>4 DEF ReleaseNoName
  <2> QED
    BY <1>3, <2>1, <2>2, <2>3, <2>4 DEF Callback
<1>4. CASE RegNtPreDeleteValueKey \/ UninitializeCommunication \/ FltUnregisterFilter
          \/ Unregistered \/ RfUnload
  BY <1>4 DEF RegNtPreDeleteValueKey, UninitializeCommunication, FltUnregisterFilter, Unregistered,
              RfUnload
<1>5. CASE UNCHANGED vars
  BY <1>5 DEF vars
<1> QED
  BY <1>1, <1>2, <1>3, <1>4, <1>5 DEF Next

\* The name of o is referenced once more, and o holds it.
LEMMA QueryKeepsBalance ==
  ASSUME ConstantsOK, Inv, NEW o \in Ops, QueryName(o)
  PROVE  NamesBalanced'
<1> SUFFICES ASSUME NEW f \in Files
             PROVE  /\ refs'[f] <= Cardinality(Holders(f)')
                    /\ ~unnamed => refs'[f] = Cardinality(Holders(f)')
  BY DEF NamesBalanced, QueryName, Holders
<1>1. /\ TypeOK /\ refs[f] <= Cardinality(Holders(f))
      /\ ~unnamed => refs[f] = Cardinality(Holders(f))
  BY DEF Inv, NamesBalanced
<1>2. CASE f = file[o]
  <2>1. Holders(f)' = Holders(f) \cup {o} /\ o \notin Holders(f)
    BY <1>1, <1>2, HoldersGain DEF QueryName, Goes
  <2>2. Cardinality(Holders(f)') = Cardinality(Holders(f)) + 1
    BY <2>1, HoldersFinite, FS_AddElement
  <2> QED BY <1>1, <1>2, <2>2, HoldersFinite DEF QueryName, TypeOK
<1>3. CASE f # file[o]
  <2>1. Holders(f)' = Holders(f)
    BY <1>1, <1>3, HoldersGain DEF QueryName, Goes
  <2> QED BY <1>1, <1>3, <2>1 DEF QueryName, TypeOK
<1> QED BY <1>2, <1>3

\* One holder less, and one reference, unless a release without a name took it.
LEMMA ReleaseKeepsBalance ==
  ASSUME ConstantsOK, Inv, NEW o \in Ops, ReleaseName(o)
  PROVE  NamesBalanced'
<1> SUFFICES ASSUME NEW f \in Files
             PROVE  /\ refs'[f] <= Cardinality(Holders(f)')
                    /\ ~unnamed => refs'[f] = Cardinality(Holders(f)')
  BY DEF NamesBalanced, ReleaseName, Holders
<1>1. /\ TypeOK /\ refs[f] <= Cardinality(Holders(f))
      /\ ~unnamed => refs[f] = Cardinality(Holders(f))
  BY DEF Inv, NamesBalanced
<1>2. CASE f = file[o]
  <2>1. Holders(f)' = Holders(f) \ {o} /\ o \in Holders(f)
    BY <1>1, <1>2, HoldersLose DEF ReleaseName, Goes
  <2>2. Cardinality(Holders(f)') = Cardinality(Holders(f)) - 1 /\ Cardinality(Holders(f)') \in Nat
    BY <2>1, HoldersFinite, FS_RemoveElement, FS_CardinalityType
  <2>3. ~unnamed => refs[f] > 0
    BY <1>2, HolderHasReference DEF ReleaseName
  <2> QED BY <1>1, <1>2, <2>2, <2>3, HoldersFinite DEF ReleaseName, TypeOK
<1>3. CASE f # file[o]
  <2>1. Holders(f)' = Holders(f)
    BY <1>1, <1>3, HoldersLose DEF ReleaseName, Goes
  <2> QED BY <1>1, <1>3, <2>1 DEF ReleaseName, TypeOK
<1> QED BY <1>2, <1>3

\* A step that moves nobody to a name or from it; after a failed query a
\* reference may go.
LEMMA OthersKeepBalance ==
  ASSUME ConstantsOK, TypeOK, TypeOK', NamesBalanced, unnamed => unnamed',
         \A f \in Files : Holders(f)' = Holders(f) /\ refs'[f] <= refs[f],
         unnamed' \/ UNCHANGED refs
  PROVE  NamesBalanced'
<1> SUFFICES ASSUME NEW f \in Files
             PROVE  /\ refs'[f] <= Cardinality(Holders(f)')
                    /\ ~unnamed' => refs'[f] = Cardinality(Holders(f)')
  BY DEF NamesBalanced
<1>1. refs[f] \in Nat /\ refs'[f] \in Nat
  BY DEF TypeOK
<1> QED
  BY <1>1, HoldersFinite DEF NamesBalanced

\* However creates, detaches and the unload interleave, every step keeps the
\* balance, the places and the reason for a stop.
LEMMA InvStep == ConstantsOK /\ Inv /\ [Next]_vars => Inv'
<1> SUFFICES ASSUME ConstantsOK, Inv, [Next]_vars PROVE Inv'
  OBVIOUS
<1>1. TypeOK /\ TypeOK'
  BY TypeStep DEF Inv
<1>2. ASSUME NEW o \in Ops, QueryName(o) PROVE Inv'
  <2>1. PlaceInv' /\ StopsOnlyUnnamed'
    BY <1>1, <1>2 DEF Inv, TypeOK, PlaceInv, StopsOnlyUnnamed, QueryName, Goes, Up
  <2> QED BY <1>1, <1>2, <2>1, QueryKeepsBalance DEF Inv
<1>3. ASSUME NEW o \in Ops, ReleaseName(o) PROVE Inv'
  <2>1. PlaceInv'
    BY <1>1, <1>3 DEF Inv, TypeOK, PlaceInv, ReleaseName, Goes
  <2>2. StopsOnlyUnnamed'
    BY <1>1, <1>3, HolderHasReference
    DEF Inv, TypeOK, StopsOnlyUnnamed, ReleaseName, MayStop
  <2> QED BY <1>1, <1>3, <2>1, <2>2, ReleaseKeepsBalance DEF Inv
<1>4. ASSUME NEW o \in Ops, UseName(o) PROVE Inv'
  <2>1. PlaceInv'
    BY <1>1, <1>4 DEF Inv, TypeOK, PlaceInv, UseName, Goes
  <2>2. StopsOnlyUnnamed'
    BY <1>1, <1>4, HolderHasReference DEF Inv, TypeOK, StopsOnlyUnnamed, UseName, MayStop
  <2>3. \A f \in Files : Holders(f)' = Holders(f) /\ refs'[f] <= refs[f]
    BY <1>1, <1>4 DEF Holders, UseName, Goes, TypeOK
  <2> QED BY <1>1, <1>4, <2>1, <2>2, <2>3, OthersKeepBalance DEF Inv, UseName
<1>5. ASSUME NEW o \in Ops, QueryNameFails(o) PROVE Inv'
  <2>1. PlaceInv' /\ StopsOnlyUnnamed'
    BY <1>1, <1>5 DEF Inv, PlaceInv, StopsOnlyUnnamed, QueryNameFails, Up
  <2>2. \A f \in Files : Holders(f)' = Holders(f) /\ refs'[f] <= refs[f]
    BY <1>1, <1>5 DEF Holders, QueryNameFails, Goes, TypeOK
  <2> QED BY <1>1, <1>5, <2>1, <2>2, OthersKeepBalance DEF Inv, QueryNameFails
<1>6. ASSUME NEW o \in Ops, UseNoName(o) \/ ReleaseNoName(o) PROVE Inv'
  <2>1. unnamed /\ UNCHANGED unnamed
    BY <1>6 DEF Inv, PlaceInv, UseNoName, ReleaseNoName
  <2>2. PlaceInv' /\ StopsOnlyUnnamed'
    BY <2>1 DEF PlaceInv, StopsOnlyUnnamed
  <2>3. \A f \in Files : Holders(f)' = Holders(f)
    BY <1>1, <1>6 DEF Holders, UseNoName, ReleaseNoName, Goes, TypeOK
  <2>4. \A f \in Files : refs'[f] <= refs[f]
    BY <1>1, <1>6 DEF UseNoName, ReleaseNoName, TypeOK
  <2> QED BY <1>1, <2>1, <2>2, <2>3, <2>4, OthersKeepBalance DEF Inv
<1>7. CASE RegNtPreDeleteValueKey
  BY <1>1, <1>7
  DEF Inv, NamesBalanced, PlaceInv, StopsOnlyUnnamed, RegNtPreDeleteValueKey, Holders, opVars
<1>8. ASSUME NEW o \in Ops, PostOperationSkips(o) PROVE Inv'
  <2>1. PlaceInv' /\ StopsOnlyUnnamed'
    BY <1>1, <1>8 DEF Inv, TypeOK, PlaceInv, StopsOnlyUnnamed, PostOperationSkips, Goes, Up
  <2>2. \A f \in Files : Holders(f)' = Holders(f) /\ refs'[f] <= refs[f]
    BY <1>1, <1>8 DEF Holders, PostOperationSkips, Goes, TypeOK
  <2> QED BY <1>1, <1>8, <2>1, <2>2, OthersKeepBalance DEF Inv, PostOperationSkips
<1>9. ASSUME NEW v \in Volumes, NEW o \in Ops, NEW f \in Files, PreOperation(o, v, f)
      PROVE  Inv'
  <2>1. PlaceInv' /\ StopsOnlyUnnamed'
    BY <1>1, <1>9 DEF Inv, TypeOK, PlaceInv, StopsOnlyUnnamed, PreOperation, Up
  <2>2. \A g \in Files : Holders(g)' = Holders(g) /\ refs'[g] <= refs[g]
    BY <1>1, <1>9 DEF Holders, PreOperation, TypeOK
  <2> QED BY <1>1, <1>9, <2>1, <2>2, OthersKeepBalance DEF Inv, PreOperation
<1>10. CASE UNCHANGED <<opVars, refs, unnamed, bugcheck>>
  BY <1>1, <1>10 DEF Inv, NamesBalanced, PlaceInv, StopsOnlyUnnamed, Holders, opVars
<1> QED
  BY <1>2, <1>3, <1>4, <1>5, <1>6, <1>7, <1>8, <1>9, <1>10
  DEF Next, Callback, vars, Up, InstanceSetup, InstanceQueryTeardown,
      InstanceTeardownComplete, UninitializeCommunication, FltUnregisterFilter, Unregistered,
      RfUnload

\* So it holds in every reachable state.
LEMMA Invariance ==
  ASSUME ConstantsOK
  PROVE  Spec => []Inv
<1>1. Init => Inv
  BY InvInit
<1>2. Inv /\ [Next]_vars => Inv'
  BY InvStep
<1> QED
  BY <1>1, <1>2, PTL DEF Spec

\* Every variable keeps its type.
THEOREM TypeCorrect ==
  ASSUME ConstantsOK
  PROVE  Spec => []TypeOK
  BY Invariance, PTL DEF Inv

\* Each file's name information is referenced by no more than the callbacks
\* between FltGetFileNameInformation and its release, drained ones included, and
\* until a query fails unnoticed by exactly those.
THEOREM NamesAreBalanced ==
  ASSUME ConstantsOK
  PROVE  Spec => []NamesBalanced
  BY Invariance, PTL DEF Inv

\* No interleaving of creates, detaches and the unload stops the system before
\* a query has failed unnoticed.
THEOREM StopsHaveReason ==
  ASSUME ConstantsOK
  PROVE  Spec => []StopsOnlyUnnamed
  BY Invariance, PTL DEF Inv
=============================================================================

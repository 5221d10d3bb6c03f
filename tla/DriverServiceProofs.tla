------------------------ MODULE DriverServiceProofs ------------------------
(***************************************************************************)
(* Proofs about DriverService, for any number of programs.                 *)
(***************************************************************************)
EXTENDS DriverService, TLAPS

\* The driver is installed and not loaded.
LEMMA TypeInit == Init => TypeOK
<1> SUFFICES ASSUME Init PROVE TypeOK
  OBVIOUS
<1>1. /\ pc \in [Clients -> {"idle", "query", "stop", "unloading", "load", "loading"}]
      /\ copy \in [Clients -> Copies]
      /\ result \in [Clients -> {"none", "success", "unsuccessful"}]
  BY DEF Init, Copies
<1>2. restart \in [Clients -> BOOLEAN]
  BY DEF Init
<1> QED
  BY <1>1, <1>2 DEF Init, TypeOK

\* No registration, unload routine, call or script breaks a type.
LEMMA TypeStep == TypeOK /\ [Next]_vars => TypeOK'
<1> SUFFICES ASSUME TypeOK, [Next]_vars PROVE TypeOK'
  OBVIOUS
<1> USE DEF TypeOK, Copies, Up, Clean, Returns, Goes, vars, kernelRefs, callVars
<1>1. ASSUME NEW c \in Clients, DexQueryDriver(c) PROVE TypeOK'
  BY <1>1 DEF DexQueryDriver
<1>2. ASSUME NEW c \in Clients, StopFsFilter1(c) PROVE TypeOK'
  BY <1>2 DEF StopFsFilter1
<1>3. ASSUME NEW c \in Clients, StopDriver1(c) PROVE TypeOK'
  BY <1>3 DEF StopDriver1
<1>4. ASSUME NEW c \in Clients, StopFails(c) PROVE TypeOK'
  BY <1>4 DEF StopFails
<1>5. ASSUME NEW c \in Clients, NEW n \in Copies, CallStop(c, n) PROVE TypeOK'
  BY <1>5 DEF CallStop
<1>6. ASSUME NEW c \in Clients, FilterLoadFails(c) PROVE TypeOK'
  BY <1>6 DEF FilterLoadFails
<1>7. ASSUME NEW c \in Clients, FilterLoad(c) PROVE TypeOK'
  BY <1>7 DEF FilterLoad
<1>8. ASSUME NEW c \in Clients, NEW n \in Copies, NEW r \in BOOLEAN, DexStartDriver(c, n, r) PROVE TypeOK'
  BY <1>8 DEF DexStartDriver
<1>9. CASE RegisterFilter
  BY <1>9 DEF RegisterFilter
<1>10. CASE CmRegister
  BY <1>10 DEF CmRegister
<1>11. CASE StartFiltering
  BY <1>11 DEF StartFiltering
<1>12. CASE CreatePort
  BY <1>12 DEF CreatePort, LoadReturns
<1>13. CASE UsesNullFilter
  BY <1>13 DEF UsesNullFilter
<1>14. CASE RegisterFilterFails
  BY <1>14 DEF RegisterFilterFails
<1>15. CASE CmRegisterFails
  BY <1>15 DEF CmRegisterFails
<1>16. CASE StartFilteringFails
  BY <1>16 DEF StartFilteringFails, LoadReturns
<1>17. CASE CreatePortFails
  BY <1>17 DEF CreatePortFails, LoadReturns
<1>18. CASE UnloadPort
  BY <1>18 DEF UnloadPort
<1>19. CASE UnregisterFilter
  BY <1>19 DEF UnregisterFilter
<1>20. CASE RfUnload
  BY <1>20, ServiceAssumption DEF RfUnload, UnloadReturns
<1>21. CASE FltmcLoad
  BY <1>21 DEF FltmcLoad
<1>22. CASE FltmcUnload
  BY <1>22 DEF FltmcUnload
<1>23. CASE Uninstall
  BY <1>23 DEF Uninstall
<1>24. CASE UninstallStopped
  BY <1>24 DEF UninstallStopped
<1>25. CASE Install
  BY <1>25 DEF Install
<1>26. CASE CallsUnmappedImage
  BY <1>26 DEF CallsUnmappedImage
<1>27. CASE UNCHANGED vars
  BY <1>27
<1> QED
  BY <1>1, <1>2, <1>3, <1>4, <1>5, <1>6, <1>7, <1>8, <1>9, <1>10,
     <1>11, <1>12, <1>13, <1>14, <1>15, <1>16, <1>17, <1>18, <1>19, <1>20,
     <1>21, <1>22, <1>23, <1>24, <1>25, <1>26, <1>27
  DEF Next, EntryStep, UnloadStep, ClientStep, DexStopDriver

\* Every variable keeps its type.
THEOREM TypeCorrect == Spec => []TypeOK
  BY TypeInit, TypeStep, PTL DEF Spec

\* What DriverEntry has registered, and the unload has still to take back, at
\* each point of the two.
StageInv ==
  /\ drv = "register" => Clean
  /\ drv = "cmregister" => ~cm /\ ~port /\ filter # "filtering"
  /\ drv = "start" => cm /\ ~port /\ filter # "filtering"
  /\ drv \in {"comm", "unregister"} => ~port
  /\ drv = "comm" /\ filter = "none" => ~cm
  /\ drv = "rfunload" /\ left # "service" => filter = "none" /\ ~port
  /\ CleanWhenOut /\ RegistrationsNest

\* Each step of DriverEntry and of the unload leaves what the next one needs.
LEMMA StageStep == TypeOK /\ StageInv /\ [Next]_vars => StageInv'
<1> SUFFICES ASSUME TypeOK, StageInv, [Next]_vars PROVE StageInv'
  OBVIOUS
<1> USE DEF TypeOK, Copies, Up, Clean, Returns, Goes, vars, kernelRefs, callVars,
    StageInv, CleanWhenOut, RegistrationsNest
<1>1. ASSUME NEW c \in Clients, DexQueryDriver(c) PROVE StageInv'
  BY <1>1 DEF DexQueryDriver
<1>2. ASSUME NEW c \in Clients, StopFsFilter1(c) PROVE StageInv'
  BY <1>2 DEF StopFsFilter1
<1>3. ASSUME NEW c \in Clients, StopDriver1(c) PROVE StageInv'
  BY <1>3 DEF StopDriver1
<1>4. ASSUME NEW c \in Clients, StopFails(c) PROVE StageInv'
  BY <1>4 DEF StopFails
<1>5. ASSUME NEW c \in Clients, NEW n \in Copies, CallStop(c, n) PROVE StageInv'
  BY <1>5 DEF CallStop
<1>6. ASSUME NEW c \in Clients, FilterLoadFails(c) PROVE StageInv'
  BY <1>6 DEF FilterLoadFails
<1>7. ASSUME NEW c \in Clients, FilterLoad(c) PROVE StageInv'
  BY <1>7 DEF FilterLoad
<1>8. ASSUME NEW c \in Clients, NEW n \in Copies, NEW r \in BOOLEAN, DexStartDriver(c, n, r) PROVE StageInv'
  BY <1>8 DEF DexStartDriver
<1>9. CASE RegisterFilter
  BY <1>9 DEF RegisterFilter
<1>10. CASE CmRegister
  BY <1>10 DEF CmRegister
<1>11. CASE StartFiltering
  BY <1>11 DEF StartFiltering
<1>12. CASE CreatePort
  BY <1>12 DEF CreatePort, LoadReturns
<1>13. CASE UsesNullFilter
  BY <1>13 DEF UsesNullFilter
<1>14. CASE RegisterFilterFails
  BY <1>14 DEF RegisterFilterFails
<1>15. CASE CmRegisterFails
  BY <1>15 DEF CmRegisterFails
<1>16. CASE StartFilteringFails
  BY <1>16 DEF StartFilteringFails, LoadReturns
<1>17. CASE CreatePortFails
  BY <1>17 DEF CreatePortFails, LoadReturns
<1>18. CASE UnloadPort
  BY <1>18 DEF UnloadPort
<1>19. CASE UnregisterFilter
  BY <1>19 DEF UnregisterFilter
<1>20. CASE RfUnload
  BY <1>20, ServiceAssumption DEF RfUnload, UnloadReturns
<1>21. CASE FltmcLoad
  BY <1>21 DEF FltmcLoad
<1>22. CASE FltmcUnload
  BY <1>22 DEF FltmcUnload
<1>23. CASE Uninstall
  BY <1>23 DEF Uninstall
<1>24. CASE UninstallStopped
  BY <1>24 DEF UninstallStopped
<1>25. CASE Install
  BY <1>25 DEF Install
<1>26. CASE CallsUnmappedImage
  BY <1>26 DEF CallsUnmappedImage
<1>27. CASE UNCHANGED vars
  BY <1>27
<1> QED
  BY <1>1, <1>2, <1>3, <1>4, <1>5, <1>6, <1>7, <1>8, <1>9, <1>10,
     <1>11, <1>12, <1>13, <1>14, <1>15, <1>16, <1>17, <1>18, <1>19, <1>20,
     <1>21, <1>22, <1>23, <1>24, <1>25, <1>26, <1>27
  DEF Next, EntryStep, UnloadStep, ClientStep, DexStopDriver

\* So it holds however loads, failures, unloads and programs alternate.
LEMMA StageInvariance == Spec => []StageInv
<1>1. Init => StageInv
  BY DEF Init, StageInv, Clean, CleanWhenOut, RegistrationsNest
<1> QED
  BY <1>1, TypeCorrect, StageStep, PTL DEF Spec

\* A driver that has left through the filter manager has left nothing behind;
\* after a failed load only the registry callback may stay, after a stop of the
\* service only the filter and the port.
THEOREM UnloadCleans == Spec => []CleanWhenOut
<1>1. StageInv => CleanWhenOut
  BY DEF StageInv
<1> QED
  BY <1>1, StageInvariance, PTL

\* A port has its filter, a filter that filters its registry callback, and a
\* driver loaded without a filter has registered nothing.
THEOREM RegistrationOrder == Spec => []RegistrationsNest
<1>1. StageInv => RegistrationsNest
  BY DEF StageInv
<1> QED
  BY <1>1, StageInvariance, PTL

(***************************************************************************)
(* Whom a load or unload wakes                                             *)
(***************************************************************************)
\* What a step may do to a call that does not wait in the filter manager.
LEMMA NoWaitKept ==
  ASSUME OwnerWaits, TypeOK, NEW c \in Clients, pc[c] \notin {"loading", "unloading"},
         NEW place, place \notin {"loading", "unloading"}, pc' = [pc EXCEPT ![c] = place],
         UNCHANGED <<drv, owner>>
  PROVE  OwnerWaits'
  BY DEF OwnerWaits, Entering, Leaving, TypeOK

\* A load or unload begins with nobody waiting, and its caller is the owner.
LEMMA WaitBegins ==
  ASSUME OwnerWaits, TypeOK, drv \in {"out", "in"}, NEW c \in Clients, owner' = c,
         \/ Entering' /\ ~Leaving' /\ pc' = [pc EXCEPT ![c] = "loading"]
         \/ Leaving' /\ ~Entering' /\ pc' = [pc EXCEPT ![c] = "unloading"],
         drv' \notin {"out", "in"}
  PROVE  OwnerWaits'
<1>1. \A d \in Clients : pc[d] \notin {"loading", "unloading"}
  BY ServiceAssumption DEF OwnerWaits
<1>2. \A d \in Clients : pc'[d] \in {"loading", "unloading"} <=> d = c
  BY <1>1 DEF TypeOK
<1>3. CASE Entering' /\ ~Leaving' /\ pc' = [pc EXCEPT ![c] = "loading"]
  <2>1. pc'[c] = "loading"
    BY <1>3 DEF TypeOK
  <2> QED
    BY <1>2, <1>3, <2>1 DEF OwnerWaits
<1>4. CASE Leaving' /\ ~Entering' /\ pc' = [pc EXCEPT ![c] = "unloading"]
  <2>1. pc'[c] = "unloading"
    BY <1>4 DEF TypeOK
  <2> QED
    BY <1>2, <1>4, <2>1 DEF OwnerWaits
<1> QED
  BY <1>3, <1>4

\* Its end wakes the owner, if there is one, and nobody waits any more.
LEMMA WaitEnds ==
  ASSUME OwnerWaits, TypeOK, owner' = None, drv' \in {"out", "in"},
         \/ owner = None /\ pc' = pc
         \/ \E place \in {"idle", "load"} : owner # None /\ pc' = [pc EXCEPT ![owner] = place]
  PROVE  OwnerWaits'
<1>1. \A d \in Clients : pc'[d] \notin {"loading", "unloading"}
  <2>1. CASE owner = None /\ pc' = pc
    BY <2>1, ServiceAssumption DEF OwnerWaits
  <2>2. ASSUME NEW place \in {"idle", "load"}, owner # None, pc' = [pc EXCEPT ![owner] = place]
        PROVE  \A d \in Clients : pc'[d] \notin {"loading", "unloading"}
    <3>1. owner \in Clients /\ pc'[owner] = place
      BY <2>2 DEF TypeOK
    <3>2. \A d \in Clients : d # owner => pc'[d] = pc[d] /\ pc[d] \notin {"loading", "unloading"}
      BY <2>2, <3>1 DEF OwnerWaits, TypeOK
    <3> QED
      BY <3>1, <3>2
  <2> QED
    BY <2>1, <2>2
<1>2. \A d \in Clients : owner' # d
  BY ServiceAssumption
<1> QED
  BY <1>1, <1>2 DEF OwnerWaits

\* A step in the middle of a load or unload, or one a script begins, wakes
\* nobody.
LEMMA WaitGoesOn ==
  ASSUME OwnerWaits, UNCHANGED <<pc, owner>>,
         \/ Entering /\ Entering' /\ ~Leaving /\ ~Leaving'
         \/ Leaving /\ Leaving' /\ ~Entering /\ ~Entering'
         \/ drv \in {"out", "in"}
         \/ UNCHANGED drv,
         drv' \in {"out", "in"} => drv \in {"out", "in"}
  PROVE  OwnerWaits'
  BY ServiceAssumption DEF OwnerWaits, Entering, Leaving

\* However loads and unloads begin and end, their caller is who waits.
LEMMA OwnerStep == TypeOK /\ OwnerWaits /\ [Next]_vars => OwnerWaits'
<1> SUFFICES ASSUME TypeOK, OwnerWaits, [Next]_vars PROVE OwnerWaits'
  OBVIOUS
<1> USE DEF callVars, Up, Returns, Goes
<1>1. ASSUME NEW c \in Clients, DexQueryDriver(c) PROVE OwnerWaits'
  BY <1>1, NoWaitKept DEF DexQueryDriver
<1>2. ASSUME NEW c \in Clients, StopFsFilter1(c) \/ StopFails(c) \/ FilterLoadFails(c) PROVE OwnerWaits'
  BY <1>2, NoWaitKept DEF StopFsFilter1, StopFails, FilterLoadFails
<1>3. ASSUME NEW c \in Clients, NEW n \in Copies, CallStop(c, n) PROVE OwnerWaits'
  BY <1>3, NoWaitKept DEF CallStop
<1>4. ASSUME NEW c \in Clients, NEW n \in Copies, NEW r \in BOOLEAN, DexStartDriver(c, n, r) PROVE OwnerWaits'
  BY <1>4, NoWaitKept DEF DexStartDriver
<1>5. ASSUME NEW c \in Clients, StopDriver1(c) PROVE OwnerWaits'
  BY <1>5, WaitBegins DEF StopDriver1, Entering, Leaving
<1>6. ASSUME NEW c \in Clients, FilterLoad(c) PROVE OwnerWaits'
  BY <1>6, WaitBegins DEF FilterLoad, Entering, Leaving
<1>7. CASE StartFilteringFails \/ CreatePort \/ CreatePortFails
  BY <1>7, WaitEnds DEF StartFilteringFails, CreatePort, CreatePortFails, LoadReturns
<1>8. CASE RfUnload
  BY <1>8, WaitEnds DEF RfUnload, UnloadReturns
<1>9. CASE RegisterFilter \/ RegisterFilterFails \/ CmRegister \/ CmRegisterFails \/ StartFiltering
  BY <1>9, WaitGoesOn
  DEF RegisterFilter, RegisterFilterFails, CmRegister, CmRegisterFails, StartFiltering, Entering, Leaving
<1>10. CASE UnloadPort \/ UnregisterFilter \/ FltmcLoad \/ FltmcUnload \/ Uninstall
  BY <1>10, WaitGoesOn
  DEF UnloadPort, UnregisterFilter, FltmcLoad, FltmcUnload, Uninstall, Entering, Leaving
<1>11. CASE UsesNullFilter \/ UninstallStopped \/ Install \/ CallsUnmappedImage \/ UNCHANGED vars
  BY <1>11, WaitGoesOn DEF UsesNullFilter, UninstallStopped, Install, CallsUnmappedImage, vars
<1> QED
  BY <1>1, <1>2, <1>3, <1>4, <1>5, <1>6, <1>7, <1>8, <1>9, <1>10, <1>11
  DEF Next, EntryStep, UnloadStep, ClientStep, DexStopDriver

\* A call that waits for a load or unload is the one it was begun for, so its
\* end reaches it: no call is left waiting for a load or unload that is over.
THEOREM EndWakesCaller == Spec => []OwnerWaits
<1>1. Init => OwnerWaits
  BY ServiceAssumption DEF Init, OwnerWaits, Entering, Leaving
<1> QED
  BY <1>1, TypeCorrect, OwnerStep, PTL DEF Spec
=============================================================================

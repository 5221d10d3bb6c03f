-------------------------- MODULE DllLibraryProofs --------------------------
(***************************************************************************)
(* Proofs about DllLibrary, for any number of threads, of events and of    *)
(* calls of Initialize and Uninitialize.                                   *)
(***************************************************************************)
EXTENDS DllLibrary, TLAPS

\* The bounds are natural numbers, so that 0 is an event and a count.
LEMMA BoundsHaveZero == /\ 0 \in Events /\ 0 \in 0 .. NrOfDllConnThreads
                        /\ NrOfDllConnThreads \in 0 .. NrOfDllConnThreads
  BY LibraryAssumption DEF Events

\* A process that has just loaded the library.
LEMMA TypeInit == Init => TypeOK
  BY BoundsHaveZero DEF Init, TypeOK

\* No call, worker step or change of the driver breaks a type.
LEMMA TypeStep == TypeOK /\ [Next]_vars => TypeOK'
<1> SUFFICES ASSUME TypeOK, [Next]_vars PROVE TypeOK'
  OBVIOUS
<1> USE LibraryAssumption DEF TypeOK, Events, vars, eventVars, portVars, workVars
<1>1. ASSUME NEW t \in Threads, Spawn(t) PROVE TypeOK'
  BY <1>1 DEF Spawn
<1>2. ASSUME NEW t \in Threads, Check(t) PROVE TypeOK'
  BY <1>2 DEF Check, WorkerGoes
<1>3. ASSUME NEW t \in Threads, Pends(t) PROVE TypeOK'
  BY <1>3 DEF Pends, WorkerGoes
<1>4. ASSUME NEW t \in Threads, GetFails(t) PROVE TypeOK'
  BY <1>4 DEF GetFails, WorkerGoes
<1>5. ASSUME NEW t \in Threads, Message(t) PROVE TypeOK'
  BY <1>5 DEF Message, WorkerGoes
<1>6. ASSUME NEW t \in Threads, Wakes(t) PROVE TypeOK'
  BY <1>6 DEF Wakes, WorkerGoes
<1>7. CASE InitializeCall
  <2>1. created' \in Events /\ event' \in Events
    BY <1>7, BoundsHaveZero DEF InitializeCall
  <2>2. opened' \subseteq Events
    BY <1>7, <2>1 DEF InitializeCall
  <2> QED
    BY <1>7, <2>1, <2>2 DEF InitializeCall
<1>8. CASE Connected
  BY <1>8 DEF Connected
<1>9. CASE ConnectFails
  BY <1>9 DEF ConnectFails
<1>10. CASE InitializeReturns
  BY <1>10 DEF InitializeReturns
<1>11. CASE SpawnFails
  BY <1>11 DEF SpawnFails
<1>12. CASE UninitializeCall
  BY <1>12 DEF UninitializeCall
<1>13. CASE UninitializeReturns
  <2>1. wpc' \in [Threads -> {"off", "check", "get", "waiting", "failed", "stopped"}]
    BY <1>13, Zenon DEF UninitializeReturns
  <2>2. event' \in Events /\ opened' \subseteq Events
    BY <1>13, BoundsHaveZero DEF UninitializeReturns
  <2> QED
    BY <1>13, <2>1, <2>2 DEF UninitializeReturns
<1>14. CASE DriverUnloads
  BY <1>14 DEF DriverUnloads
<1>15. CASE DriverLoads
  BY <1>15 DEF DriverLoads
<1>16. CASE UNCHANGED vars
  BY <1>16
<1> QED
  BY <1>1, <1>2, <1>3, <1>4, <1>5, <1>6, <1>7, <1>8, <1>9, <1>10, <1>11,
     <1>12, <1>13, <1>14, <1>15, <1>16
  DEF Next

\* Every variable keeps its type.
THEOREM TypeCorrect == Spec => []TypeOK
  BY TypeInit, TypeStep, PTL DEF Spec

\* Why the handles outlive the threads: gCommunicationThreads has every thread
\* that was started and not joined, the port goes only when it is empty, and
\* an event that is overwritten is never closed.
LibraryInv ==
  /\ \A t \in Threads : wpc[t] # "off" => t \in threads
  /\ threads # {} \/ main = "spawning" => port
  /\ event # 0 => event \in opened
  /\ \A t \in Threads : wpc[t] = "waiting" /\ waits[t] # 0 => waits[t] \in opened

\* No step closes a handle under a running worker.
LEMMA LibraryStep == TypeOK /\ LibraryInv /\ [Next]_vars => LibraryInv'
<1> SUFFICES ASSUME TypeOK, LibraryInv, [Next]_vars PROVE LibraryInv'
  OBVIOUS
<1> USE LibraryAssumption DEF TypeOK, Events, LibraryInv, vars, eventVars, portVars, workVars
<1>1. ASSUME NEW t \in Threads, Spawn(t) PROVE LibraryInv'
  BY <1>1 DEF Spawn
<1>2. ASSUME NEW t \in Threads, Check(t) PROVE LibraryInv'
  BY <1>2 DEF Check, WorkerGoes
<1>3. ASSUME NEW t \in Threads, Pends(t) PROVE LibraryInv'
  BY <1>3 DEF Pends, WorkerGoes
<1>4. ASSUME NEW t \in Threads, GetFails(t) PROVE LibraryInv'
  BY <1>4 DEF GetFails, WorkerGoes
<1>5. ASSUME NEW t \in Threads, Message(t) PROVE LibraryInv'
  BY <1>5 DEF Message, WorkerGoes
<1>6. ASSUME NEW t \in Threads, Wakes(t) PROVE LibraryInv'
  BY <1>6 DEF Wakes, WorkerGoes
<1>7. CASE InitializeCall
  BY <1>7 DEF InitializeCall
<1>8. CASE Connected
  BY <1>8 DEF Connected
<1>9. CASE ConnectFails
  BY <1>9 DEF ConnectFails
<1>10. CASE InitializeReturns
  BY <1>10 DEF InitializeReturns
<1>11. CASE SpawnFails
  BY <1>11 DEF SpawnFails
<1>12. CASE UninitializeCall
  BY <1>12 DEF UninitializeCall
<1>13. CASE UninitializeReturns
  BY <1>13 DEF UninitializeReturns
<1>14. CASE DriverUnloads
  BY <1>14 DEF DriverUnloads
<1>15. CASE DriverLoads
  BY <1>15 DEF DriverLoads
<1>16. CASE UNCHANGED vars
  BY <1>16
<1> QED
  BY <1>1, <1>2, <1>3, <1>4, <1>5, <1>6, <1>7, <1>8, <1>9, <1>10, <1>11,
     <1>12, <1>13, <1>14, <1>15, <1>16
  DEF Next

\* So no worker ever runs outside gCommunicationThreads.
LEMMA LibraryInvariance == Spec => []LibraryInv
<1>1. Init => LibraryInv
  BY DEF Init, LibraryInv
<1> QED
  BY <1>1, TypeCorrect, LibraryStep, PTL DEF Spec

\* No worker ever uses a port or an event that has been closed.
THEOREM HandlesAreSafe == Spec => []HandlesOutliveThreads
<1>1. LibraryInv => HandlesOutliveThreads
  BY DEF LibraryInv, HandlesOutliveThreads, Running
<1> QED
  BY <1>1, LibraryInvariance, PTL

\* Without threads Uninitialize does nothing, and the server port refuses a
\* second connection.
LEMMA LeakStep == Leaked /\ driver' /\ [Next]_vars => Leaked'
<1> SUFFICES ASSUME Leaked, driver', [Next]_vars PROVE Leaked'
  OBVIOUS
<1> USE DEF Leaked, vars, eventVars, portVars, workVars
<1>1. ASSUME NEW t \in Threads, Spawn(t) PROVE Leaked'
  BY <1>1 DEF Spawn
<1>2. ASSUME NEW t \in Threads, Check(t) PROVE Leaked'
  BY <1>2 DEF Check, WorkerGoes
<1>3. ASSUME NEW t \in Threads, Pends(t) PROVE Leaked'
  BY <1>3 DEF Pends, WorkerGoes
<1>4. ASSUME NEW t \in Threads, GetFails(t) PROVE Leaked'
  BY <1>4 DEF GetFails, WorkerGoes
<1>5. ASSUME NEW t \in Threads, Message(t) PROVE Leaked'
  BY <1>5 DEF Message, WorkerGoes
<1>6. ASSUME NEW t \in Threads, Wakes(t) PROVE Leaked'
  BY <1>6 DEF Wakes, WorkerGoes
<1>7. CASE InitializeCall
  BY <1>7 DEF InitializeCall
<1>8. CASE Connected
  BY <1>8 DEF Connected
<1>9. CASE ConnectFails
  BY <1>9 DEF ConnectFails
<1>10. CASE InitializeReturns
  BY <1>10 DEF InitializeReturns
<1>11. CASE SpawnFails
  BY <1>11 DEF SpawnFails
<1>12. CASE UninitializeCall
  BY <1>12 DEF UninitializeCall
<1>13. CASE UninitializeReturns
  BY <1>13 DEF UninitializeReturns
<1>14. CASE DriverUnloads
  BY <1>14 DEF DriverUnloads
<1>15. CASE DriverLoads
  BY <1>15 DEF DriverLoads
<1>16. CASE UNCHANGED vars
  BY <1>16
<1> QED
  BY <1>1, <1>2, <1>3, <1>4, <1>5, <1>6, <1>7, <1>8, <1>9, <1>10, <1>11,
     <1>12, <1>13, <1>14, <1>15, <1>16
  DEF Next

\* A connection without threads is lost until the driver is unloaded.
THEOREM LeakStays == Spec => LeakedForGood
<1>1. [Next]_vars => [Leaked /\ driver' => Leaked']_vars
  BY LeakStep
<1> QED
  BY <1>1, PTL DEF Spec, LeakedForGood

(***************************************************************************)
(* The safety half of UninitializeEnds                                     *)
(***************************************************************************)
\* A worker takes the global event when it begins to wait, and only Initialize
\* and the end of Uninitialize change that event; the latter when all have
\* stopped.
LEMMA EventStep ==
  ASSUME TypeOK, LibraryInv, OneEvent, [Next]_vars, ~InitializeCall
  PROVE  OneEvent'
<1> USE DEF TypeOK, OneEvent, vars, eventVars, portVars, workVars
<1>1. ASSUME NEW t \in Threads, Spawn(t) PROVE OneEvent'
  BY <1>1 DEF Spawn
<1>2. ASSUME NEW t \in Threads, Check(t) PROVE OneEvent'
  BY <1>2 DEF Check, WorkerGoes
<1>3. ASSUME NEW t \in Threads, Pends(t) PROVE OneEvent'
  BY <1>3 DEF Pends, WorkerGoes
<1>4. ASSUME NEW t \in Threads, GetFails(t) PROVE OneEvent'
  BY <1>4 DEF GetFails, WorkerGoes
<1>5. ASSUME NEW t \in Threads, Message(t) PROVE OneEvent'
  BY <1>5 DEF Message, WorkerGoes
<1>6. ASSUME NEW t \in Threads, Wakes(t) PROVE OneEvent'
  BY <1>6 DEF Wakes, WorkerGoes
<1>7. CASE Connected
  BY <1>7 DEF Connected
<1>8. CASE ConnectFails
  BY <1>8 DEF ConnectFails
<1>9. CASE InitializeReturns
  BY <1>9 DEF InitializeReturns
<1>10. CASE SpawnFails
  BY <1>10 DEF SpawnFails
<1>11. CASE UninitializeCall
  BY <1>11 DEF UninitializeCall
<1>12. CASE UninitializeReturns
  BY <1>12 DEF UninitializeReturns, LibraryInv
<1>13. CASE DriverUnloads
  BY <1>13 DEF DriverUnloads
<1>14. CASE DriverLoads
  BY <1>14 DEF DriverLoads
<1>15. CASE UNCHANGED vars
  BY <1>15
<1> QED
  BY <1>1, <1>2, <1>3, <1>4, <1>5, <1>6, <1>7, <1>8, <1>9, <1>10, <1>11, <1>12,
     <1>13, <1>14, <1>15
  DEF Next

\* Workers that wait for anything but the global event were left behind by a
\* second Initialize.
THEOREM EventsPart == Spec => EventsPartByInitialize
<1>1. TypeOK /\ LibraryInv /\ [Next]_vars => [OneEvent /\ ~OneEvent' => InitializeCall]_vars
  BY EventStep
<1> QED
  BY <1>1, TypeCorrect, LibraryInvariance, PTL DEF Spec, EventsPartByInitialize

\* While Uninitialize joins, the global event is set, if there is one.
JoinInv == main = "joining" => event = 0 \/ event \in signaled

LEMMA JoinStep == JoinInv /\ [Next]_vars => JoinInv'
<1> SUFFICES ASSUME JoinInv, [Next]_vars PROVE JoinInv'
  OBVIOUS
<1> USE DEF JoinInv, vars, eventVars, portVars, workVars
<1>1. ASSUME NEW t \in Threads,
             Spawn(t) \/ Check(t) \/ Pends(t) \/ GetFails(t) \/ Message(t) \/ Wakes(t)
      PROVE  JoinInv'
  BY <1>1 DEF Spawn, Check, Pends, GetFails, Message, Wakes, WorkerGoes
<1>2. ASSUME InitializeCall \/ Connected \/ ConnectFails \/ InitializeReturns \/ SpawnFails
      PROVE  JoinInv'
  BY <1>2 DEF InitializeCall, Connected, ConnectFails, InitializeReturns, SpawnFails
<1>3. ASSUME UninitializeCall \/ UninitializeReturns PROVE JoinInv'
  BY <1>3 DEF UninitializeCall, UninitializeReturns
<1>4. ASSUME DriverUnloads \/ DriverLoads \/ UNCHANGED vars PROVE JoinInv'
  BY <1>4 DEF DriverUnloads, DriverLoads
<1> QED
  BY <1>1, <1>2, <1>3, <1>4 DEF Next

\* Uninitialize never joins a worker that nothing will wake, unless Initialize
\* has been called again since that worker began to wait.
THEOREM JoinsWakeWorkers == Spec => []JoinIsHeard
<1>1. Init => JoinInv
  BY DEF Init, JoinInv
<1>2. JoinInv => JoinIsHeard
  BY DEF JoinInv, JoinIsHeard, OneEvent, IsSet
<1> QED
  BY <1>1, <1>2, JoinStep, PTL DEF Spec
=============================================================================

----------------------------- MODULE DllLibrary -----------------------------
(***************************************************************************)
(* The life of dll1's connection to the driver: InitializeDriverLibrary    *)
(* and UninitializeDriverLibrary (public_api.cpp, communication.cpp)       *)
(* called one after the other in any order, the terminate event, the port  *)
(* handle, the worker threads that use both through globals, and a driver  *)
(* that is unloaded and loaded meanwhile.  What a message says and what is *)
(* answered is in DsmkPort; here a worker takes one and is done with it.   *)
(***************************************************************************)
EXTENDS Naturals

CONSTANTS Threads,             \* threads the process may have
          NrOfDllConnThreads,
          MaxEvents            \* bound on the calls of CreateEvent

ASSUME LibraryAssumption == /\ NrOfDllConnThreads \in Nat \ {0}
                            /\ MaxEvents \in Nat

VARIABLES
  event,    \* gRequestTerminateDllConnThreads: an event, 0 for NULL
  created,  \* events created so far
  opened,   \* events whose handle is not closed
  signaled, \* events that are set
  port,     \* gDllConnFilterPort # NULL
  link,     \* the connection behind that handle
  driver,   \* the server port exists
  threads,  \* gCommunicationThreads
  wpc,      \* wpc[t]: where worker t stands
  waits,    \* waits[t]: the event in its waitHandles[0]
  main,     \* where the calling thread stands
  todo      \* threads Initialize has still to start

eventVars == <<event, created, opened, signaled>>
portVars  == <<port, link, driver>>
workVars  == <<threads, wpc, waits>>
vars == <<eventVars, portVars, workVars, main, todo>>

Events == 0 .. MaxEvents

TypeOK ==
  /\ event \in Events /\ created \in Events
  /\ opened \subseteq Events /\ signaled \subseteq Events
  /\ port \in BOOLEAN /\ driver \in BOOLEAN
  /\ link \in {"none", "open", "broken"}
  /\ threads \subseteq Threads
  /\ wpc \in [Threads -> {"off", "check", "get", "waiting", "failed", "stopped"}]
  /\ waits \in [Threads -> Events]
  /\ main \in {"idle", "connecting", "spawning", "joining"}
  /\ todo \in 0 .. NrOfDllConnThreads

Init ==
  /\ event = 0 /\ created = 0 /\ opened = {} /\ signaled = {}
  /\ port = FALSE /\ link = "none" /\ driver = TRUE
  /\ threads = {}
  /\ wpc = [t \in Threads |-> "off"]
  /\ waits = [t \in Threads |-> 0]
  /\ main = "idle" /\ todo = 0

(***************************************************************************)
(* InitializeDriverLibrary                                                 *)
(***************************************************************************)
\* Nothing asks whether it has been called before.  The event is created before
\* anything is known of the connection; an earlier handle is overwritten.
InitializeCall ==
  /\ main = "idle" /\ created < MaxEvents
  /\ created' = created + 1
  /\ \/ event' = created' /\ opened' = opened \cup {created'}
     \/ event' = 0 /\ UNCHANGED opened
  /\ main' = "connecting"
  /\ UNCHANGED <<signaled, portVars, workVars, todo>>

\* Variant with a defect: the server port takes a second connection.
ConnectedAgain ==
  /\ main = "connecting" /\ driver
  /\ port' = TRUE /\ link' = "open"
  /\ main' = "spawning" /\ todo' = NrOfDllConnThreads
  /\ UNCHANGED <<eventVars, driver, workVars>>

\* The server port takes one connection.
Connected ==
  /\ main = "connecting" /\ driver /\ link # "open"
  /\ port' = TRUE /\ link' = "open"
  /\ main' = "spawning" /\ todo' = NrOfDllConnThreads
  /\ UNCHANGED <<eventVars, driver, workVars>>

\* STATUS_CONNECTION_REFUSED is thrown and becomes -1.
ConnectFails ==
  /\ main = "connecting"
  /\ main' = "idle"
  /\ UNCHANGED <<eventVars, portVars, workVars, todo>>

\* Variant with a defect: the loop runs once too often.
SpawnOneMore(t) ==
  /\ main = "spawning" /\ wpc[t] = "off"
  /\ threads' = threads \cup {t}
  /\ wpc' = [wpc EXCEPT ![t] = "check"]
  /\ todo' = todo - 1
  /\ UNCHANGED <<eventVars, portVars, waits, main>>

Spawn(t) ==
  /\ main = "spawning" /\ todo > 0 /\ wpc[t] = "off"
  /\ threads' = threads \cup {t}
  /\ wpc' = [wpc EXCEPT ![t] = "check"]
  /\ todo' = todo - 1
  /\ UNCHANGED <<eventVars, portVars, waits, main>>

InitializeReturns ==
  /\ main = "spawning" /\ todo = 0
  /\ main' = "idle"
  /\ UNCHANGED <<eventVars, portVars, workVars, todo>>

\* No memory or no thread: the exception is caught, what was opened stays.
SpawnFails ==
  /\ main = "spawning" /\ todo > 0
  /\ main' = "idle" /\ todo' = 0
  /\ UNCHANGED <<eventVars, portVars, workVars>>

(***************************************************************************)
(* UninitializeDriverLibrary; with no threads it returns at once           *)
(***************************************************************************)
\* Variant with a defect: the event is not set.
UninitializeCallNoEvent ==
  /\ main = "idle" /\ threads # {} /\ port
  /\ main' = "joining"
  /\ UNCHANGED <<eventVars, portVars, workVars, todo>>

UninitializeCall ==
  /\ main = "idle" /\ threads # {} /\ port
  /\ signaled' = signaled \cup {event}
  /\ main' = "joining"
  /\ UNCHANGED <<event, created, opened, portVars, workVars, todo>>

\* Variant with a defect: the threads are not joined.
UninitializeReturnsEarly ==
  /\ main = "joining"
  /\ threads' = {}
  /\ opened' = opened \ {event} /\ event' = 0
  /\ port' = FALSE /\ link' = "none"
  /\ main' = "idle"
  /\ UNCHANGED <<created, signaled, driver, wpc, waits, todo>>

UninitializeReturns ==
  /\ main = "joining" /\ \A t \in threads : wpc[t] = "stopped"
  /\ threads' = {}
  /\ wpc' = [t \in Threads |-> IF t \in threads THEN "off" ELSE wpc[t]]
  /\ opened' = opened \ {event} /\ event' = 0
  /\ port' = FALSE /\ link' = "none"
  /\ main' = "idle"
  /\ UNCHANGED <<created, signaled, driver, waits, todo>>

(***************************************************************************)
(* UmCommunicationThreadBody                                               *)
(***************************************************************************)
WorkerGoes(t, place) ==
  /\ wpc' = [wpc EXCEPT ![t] = place]
  /\ UNCHANGED <<eventVars, portVars, threads, main, todo>>

IsSet(e) == e # 0 /\ e \in signaled

\* WaitForSingleObject(gRequestTerminateDllConnThreads, 0)
Check(t) ==
  /\ wpc[t] = "check"
  /\ WorkerGoes(t, IF IsSet(event) THEN "stopped" ELSE "get")
  /\ UNCHANGED waits

\* FilterGetMessage pends; the handle that is global now goes in waitHandles.
Pends(t) ==
  /\ wpc[t] = "get" /\ link = "open"
  /\ waits' = [waits EXCEPT ![t] = event]
  /\ WorkerGoes(t, "waiting")

\* The port is gone, or the call fails for another reason.
GetFails(t) ==
  /\ wpc[t] = "get"
  /\ WorkerGoes(t, "stopped")
  /\ UNCHANGED waits

\* A request comes, is handled and answered, at once or after a wait.
Message(t) ==
  /\ link = "open"
  /\ wpc[t] = "get" \/ (wpc[t] = "waiting" /\ waits[t] # 0 /\ ~IsSet(waits[t]))
  /\ WorkerGoes(t, "check")
  /\ UNCHANGED waits

\* The wait ends with the terminate event, with the request that failed when
\* the port closed, or at once: it refuses a NULL handle.
Wakes(t) ==
  /\ wpc[t] = "failed" \/ (wpc[t] = "waiting" /\ (waits[t] = 0 \/ IsSet(waits[t])))
  /\ WorkerGoes(t, "stopped")
  /\ UNCHANGED waits

(***************************************************************************)
(* The driver is unloaded, which fails what is pending at its port, and    *)
(* loaded again.                                                           *)
(***************************************************************************)
DriverUnloads ==
  /\ driver
  /\ driver' = FALSE
  /\ link' = IF link = "open" THEN "broken" ELSE link
  /\ wpc' = [t \in Threads |-> IF wpc[t] = "waiting" THEN "failed" ELSE wpc[t]]
  /\ UNCHANGED <<eventVars, port, threads, waits, main, todo>>

DriverLoads ==
  /\ ~driver
  /\ driver' = TRUE
  /\ UNCHANGED <<eventVars, port, link, workVars, main, todo>>

WorkerStep(t) == Check(t) \/ Wakes(t) \/ (link # "open" /\ GetFails(t))

Next ==
  \/ InitializeCall \/ Connected \/ ConnectFails \/ InitializeReturns \/ SpawnFails
  \/ UninitializeCall \/ UninitializeReturns
  \/ \E t \in Threads : Spawn(t) \/ Check(t) \/ Pends(t) \/ GetFails(t) \/ Message(t) \/ Wakes(t)
  \/ DriverUnloads \/ DriverLoads

Spec == Init /\ [][Next]_vars

(***************************************************************************)
(* Fairness: threads run; a busy port falls silent now and then, so that   *)
(* FilterGetMessage pends.  A request need never come.                     *)
(***************************************************************************)
Fairness ==
  /\ WF_vars(UninitializeReturns)
  /\ \A t \in Threads : WF_vars(WorkerStep(t)) /\ SF_vars(Pends(t))

FairSpec == Spec /\ Fairness

(***************************************************************************)
(* Properties                                                              *)
(***************************************************************************)
Running(t) == wpc[t] \notin {"off", "stopped"}

\* A worker that runs is in gCommunicationThreads, so that it will be joined;
\* the port handle it will use is there, and neither the event it looks at nor
\* the one it waits for has been closed.
HandlesOutliveThreads ==
  \A t \in Threads : Running(t) =>
    /\ t \in threads /\ port
    /\ event # 0 => event \in opened
    /\ wpc[t] = "waiting" /\ waits[t] # 0 => waits[t] \in opened

\* The port is connected, nobody reads it, and UninitializeDriverLibrary does
\* nothing because there are no threads.
Leaked == link = "open" /\ threads = {} /\ main \in {"idle", "connecting"}

\* When no thread could be started the connection is lost to the process: no
\* sequence of Initialize and Uninitialize calls closes it or connects again
\* while the driver stays loaded.
LeakedForGood == [][Leaked /\ driver' => Leaked']_vars

\* Every worker that waits does so for the event that is global now.
OneEvent == \A t \in Threads : wpc[t] = "waiting" => waits[t] \in {0, event}

\* Only Initialize, called while a worker waits, gives the workers an event other
\* than the one that UninitializeDriverLibrary sets.
EventsPartByInitialize == [][OneEvent /\ ~OneEvent' => InitializeCall]_vars

\* As long as that has not happened, a worker that waits while the call joins it
\* has been woken: it waits for the event that was set, or has none to wait for.
JoinIsHeard ==
  main = "joining" /\ OneEvent =>
    \A t \in Threads : wpc[t] = "waiting" => waits[t] = 0 \/ IsSet(waits[t])

\* UninitializeDriverLibrary returns, although no request ever comes and
\* whatever failed before: unless Initialize was called again while a worker
\* waited, every worker it joins sees the event or an error.
UninitializeEnds == main = "joining" /\ OneEvent ~> main = "idle"

\* After such a second Initialize it returns as long as requests keep coming:
\* each wakes a worker, which then looks at the global event.
UninitializeEndsWithTraffic ==
  (\A t \in Threads : WF_vars(Message(t))) => (main = "joining" ~> main = "idle")
=============================================================================

------------------------------ MODULE DsmkPort ------------------------------
(***************************************************************************)
(* Process monitoring over the filter communication port \DSMKPort: the    *)
(* driver's process-notify callback (callbacks_ps.c), its port callbacks   *)
(* and its requests to user mode (communication_server.c), the worker      *)
(* threads and the commands of dll1 (communication.cpp) and the command    *)
(* loop of test1, with the death of the app, the unload of the driver and  *)
(* the termination of a thread that waits for an answer.                   *)
(*                                                                         *)
(* One action is what one thread does between two points where another     *)
(* thread can be seen to act: a call into the filter manager, a wait, the  *)
(* message box.  The filter manager is external: a message stays queued    *)
(* until a FilterGetMessage takes it, a reply reaches the sender only from *)
(* the receiver of that very message, and a port that closes on either     *)
(* side fails every FltSendMessage waiting at it.  Closing the port and    *)
(* ClientDisconnectCallback are one step here.                             *)
(***************************************************************************)
CONSTANTS Procs,    \* processes that are created and exit
          Workers,  \* the DLL's worker threads (NrOfDllConnThreads of them)
          Main,     \* test1's main thread
          None      \* no message, no worker

ASSUME PortAssumption == /\ Main \notin Procs
                         /\ None \notin Procs \cup Workers \cup {Main}

\* The kernel threads that call FltSendMessage: for a process, the thread its
\* notify callback runs in; main, when a test command is in the driver.
Senders == Procs \cup {Main}

VARIABLES
  \* driver
  drv,            \* where DriverUnload stands
  serverPort,     \* gDrv.DllConnServerPort # NULL
  clientPort,     \* gDrv.DllConnClientPort # NULL
  registered,     \* the notify routine is in the kernel's list
  gProcessNotifyRegistered,
  bugcheck,       \* the system has stopped
  \* processes and their callbacks
  phase,          \* phase[p]: the life of p and the place in its callback
  creationStatus, \* creationStatus[p]: CreateInfo->CreationStatus
  \* filter manager
  conn,           \* the app's connection to \DSMKPort
  mail,           \* mail[s]: the message in s's FltSendMessage
  holder,         \* holder[s]: the worker that received it
  allowed,        \* allowed[p]: Allowed in the reply given to p
  \* app
  main,           \* where test1's main thread stands
  appKilled,      \* the app is being terminated
  termEvent,      \* gRequestTerminateDllConnThreads is set
  wpc,            \* wpc[w]: where the worker thread stands
  wmsg,           \* wmsg[w]: the sender of the message in its MessageBuffer
  wkind,          \* wkind[w]: the Command of that message
  answer,         \* answer[w]: reply.ProcInfo.Allowed
  \* history
  killed          \* the processes for which the user pressed OK

drvVars  == <<drv, serverPort, clientPort>>
psVars   == <<registered, gProcessNotifyRegistered>>
procVars == <<phase, creationStatus>>
mailVars == <<mail, holder, allowed>>
mainVars == <<main, appKilled, termEvent>>
workVars == <<wpc, wmsg, wkind, answer, killed>>
vars == <<drvVars, psVars, bugcheck, procVars, conn, mailVars, mainVars, workVars>>

DrvStates   == {"running", "closing", "holding", "closed", "unloaded"}
Phases      == {"none", "asking", "greeting", "live", "exiting", "gone"}
ConnStates  == {"none", "accepted", "open", "disconnected"}
MailStates  == {"none", "queued", "taken", "replied", "failed"}
MainStates  == {"start", "connecting", "spawning", "idle", "testing", "draining", "joining", "closing"}
WorkStates  == {"off", "check", "get", "waiting", "dialog", "replying", "stopped"}

TypeOK ==
  /\ drv \in DrvStates /\ serverPort \in BOOLEAN /\ clientPort \in BOOLEAN
  /\ registered \in BOOLEAN /\ gProcessNotifyRegistered \in BOOLEAN
  /\ bugcheck \in BOOLEAN
  /\ phase \in [Procs -> Phases]
  /\ creationStatus \in [Procs -> {"success", "access_denied"}]
  /\ conn \in ConnStates
  /\ mail \in [Senders -> MailStates]
  /\ holder \in [Senders -> Workers \cup {None}]
  /\ allowed \in [Senders -> BOOLEAN]
  /\ main \in MainStates /\ appKilled \in BOOLEAN /\ termEvent \in BOOLEAN
  /\ wpc \in [Workers -> WorkStates]
  /\ wmsg \in [Workers -> Senders \cup {None}]
  /\ wkind \in [Workers -> {"name", "version"}]
  /\ answer \in [Workers -> BOOLEAN]
  /\ killed \subseteq Procs

\* DriverEntry has created the server port; no app runs, monitoring is off.
Init ==
  /\ drv = "running" /\ serverPort = TRUE /\ clientPort = FALSE
  /\ registered = FALSE /\ gProcessNotifyRegistered = FALSE
  /\ bugcheck = FALSE
  /\ phase = [p \in Procs |-> "none"]
  /\ creationStatus = [p \in Procs |-> "success"]
  /\ conn = "none"
  /\ mail = [s \in Senders |-> "none"]
  /\ holder = [s \in Senders |-> None]
  /\ allowed = [s \in Senders |-> TRUE]
  /\ main = "start" /\ appKilled = FALSE /\ termEvent = FALSE
  /\ wpc = [w \in Workers |-> "off"]
  /\ wmsg = [w \in Workers |-> None]
  /\ wkind = [w \in Workers |-> "version"]
  /\ answer = [w \in Workers |-> TRUE]
  /\ killed = {}

\* The system runs, and the step does not stop it.
Up == ~bugcheck /\ UNCHANGED bugcheck

(***************************************************************************)
(* FltSendMessage, as the driver uses it: no timeout                       *)
(***************************************************************************)
InCallback(p) == phase[p] \in {"asking", "greeting", "exiting"}

\* s is inside GetAndLogProcDetails or GetAndLogClientVersion.
Sending(s) == IF s = Main THEN main = "testing" ELSE InCallback(s)

\* Variant with a defect: the test command asks with PROC_INFO.
KindTestAsksName(s) == IF s = Main \/ phase[s] = "asking" THEN "name" ELSE "version"

\* The Command of the request s sends where it stands.
Kind(s) == IF s \in Procs /\ phase[s] = "asking" THEN "name" ELSE "version"

Outstanding(s) == mail[s] \in {"queued", "taken"}

\* The messages outstanding at a port that closes fail.
FailAll ==
  /\ mail' = [s \in Senders |-> IF Outstanding(s) THEN "failed" ELSE mail[s]]
  /\ holder' = [s \in Senders |-> None]
  /\ UNCHANGED allowed

FailOne(s) ==
  /\ mail' = [mail EXCEPT ![s] = "failed"]
  /\ holder' = [holder EXCEPT ![s] = None]
  /\ UNCHANGED allowed

\* The call reads gDrv.DllConnClientPort: with no client it fails at once.
Send(s) ==
  /\ Up
  /\ Sending(s) /\ mail[s] = "none"
  /\ s \in Procs => drv # "unloaded"
  /\ mail' = [mail EXCEPT ![s] =
       IF clientPort /\ conn = "open" /\ ~(s = Main /\ appKilled)
         THEN "queued" ELSE "failed"]
  /\ UNCHANGED <<drvVars, psVars, procVars, conn, holder, allowed, mainVars, workVars>>

\* The thread of the callback is terminated while it waits: FltSendMessage
\* returns STATUS_THREAD_IS_TERMINATING.
SenderTerminated(p) ==
  /\ Up
  /\ Outstanding(p)
  /\ FailOne(p)
  /\ UNCHANGED <<drvVars, psVars, procVars, conn, mainVars, workVars>>

(***************************************************************************)
(* The process-notify callback                                             *)
(***************************************************************************)
\* PspInsertProcess: a created process meets the routine if it is registered.
ProcCreate(p) ==
  /\ Up
  /\ phase[p] = "none"
  /\ registered => drv # "unloaded"
  /\ phase' = [phase EXCEPT ![p] = IF registered THEN "asking" ELSE "live"]
  /\ UNCHANGED <<drvVars, psVars, creationStatus, conn, mailVars, mainVars, workVars>>

ProcExit(p) ==
  /\ Up
  /\ phase[p] = "live"
  /\ registered => drv # "unloaded"
  /\ phase' = [phase EXCEPT ![p] = IF registered THEN "exiting" ELSE "gone"]
  /\ UNCHANGED <<drvVars, psVars, creationStatus, conn, mailVars, mainVars, workVars>>

\* Variant with a defect: without a reply the creation is refused.
CallbackReturnsFailureDenies(p) ==
  /\ Up
  /\ InCallback(p) /\ drv # "unloaded"
  /\ mail[p] \in {"replied", "failed"}
  /\ mail' = [mail EXCEPT ![p] = "none"]
  /\ creationStatus' = [creationStatus EXCEPT ![p] =
       IF phase[p] = "asking" /\ (mail[p] = "failed" \/ ~allowed[p])
         THEN "access_denied" ELSE @]
  /\ phase' = [phase EXCEPT ![p] =
       CASE @ = "asking" -> "greeting" [] @ = "greeting" -> "live" [] @ = "exiting" -> "gone"]
  /\ UNCHANGED <<drvVars, psVars, conn, holder, allowed, mainVars, workVars>>

\* FltSendMessage has returned to the callback.  After PROC_INFO, a reply that
\* says not Allowed refuses the creation, a failure leaves it alone; either
\* way the version request comes next and is the last thing the callback does.
CallbackReturns(p) ==
  /\ Up
  /\ InCallback(p) /\ drv # "unloaded"
  /\ mail[p] \in {"replied", "failed"}
  /\ mail' = [mail EXCEPT ![p] = "none"]
  /\ creationStatus' = [creationStatus EXCEPT ![p] =
       IF phase[p] = "asking" /\ mail[p] = "replied" /\ ~allowed[p]
         THEN "access_denied" ELSE @]
  /\ phase' = [phase EXCEPT ![p] =
       CASE @ = "asking" -> "greeting" [] @ = "greeting" -> "live" [] @ = "exiting" -> "gone"]
  /\ UNCHANGED <<drvVars, psVars, conn, holder, allowed, mainVars, workVars>>

\* A process is created or exits, and the kernel calls code that is unmapped.
NotifiesUnloadedImage(p) ==
  /\ drv = "unloaded" /\ registered /\ phase[p] \in {"none", "live"}
  /\ ~bugcheck /\ bugcheck' = TRUE
  /\ UNCHANGED <<drvVars, psVars, procVars, conn, mailVars, mainVars, workVars>>

\* FltSendMessage returns to it.
ReturnsToUnloadedImage(p) ==
  /\ drv = "unloaded" /\ InCallback(p)
  /\ ~bugcheck /\ bugcheck' = TRUE
  /\ UNCHANGED <<drvVars, psVars, procVars, conn, mailVars, mainVars, workVars>>

(***************************************************************************)
(* test1's main thread: InitializeDriverLibrary and the command loop       *)
(***************************************************************************)
\* FilterConnectCommunicationPort: the server port lets one client in.
Connect ==
  /\ Up
  /\ main = "start" /\ serverPort /\ conn = "none"
  /\ main' = "connecting" /\ conn' = "accepted"
  /\ UNCHANGED <<drvVars, psVars, procVars, mailVars, appKilled, termEvent, workVars>>

\* Within that call, the driver's callback stores the pointer; the unload may
\* have been past it by then.
ClientConnectedCallback ==
  /\ Up
  /\ main = "connecting"
  /\ main' = "spawning" /\ conn' = "open" /\ clientPort' = TRUE
  /\ UNCHANGED <<drv, serverPort, psVars, procVars, mailVars, appKilled, termEvent, workVars>>

\* main only prints the status InitializeDriverLibrary returns.
ConnectFails ==
  /\ Up
  /\ main = "start"
  /\ main' = "idle"
  /\ UNCHANGED <<drvVars, psVars, procVars, conn, mailVars, appKilled, termEvent, workVars>>

SpawnWorker(w) ==
  /\ Up
  /\ main = "spawning" /\ wpc[w] = "off"
  /\ wpc' = [wpc EXCEPT ![w] = "check"]
  /\ UNCHANGED <<drvVars, psVars, procVars, conn, mailVars, mainVars, wmsg, wkind, answer, killed>>

SpawnDone ==
  /\ Up
  /\ main = "spawning" /\ \A w \in Workers : wpc[w] # "off"
  /\ main' = "idle"
  /\ UNCHANGED <<drvVars, psVars, procVars, conn, mailVars, appKilled, termEvent, workVars>>

\* The thread constructor throws: the threads so far and the port remain.
SpawnFails ==
  /\ Up
  /\ main = "spawning" /\ \E w \in Workers : wpc[w] = "off"
  /\ main' = "idle"
  /\ UNCHANGED <<drvVars, psVars, procVars, conn, mailVars, appKilled, termEvent, workVars>>

\* Commands need the port (gDllConnFilterPort # NULL) and a live connection;
\* otherwise they log an error and change nothing.
Commands == main = "idle" /\ conn = "open"

\* "test": the driver asks for the version before it returns.
TestCommand ==
  /\ Up
  /\ Commands
  /\ main' = "testing"
  /\ UNCHANGED <<drvVars, psVars, procVars, conn, mailVars, appKilled, termEvent, workVars>>

TestReturns ==
  /\ Up
  /\ main = "testing" /\ mail[Main] \in {"replied", "failed"}
  /\ mail' = [mail EXCEPT ![Main] = "none"]
  /\ main' = IF appKilled THEN "closing" ELSE "idle"
  /\ UNCHANGED <<drvVars, psVars, procVars, conn, holder, allowed, appKilled, termEvent, workVars>>

\* "procmon_on": DrvInitializeProcNotify does nothing when the flag is set.
EnableProcmon ==
  /\ Up
  /\ Commands /\ ~gProcessNotifyRegistered
  /\ registered' = TRUE /\ gProcessNotifyRegistered' = TRUE
  /\ UNCHANGED <<drvVars, procVars, conn, mailVars, mainVars, workVars>>

\* PsSetCreateProcessNotifyRoutineEx refuses; its status is then logged with
\* %s, and reading the string is survived or is not.
EnableFails ==
  /\ ~bugcheck /\ Commands /\ ~gProcessNotifyRegistered
  /\ bugcheck' \in BOOLEAN
  /\ UNCHANGED <<drvVars, psVars, procVars, conn, mailVars, mainVars, workVars>>

\* Variant with a defect: the routine is not removed.
DisableProcmonKeepsRoutine ==
  /\ Up
  /\ Commands /\ gProcessNotifyRegistered
  /\ main' = "draining"
  /\ UNCHANGED <<drvVars, psVars, procVars, conn, mailVars, appKilled, termEvent, workVars>>

\* "procmon_off": the removal keeps new callbacks out and waits for the ones
\* that run; the flag is cleared when it has returned.
DisableProcmon ==
  /\ Up
  /\ Commands /\ gProcessNotifyRegistered
  /\ registered' = FALSE /\ main' = "draining"
  /\ UNCHANGED <<drvVars, gProcessNotifyRegistered, procVars, conn, mailVars, appKilled, termEvent, workVars>>

DisableReturns ==
  /\ Up
  /\ main = "draining" /\ \A p \in Procs : ~InCallback(p)
  /\ gProcessNotifyRegistered' = FALSE
  /\ main' = IF appKilled THEN "closing" ELSE "idle"
  /\ UNCHANGED <<drvVars, registered, procVars, conn, mailVars, appKilled, termEvent, workVars>>

\* "exit": UninitializeCommunication.  With no threads it returns at once and
\* the handle goes with the process.
ExitCommand ==
  /\ Up
  /\ main = "idle"
  /\ IF \A w \in Workers : wpc[w] = "off"
       THEN main' = "closing" /\ UNCHANGED termEvent
       ELSE main' = "joining" /\ termEvent' = TRUE
  /\ UNCHANGED <<drvVars, psVars, procVars, conn, mailVars, appKilled, workVars>>

Joined ==
  /\ Up
  /\ main = "joining" /\ \A w \in Workers : wpc[w] \in {"off", "stopped"}
  /\ main' = "closing"
  /\ UNCHANGED <<drvVars, psVars, procVars, conn, mailVars, appKilled, termEvent, workVars>>

\* The process is terminated: its threads stop where they are, except that a
\* thread in the kernel first leaves it.  Waiting in FltSendMessage is cut
\* short, waiting in PsSetCreateProcessNotifyRoutineEx is not.
AppKilled ==
  /\ Up
  /\ main \in {"spawning", "idle", "testing", "draining", "joining"} /\ ~appKilled
  /\ appKilled' = TRUE
  /\ main' = IF main \in {"testing", "draining"} THEN main ELSE "closing"
  /\ wpc' = [w \in Workers |-> IF wpc[w] = "off" THEN "off" ELSE "stopped"]
  /\ IF Outstanding(Main) THEN FailOne(Main) ELSE UNCHANGED mailVars
  /\ UNCHANGED <<drvVars, psVars, procVars, conn, termEvent, wmsg, wkind, answer, killed>>

\* The last handle of the port goes: the filter manager fails what waits at
\* it and calls ClientDisconnectCallback.  test1 may be started again.
ClientDisconnect ==
  /\ Up
  /\ main = "closing"
  /\ main' = "start" /\ conn' = "none" /\ clientPort' = FALSE
  /\ appKilled' = FALSE /\ termEvent' = FALSE
  /\ FailAll
  /\ wpc' = [w \in Workers |-> "off"] /\ wmsg' = [w \in Workers |-> None]
  /\ UNCHANGED <<drv, serverPort, psVars, procVars, wkind, answer, killed>>

(***************************************************************************)
(* UmCommunicationThreadBody                                               *)
(***************************************************************************)
StopWorker(w) ==
  /\ wpc' = [wpc EXCEPT ![w] = "stopped"]
  /\ UNCHANGED <<drvVars, psVars, procVars, conn, mailVars, mainVars, wmsg, wkind, answer, killed>>

WorkerCheck(w) ==
  /\ Up
  /\ wpc[w] = "check"
  /\ IF termEvent THEN StopWorker(w)
     ELSE /\ wpc' = [wpc EXCEPT ![w] = "get"]
          /\ UNCHANGED <<drvVars, psVars, procVars, conn, mailVars, mainVars, wmsg, wkind, answer, killed>>

\* FilterGetMessage with nothing queued is pending; on a closed port it fails.
WorkerGet(w) ==
  /\ Up
  /\ wpc[w] = "get"
  /\ \/ conn # "open" /\ StopWorker(w)
     \/ /\ conn = "open" /\ \A s \in Senders : mail[s] # "queued"
        /\ wpc' = [wpc EXCEPT ![w] = "waiting"]
        /\ UNCHANGED <<drvVars, psVars, procVars, conn, mailVars, mainVars, wmsg, wkind, answer, killed>>

\* Where a worker goes with a message of kind k.
Handler(k) == IF k = "name" THEN "dialog" ELSE "replying"

\* The filter manager copies s's message to w's buffer: at once, or to the
\* pending FilterGetMessage, whose event it sets.
TakeMessage(w, s) ==
  /\ Up
  /\ \/ wpc[w] = "get" /\ wpc' = [wpc EXCEPT ![w] = Handler(Kind(s))]
     \/ wpc[w] = "waiting" /\ wmsg[w] = None /\ UNCHANGED wpc
  /\ conn = "open" /\ mail[s] = "queued"
  /\ mail' = [mail EXCEPT ![s] = "taken"]
  /\ holder' = [holder EXCEPT ![s] = w]
  /\ wmsg' = [wmsg EXCEPT ![w] = s]
  /\ wkind' = [wkind EXCEPT ![w] = Kind(s)]
  /\ UNCHANGED <<drvVars, psVars, procVars, conn, allowed, mainVars, answer, killed>>

\* Variant with a defect: only the message is waited for.
WorkerWakeNoTerminate(w) ==
  /\ Up
  /\ wpc[w] = "waiting"
  /\ \/ /\ wmsg[w] # None
        /\ wpc' = [wpc EXCEPT ![w] = Handler(wkind[w])]
        /\ UNCHANGED <<drvVars, psVars, procVars, conn, mailVars, mainVars, wmsg, wkind, answer, killed>>
     \/ wmsg[w] = None /\ conn # "open" /\ StopWorker(w)

\* WaitForMultipleObjects: the terminate event comes first in the array, so a
\* message that was already received is then dropped without a reply.
WorkerWake(w) ==
  /\ Up
  /\ wpc[w] = "waiting"
  /\ \/ termEvent /\ StopWorker(w)
     \/ /\ ~termEvent /\ wmsg[w] # None
        /\ wpc' = [wpc EXCEPT ![w] = Handler(wkind[w])]
        /\ UNCHANGED <<drvVars, psVars, procVars, conn, mailVars, mainVars, wmsg, wkind, answer, killed>>
     \/ ~termEvent /\ wmsg[w] = None /\ conn # "open" /\ StopWorker(w)

\* Any other result of FilterGetMessage, the wait or GetOverlappedResult.
WorkerFails(w) ==
  /\ Up
  /\ wpc[w] \in {"get", "waiting"}
  /\ StopWorker(w)

\* Variant with a defect: OK and Cancel swapped in the reply.
UserAnswersSwapped(w, kill) ==
  /\ Up
  /\ wpc[w] = "dialog"
  /\ wpc' = [wpc EXCEPT ![w] = "replying"]
  /\ answer' = [answer EXCEPT ![w] = kill]
  /\ killed' = IF kill THEN killed \cup {wmsg[w]} ELSE killed
  /\ UNCHANGED <<drvVars, psVars, procVars, conn, mailVars, mainVars, wmsg, wkind>>

\* The message box: OK means kill.
UserAnswers(w, kill) ==
  /\ Up
  /\ wpc[w] = "dialog"
  /\ wpc' = [wpc EXCEPT ![w] = "replying"]
  /\ answer' = [answer EXCEPT ![w] = ~kill]
  /\ killed' = IF kill THEN killed \cup {wmsg[w]} ELSE killed
  /\ UNCHANGED <<drvVars, psVars, procVars, conn, mailVars, mainVars, wmsg, wkind>>

\* Variant with a defect: a version request gets no reply.
WorkerRepliesToNamesOnly(w) ==
  /\ Up
  /\ wpc[w] = "replying"
  /\ LET s == wmsg[w] IN
     IF conn = "open" /\ holder[s] = w /\ wkind[w] = "name"
       THEN /\ mail' = [mail EXCEPT ![s] = "replied"]
            /\ holder' = [holder EXCEPT ![s] = None]
            /\ allowed' = [allowed EXCEPT ![s] = answer[w]]
       ELSE UNCHANGED mailVars
  /\ wpc' = [wpc EXCEPT ![w] = "check"]
  /\ wmsg' = [wmsg EXCEPT ![w] = None]
  /\ UNCHANGED <<drvVars, psVars, procVars, conn, mainVars, wkind, answer, killed>>

\* Variant with a defect: the reply goes to whatever request the sender waits
\* for, not to the one with its MessageId.
WorkerRepliesToSender(w) ==
  /\ Up
  /\ wpc[w] = "replying"
  /\ LET s == wmsg[w] IN
     IF conn = "open" /\ Outstanding(s)
       THEN /\ mail' = [mail EXCEPT ![s] = "replied"]
            /\ holder' = [holder EXCEPT ![s] = None]
            /\ allowed' = [allowed EXCEPT ![s] = IF wkind[w] = "name" THEN answer[w] ELSE TRUE]
       ELSE UNCHANGED mailVars
  /\ wpc' = [wpc EXCEPT ![w] = "check"]
  /\ wmsg' = [wmsg EXCEPT ![w] = None]
  /\ UNCHANGED <<drvVars, psVars, procVars, conn, mainVars, wkind, answer, killed>>

\* FilterReplyMessage: matched by MessageId, an error is only logged.
WorkerReplies(w) ==
  /\ Up
  /\ wpc[w] = "replying"
  /\ LET s == wmsg[w] IN
     IF conn = "open" /\ holder[s] = w
       THEN /\ mail' = [mail EXCEPT ![s] = "replied"]
            /\ holder' = [holder EXCEPT ![s] = None]
            /\ allowed' = [allowed EXCEPT ![s] = IF wkind[w] = "name" THEN answer[w] ELSE TRUE]
       ELSE UNCHANGED mailVars
  /\ wpc' = [wpc EXCEPT ![w] = "check"]
  /\ wmsg' = [wmsg EXCEPT ![w] = None]
  /\ UNCHANGED <<drvVars, psVars, procVars, conn, mainVars, wkind, answer, killed>>

(***************************************************************************)
(* DriverUnload: UninitializeCommunication, then FltUnregisterFilter.  The *)
(* notify routine is not removed.                                          *)
(***************************************************************************)
\* Variant with a defect: the server port stays open.
UnloadKeepsServerPort ==
  /\ Up
  /\ drv = "running"
  /\ drv' = "closing"
  /\ UNCHANGED <<serverPort, clientPort, psVars, procVars, conn, mailVars, mainVars, workVars>>

UnloadCloseServerPort ==
  /\ Up
  /\ drv = "running"
  /\ drv' = "closing" /\ serverPort' = FALSE
  /\ UNCHANGED <<clientPort, psVars, procVars, conn, mailVars, mainVars, workVars>>

\* Variant with a defect: the pointer taken out of the slot is lost.
UnloadDropsClientPort ==
  /\ Up
  /\ drv = "closing"
  /\ drv' = "closed" /\ clientPort' = FALSE
  /\ UNCHANGED <<serverPort, psVars, procVars, conn, mailVars, mainVars, workVars>>

UnloadExchangeClientPort ==
  /\ Up
  /\ drv = "closing"
  /\ drv' = IF clientPort THEN "holding" ELSE "closed"
  /\ clientPort' = FALSE
  /\ UNCHANGED <<serverPort, psVars, procVars, conn, mailVars, mainVars, workVars>>

UnloadCloseClientPort ==
  /\ Up
  /\ drv = "holding"
  /\ drv' = "closed"
  /\ conn' = IF conn = "open" THEN "disconnected" ELSE conn
  /\ FailAll
  /\ UNCHANGED <<serverPort, clientPort, psVars, procVars, mainVars, workVars>>

\* FltUnregisterFilter disconnects the client that came across the unload.
UnregisterDisconnects ==
  /\ Up
  /\ drv = "closed" /\ conn = "open"
  /\ conn' = "disconnected" /\ clientPort' = FALSE
  /\ FailAll
  /\ UNCHANGED <<drv, serverPort, psVars, procVars, mainVars, workVars>>

\* It waits for the port's callbacks that are running; nothing waits for the
\* process-notify callback.
UnloadUnregister ==
  /\ Up
  /\ drv = "closed" /\ main \notin {"testing", "draining"} /\ conn \notin {"accepted", "open"}
  /\ drv' = "unloaded"
  /\ UNCHANGED <<serverPort, clientPort, psVars, procVars, conn, mailVars, mainVars, workVars>>

Unload == \/ UnloadExchangeClientPort \/ UnloadCloseClientPort
          \/ UnregisterDisconnects \/ UnloadUnregister

MainStep == \/ ClientConnectedCallback
            \/ \E w \in Workers : SpawnWorker(w)
            \/ SpawnDone \/ TestReturns \/ DisableReturns \/ Joined \/ ClientDisconnect

WorkerStep(w) == WorkerCheck(w) \/ WorkerGet(w) \/ WorkerWake(w) \/ WorkerReplies(w)

Next ==
  \/ \E s \in Senders : Send(s)
  \/ \E p \in Procs : \/ SenderTerminated(p) \/ ProcCreate(p) \/ ProcExit(p)
                      \/ CallbackReturns(p)
                      \/ NotifiesUnloadedImage(p) \/ ReturnsToUnloadedImage(p)
  \/ MainStep
  \/ Connect \/ ConnectFails \/ SpawnFails \/ TestCommand
  \/ EnableProcmon \/ EnableFails \/ DisableProcmon \/ ExitCommand \/ AppKilled
  \/ \E w \in Workers :
       \/ WorkerStep(w) \/ WorkerFails(w)
       \/ \E s \in Senders : TakeMessage(w, s)
       \/ \E kill \in BOOLEAN : UserAnswers(w, kill)
  \/ UnloadCloseServerPort
  \/ Unload

Spec == Init /\ [][Next]_vars

(***************************************************************************)
(* Fairness: threads that can run do; the filter manager serves its queue  *)
(* in order, so a message is not passed over for ever; the user answers    *)
(* every dialog.  Nobody has to type a command, create a process or unload *)
(* the driver, and no failure has to happen.                               *)
(***************************************************************************)
Fairness ==
  /\ \A s \in Senders : WF_vars(Send(s))
  /\ \A p \in Procs : WF_vars(CallbackReturns(p) \/ ReturnsToUnloadedImage(p))
  /\ WF_vars(MainStep)
  /\ \A w \in Workers : WF_vars(WorkerStep(w))
  /\ \A w \in Workers : WF_vars(\E kill \in BOOLEAN : UserAnswers(w, kill))
  /\ \A s \in Senders : SF_vars(\E w \in Workers : TakeMessage(w, s))
  /\ WF_vars(Unload)

FairSpec == Spec /\ Fairness

(***************************************************************************)
(* Properties                                                              *)
(***************************************************************************)
\* A creation is refused only if the user pressed OK in the dialog for that
\* very process: no failed send, lost answer, stale reply or version reply
\* turns into STATUS_ACCESS_DENIED.
DenialOnlyIfKilled ==
  \A p \in Procs : creationStatus[p] = "access_denied" => p \in killed

\* When GetAndLogProcDetails returns with a reply, the creation is refused if
\* and only if the user pressed OK for that process; without one it goes on.
KillTakesEffect ==
  [][\A p \in Procs : phase[p] = "asking" /\ phase'[p] # "asking" =>
        (creationStatus'[p] = "access_denied" <=> mail[p] = "replied" /\ p \in killed)]_vars

\* A reply reaches a request only from the worker that received that very
\* request, made for its kind: a version reply, or a dialog left over from a
\* request that has failed, never answers another one.
ReplyToItsRequest ==
  [][\A s \in Senders : mail[s] # "replied" /\ mail'[s] = "replied" =>
       \E w \in Workers : wpc[w] = "replying" /\ holder[s] = w /\ wkind[w] = Kind(s)]_vars

\* While gProcessNotifyRegistered is FALSE the kernel holds no reference to
\* the routine and no callback runs: unloading the driver is then safe.
OffMeansQuiet ==
  ~gProcessNotifyRegistered => ~registered /\ \A p \in Procs : ~InCallback(p)

\* The only unloads that stop the system are those with monitoring left on.
UnloadSafeWhenOff ==
  drv = "unloaded" /\ bugcheck => gProcessNotifyRegistered

\* When UninitializeCommunication has returned, the only client there may be is
\* one whose pointer was stored since it was taken out; nobody waits for the
\* answer of another, and in the end no client and no pointer is left.
NoClientAfterUnload ==
  drv \in {"closed", "unloaded"} =>
    /\ conn = "open" <=> clientPort
    /\ conn # "open" => \A s \in Senders : ~Outstanding(s)
    /\ drv = "unloaded" => conn \notin {"accepted", "open"}

\* Whoever waits in FltSendMessage waits at an open port, for a worker that is
\* free or for the one that has this very request in its buffer: that worker is
\* at work on it, or it has stopped.
RequestsAreInHand ==
  \A s \in Senders : Outstanding(s) =>
    /\ conn = "open"
    /\ mail[s] = "taken" => \E w \in Workers :
         /\ holder[s] = w /\ wmsg[w] = s /\ wkind[w] = Kind(s)
         /\ wpc[w] \in {"waiting", "dialog", "replying", "stopped"}

\* s waits in vain until the port closes: the worker that received its request
\* has stopped, or there is no worker left to receive it.
Stranded(s) ==
  /\ conn = "open"
  /\ \/ mail[s] = "taken" /\ wpc[holder[s]] = "stopped"
     \/ mail[s] = "queued" /\ \A w \in Workers : wpc[w] \in {"off", "stopped"}

\* The callback of a created or exiting process returns, unless it is stranded
\* for ever.
CallbackEnds ==
  \A p \in Procs : <>[]Stranded(p) \/ (InCallback(p) ~> ~InCallback(p) \/ bugcheck)

\* So do the commands that wait in the driver: "test" for the version reply,
\* "procmon_off" for the callbacks that run.
CommandEnds ==
  \/ \E s \in Senders : <>[]Stranded(s)
  \/ (main \in {"testing", "draining"} ~> main \notin {"testing", "draining"} \/ bugcheck)

\* "exit" ends, connected or not and with any number of workers running: each of
\* them sees the terminate event, whatever it was doing.
ExitEnds == main \in {"joining", "closing"} ~> main = "start" \/ bugcheck

\* DriverUnload ends, also with dialogs open and commands in the driver.
UnloadEnds == drv = "closing" ~> drv = "unloaded" \/ bugcheck

\* The gate the user sees: where each process stands at it.
Standing == [p \in Procs |->
  CASE phase[p] = "none" -> "none" [] phase[p] = "asking" -> "pending" [] phase[p] = "gone" -> "gone"
    [] OTHER -> IF creationStatus[p] = "success" THEN "admitted" ELSE "denied"]

Gate == INSTANCE ProcessGate WITH gate <- Standing, killed <- killed, Procs <- Procs

\* Monitoring implements the gate.
ImplementsGate == Gate!Spec

Switch == INSTANCE NotifySwitch WITH
  flag <- gProcessNotifyRegistered, running <- {p \in Procs : InCallback(p)}

\* The commands of test1, through its death, the unload and a bugcheck, turn
\* monitoring on and off as NotifySwitch has it.
ImplementsSwitch == Switch!Spec

\* Where the unload of ClientLink stands.
UnloadStage ==
  CASE drv = "running" -> "no" [] drv = "unloaded" -> "done" [] OTHER -> drv

Link == INSTANCE ClientLink WITH unload <- UnloadStage, link <- conn, pointer <- clientPort

\* The connection, the pointer and the unload are those of ClientLink, whatever
\* commands, requests and the death of the app do beside them.
ImplementsLink == Link!Spec
=============================================================================

--------------------------- MODULE DsmkPortProofs ---------------------------
(***************************************************************************)
(* Proofs about DsmkPort, for any processes and any number of workers: its *)
(* types, who may be refused, what the flag and the unload promise, that   *)
(* it implements ProcessGate, and that each answer finds its own request.  *)
(***************************************************************************)
EXTENDS DsmkPort, TLAPS

\* What a worker's buffer holds: only a process asks with PROC_INFO, and a
\* dialog is open only for such a request.
BufferInv ==
  \A w \in Workers :
    /\ wmsg[w] # None /\ wkind[w] = "name" => wmsg[w] \in Procs
    /\ wpc[w] = "dialog" => wmsg[w] # None /\ wkind[w] = "name"

TypeInv == TypeOK /\ BufferInv

\* A "not allowed" has come from the user at every place it passes through:
\* the worker's reply, the reply the filter manager delivered, the status.
AnswerInv ==
  /\ \A w \in Workers : wpc[w] = "replying" =>
       wmsg[w] # None /\ (wkind[w] = "name" /\ ~answer[w] => wmsg[w] \in killed)
  /\ \A s \in Senders : ~allowed[s] => s \in killed
  /\ DenialOnlyIfKilled

\* While the removal waits, the routine is already out of the kernel's list.
NotifyInv ==
  /\ OffMeansQuiet
  /\ main = "draining" => ~registered

\* The driver's pointer to the client port, the connection and the messages
\* waiting at it, through the steps of DriverUnload.
ConnInv ==
  /\ drv # "running" => ~serverPort
  /\ main = "connecting" <=> conn = "accepted"
  /\ clientPort => conn = "open"
  /\ conn = "open" /\ drv # "holding" => clientPort
  /\ drv = "holding" => ~clientPort /\ conn # "accepted"
  /\ drv = "unloaded" => conn \notin {"accepted", "open"}
  /\ \A s \in Senders : Outstanding(s) => conn = "open"

\* The system stops only with the driver still connected (EnableFails) or
\* with monitoring left on.
StopInv == bugcheck => conn = "open" \/ gProcessNotifyRegistered

\* No step of a callback, worker, the app or the unload breaks a type, or puts
\* a request of another kind before a dialog.
LEMMA TypeStep == TypeInv /\ [Next]_vars => TypeInv'
<1> SUFFICES ASSUME TypeInv, [Next]_vars PROVE TypeInv'
  OBVIOUS
<1> USE PortAssumption
    DEF TypeInv, TypeOK, BufferInv, Outstanding,
        Senders, DrvStates, Phases, ConnStates, MailStates, MainStates, WorkStates,
        vars, drvVars, psVars, procVars, mailVars, mainVars, workVars, Up
<1>1. ASSUME NEW s \in Senders, Send(s) PROVE TypeInv'
  BY <1>1 DEF Send
<1>2. ASSUME NEW p \in Procs, SenderTerminated(p) PROVE TypeInv'
  BY <1>2 DEF SenderTerminated, FailOne
<1>3. ASSUME NEW p \in Procs, ProcCreate(p) PROVE TypeInv'
  BY <1>3 DEF ProcCreate
<1>4. ASSUME NEW p \in Procs, ProcExit(p) PROVE TypeInv'
  BY <1>4 DEF ProcExit
<1>5. ASSUME NEW p \in Procs, CallbackReturns(p) PROVE TypeInv'
  BY <1>5 DEF CallbackReturns, InCallback
<1>6. ASSUME NEW p \in Procs, NotifiesUnloadedImage(p) PROVE TypeInv'
  BY <1>6 DEF NotifiesUnloadedImage
<1>7. ASSUME NEW p \in Procs, ReturnsToUnloadedImage(p) PROVE TypeInv'
  BY <1>7 DEF ReturnsToUnloadedImage
<1>8. ASSUME NEW w \in Workers, SpawnWorker(w) PROVE TypeInv'
  BY <1>8 DEF SpawnWorker
<1>9. CASE SpawnDone
  BY <1>9 DEF SpawnDone
<1>10. CASE TestReturns
  BY <1>10 DEF TestReturns
<1>11. CASE DisableReturns
  BY <1>11 DEF DisableReturns
<1>12. CASE Joined
  BY <1>12 DEF Joined
<1>13. CASE ClientDisconnect
  BY <1>13 DEF ClientDisconnect, FailAll
<1>14. CASE Connect \/ ClientConnectedCallback
  BY <1>14 DEF Connect, ClientConnectedCallback
<1>15. CASE ConnectFails
  BY <1>15 DEF ConnectFails
<1>16. CASE SpawnFails
  BY <1>16 DEF SpawnFails
<1>17. CASE TestCommand
  BY <1>17 DEF TestCommand, Commands
<1>18. CASE EnableProcmon
  BY <1>18 DEF EnableProcmon, Commands
<1>19. CASE EnableFails
  BY <1>19 DEF EnableFails, Commands
<1>20. CASE DisableProcmon
  BY <1>20 DEF DisableProcmon, Commands
<1>21. CASE ExitCommand
  BY <1>21 DEF ExitCommand
<1>22. CASE AppKilled
  BY <1>22 DEF AppKilled, FailOne
<1>23. ASSUME NEW w \in Workers, WorkerCheck(w) PROVE TypeInv'
  BY <1>23 DEF WorkerCheck, StopWorker
<1>24. ASSUME NEW w \in Workers, WorkerGet(w) PROVE TypeInv'
  BY <1>24 DEF WorkerGet, StopWorker
<1>25. ASSUME NEW w \in Workers, WorkerWake(w) PROVE TypeInv'
  BY <1>25 DEF WorkerWake, StopWorker, Handler
<1>26. ASSUME NEW w \in Workers, WorkerReplies(w) PROVE TypeInv'
  <2> DEFINE verdict == IF wkind[w] = "name" THEN answer[w] ELSE TRUE
  <2>1. verdict \in BOOLEAN
    OBVIOUS
  <2>2. allowed' = allowed \/ allowed' = [allowed EXCEPT ![wmsg[w]] = verdict]
    BY <1>26 DEF WorkerReplies
  <2>3. allowed' \in [Senders -> BOOLEAN]
    <3> HIDE DEF verdict
    <3> QED BY <2>1, <2>2
  <2>4. /\ mail' \in [Senders -> MailStates] /\ holder' \in [Senders -> Workers \cup {None}]
        /\ wpc' \in [Workers -> WorkStates] /\ wmsg' \in [Workers -> Senders \cup {None}]
    <3>1. mail' = mail \/ mail' = [mail EXCEPT ![wmsg[w]] = "replied"]
      BY <1>26 DEF WorkerReplies
    <3>2. holder' = holder \/ holder' = [holder EXCEPT ![wmsg[w]] = None]
      BY <1>26 DEF WorkerReplies
    <3>3. wpc' = [wpc EXCEPT ![w] = "check"] /\ wmsg' = [wmsg EXCEPT ![w] = None]
      BY <1>26 DEF WorkerReplies
    <3>4. mail' \in [Senders -> MailStates]
      BY <3>1
    <3>5. holder' \in [Senders -> Workers \cup {None}]
      BY <3>2
    <3>6. wpc' \in [Workers -> WorkStates] /\ wmsg' \in [Workers -> Senders \cup {None}]
      BY <3>3
    <3> QED BY <3>4, <3>5, <3>6
  <2>5. UNCHANGED <<drvVars, psVars, bugcheck, procVars, conn, mainVars, wkind, answer, killed>>
    BY <1>26 DEF WorkerReplies
  <2>6. TypeOK'
    BY <2>3, <2>4, <2>5
  <2>7. BufferInv'
    BY <1>26 DEF WorkerReplies
  <2> HIDE DEF TypeOK, BufferInv
  <2> QED
    BY <2>6, <2>7
<1>27. ASSUME NEW w \in Workers, WorkerFails(w) PROVE TypeInv'
  BY <1>27 DEF WorkerFails, StopWorker
<1>28. ASSUME NEW w \in Workers, NEW s \in Senders, TakeMessage(w, s) PROVE TypeInv'
  BY <1>28 DEF TakeMessage, Handler, Kind
<1>29. ASSUME NEW w \in Workers, NEW kill \in BOOLEAN, UserAnswers(w, kill) PROVE TypeInv'
  BY <1>29 DEF UserAnswers
<1>30. CASE UnloadCloseServerPort
  BY <1>30 DEF UnloadCloseServerPort
<1>31. CASE UnloadExchangeClientPort
  <2>1. drv' \in DrvStates
    BY <1>31 DEF UnloadExchangeClientPort
  <2> QED
    BY <1>31, <2>1 DEF UnloadExchangeClientPort
<1>32. CASE UnloadCloseClientPort
  <2>1. mail' \in [Senders -> MailStates] /\ holder' \in [Senders -> Workers \cup {None}]
    BY <1>32 DEF UnloadCloseClientPort, FailAll
  <2>2. conn' \in ConnStates
    BY <1>32 DEF UnloadCloseClientPort
  <2>3. BufferInv'
    BY <1>32 DEF UnloadCloseClientPort, FailAll
  <2> QED
    BY <1>32, <2>1, <2>2, <2>3 DEF UnloadCloseClientPort, FailAll
<1>33. CASE UnregisterDisconnects
  BY <1>33 DEF UnregisterDisconnects, FailAll
<1>34. CASE UnloadUnregister
  BY <1>34 DEF UnloadUnregister
<1>35. CASE UNCHANGED vars
  BY <1>35
<1> QED
  BY <1>1, <1>2, <1>3, <1>4, <1>5, <1>6, <1>7, <1>8, <1>9, <1>10, <1>11,
     <1>12, <1>13, <1>14, <1>15, <1>16, <1>17, <1>18, <1>19, <1>20, <1>21,
     <1>22, <1>23, <1>24, <1>25, <1>26, <1>27, <1>28, <1>29, <1>30, <1>31,
     <1>32, <1>33, <1>34, <1>35
  DEF Next, MainStep, WorkerStep, Unload

\* No step makes up a "not allowed": each hands on one the user gave.
LEMMA AnswerStep == TypeInv /\ AnswerInv /\ [Next]_vars => AnswerInv'
<1> SUFFICES ASSUME TypeInv, AnswerInv, [Next]_vars PROVE AnswerInv'
  OBVIOUS
<1> USE PortAssumption
    DEF TypeInv, TypeOK, BufferInv, AnswerInv, DenialOnlyIfKilled, Senders,
        vars, drvVars, psVars, procVars, mailVars, mainVars, workVars, Up
<1>1. ASSUME NEW p \in Procs, CallbackReturns(p) PROVE AnswerInv'
  BY <1>1 DEF CallbackReturns, InCallback
<1>2. ASSUME NEW w \in Workers, SpawnWorker(w) PROVE AnswerInv'
  BY <1>2 DEF SpawnWorker
<1>3. CASE AppKilled
  BY <1>3 DEF AppKilled, FailOne
<1>4. CASE ClientDisconnect
  BY <1>4 DEF ClientDisconnect, FailAll
<1>5. ASSUME NEW w \in Workers, WorkerCheck(w) PROVE AnswerInv'
  BY <1>5 DEF WorkerCheck, StopWorker
<1>6. ASSUME NEW w \in Workers, WorkerGet(w) PROVE AnswerInv'
  BY <1>6 DEF WorkerGet, StopWorker
<1>7. ASSUME NEW w \in Workers, NEW s \in Senders, TakeMessage(w, s) PROVE AnswerInv'
  BY <1>7 DEF TakeMessage, Handler, Kind
<1>8. ASSUME NEW w \in Workers, WorkerWake(w) PROVE AnswerInv'
  BY <1>8 DEF WorkerWake, StopWorker, Handler
<1>9. ASSUME NEW w \in Workers, WorkerFails(w) PROVE AnswerInv'
  BY <1>9 DEF WorkerFails, StopWorker
<1>10. ASSUME NEW w \in Workers, NEW kill \in BOOLEAN, UserAnswers(w, kill) PROVE AnswerInv'
  BY <1>10 DEF UserAnswers
<1>11. ASSUME NEW w \in Workers, WorkerReplies(w) PROVE AnswerInv'
  <2> DEFINE verdict == IF wkind[w] = "name" THEN answer[w] ELSE TRUE
  <2>1. allowed' = allowed \/ allowed' = [allowed EXCEPT ![wmsg[w]] = verdict]
    BY <1>11 DEF WorkerReplies
  <2>2. ~verdict => wmsg[w] \in killed
    BY <1>11 DEF WorkerReplies
  <2>3. ASSUME NEW s \in Senders, ~allowed'[s] PROVE s \in killed
    <3> HIDE DEF verdict
    <3>1. CASE allowed' = allowed
      BY <2>3, <3>1
    <3>2. CASE allowed' = [allowed EXCEPT ![wmsg[w]] = verdict] /\ s = wmsg[w]
      BY <2>2, <2>3, <3>2
    <3>3. CASE allowed' = [allowed EXCEPT ![wmsg[w]] = verdict] /\ s # wmsg[w]
      BY <2>3, <3>3
    <3> QED
      BY <2>1, <3>1, <3>2, <3>3
  <2> QED
    BY <1>11, <2>3 DEF WorkerReplies
<1>12. CASE UNCHANGED <<creationStatus, allowed, workVars>>
  BY <1>12
<1> QED
  BY <1>1, <1>2, <1>3, <1>4, <1>5, <1>6, <1>7, <1>8, <1>9, <1>10, <1>11, <1>12
  DEF Next, MainStep, WorkerStep, Unload, Send, SenderTerminated, ProcCreate,
      ProcExit, NotifiesUnloadedImage, ReturnsToUnloadedImage, SpawnDone,
      TestReturns, DisableReturns, Joined, Connect, ClientConnectedCallback, ConnectFails, SpawnFails,
      TestCommand, EnableProcmon, EnableFails, DisableProcmon, ExitCommand,
      UnloadCloseServerPort, UnloadExchangeClientPort, UnloadCloseClientPort, UnregisterDisconnects,
      UnloadUnregister, FailOne, FailAll

\* With the flag clear and no removal under way nothing enters the callback.
LEMMA NotifyStep == TypeOK /\ NotifyInv /\ [Next]_vars => NotifyInv'
<1> SUFFICES ASSUME TypeOK, NotifyInv, [Next]_vars PROVE NotifyInv'
  OBVIOUS
<1> USE DEF NotifyInv, OffMeansQuiet, InCallback,
            vars, drvVars, psVars, procVars, mailVars, mainVars, workVars, Up
<1>1. ASSUME NEW p \in Procs, ProcCreate(p) PROVE NotifyInv'
  BY <1>1 DEF ProcCreate, TypeOK
<1>2. ASSUME NEW p \in Procs, ProcExit(p) PROVE NotifyInv'
  BY <1>2 DEF ProcExit, TypeOK
<1>3. ASSUME NEW p \in Procs, CallbackReturns(p) PROVE NotifyInv'
  BY <1>3 DEF CallbackReturns, InCallback, TypeOK, Phases
<1>4. CASE EnableProcmon
  BY <1>4 DEF EnableProcmon, Commands
<1>5. CASE DisableProcmon
  BY <1>5 DEF DisableProcmon, Commands
<1>6. CASE DisableReturns
  BY <1>6 DEF DisableReturns
<1>7. CASE UNCHANGED <<psVars, phase>> /\ (main' = "draining" => main = "draining")
  BY <1>7
<1> QED
  BY <1>1, <1>2, <1>3, <1>4, <1>5, <1>6, <1>7
  DEF Next, MainStep, WorkerStep, Unload, Send, SenderTerminated,
      NotifiesUnloadedImage, ReturnsToUnloadedImage, SpawnWorker, SpawnDone,
      TestReturns, Joined, ClientDisconnect, Connect, ClientConnectedCallback, ConnectFails,
      SpawnFails, TestCommand, EnableFails, ExitCommand, AppKilled,
      WorkerCheck, WorkerGet, WorkerWake, WorkerReplies, WorkerFails,
      TakeMessage, UserAnswers, UnloadCloseServerPort,
      UnloadExchangeClientPort, UnloadCloseClientPort, UnregisterDisconnects, UnloadUnregister,
      StopWorker, FailOne, FailAll

\* test1 is in FilterConnectCommunicationPort from its call to the callback in it.
LEMMA Connecting ==
  ASSUME [Next]_vars, ~Connect, ~ClientConnectedCallback
  PROVE  main = "connecting" <=> main' = "connecting"
<1> USE DEF vars, mainVars
<1>1. CASE UNCHANGED main
  BY <1>1
<1>2. CASE MainStep
  BY <1>2 DEF MainStep, SpawnWorker, SpawnDone, TestReturns, DisableReturns, Joined, ClientDisconnect
<1>3. CASE ConnectFails \/ SpawnFails \/ TestCommand \/ DisableProcmon \/ ExitCommand \/ AppKilled
  BY <1>3 DEF ConnectFails, SpawnFails, TestCommand, Commands, DisableProcmon, ExitCommand, AppKilled
<1> QED
  BY <1>1, <1>2, <1>3
  DEF Next, Send, SenderTerminated, ProcCreate, ProcExit, CallbackReturns, NotifiesUnloadedImage,
      ReturnsToUnloadedImage, EnableProcmon, EnableFails, WorkerStep, WorkerCheck, WorkerGet,
      WorkerWake, WorkerReplies, WorkerFails, TakeMessage, UserAnswers, StopWorker,
      UnloadCloseServerPort, Unload, UnloadExchangeClientPort, UnloadCloseClientPort,
      UnregisterDisconnects, UnloadUnregister

\* The unload, once it has closed a port, finds it closed at each later step.
LEMMA ConnStep == TypeOK /\ ConnInv /\ [Next]_vars => ConnInv'
<1> SUFFICES ASSUME TypeOK, ConnInv, [Next]_vars PROVE ConnInv'
  OBVIOUS
<1> USE PortAssumption
    DEF TypeOK, ConnInv, Outstanding, Senders, DrvStates, ConnStates,
        vars, drvVars, psVars, procVars, mailVars, mainVars, workVars, Up
<1>1. ASSUME NEW s \in Senders, Send(s) PROVE ConnInv'
  BY <1>1 DEF Send
<1>2. ASSUME NEW p \in Procs, SenderTerminated(p) PROVE ConnInv'
  BY <1>2 DEF SenderTerminated, FailOne
<1>3. ASSUME NEW p \in Procs, CallbackReturns(p) PROVE ConnInv'
  BY <1>3 DEF CallbackReturns, InCallback
<1>4. CASE TestReturns
  BY <1>4 DEF TestReturns
<1>5. CASE AppKilled
  BY <1>5 DEF AppKilled, FailOne
<1>6. CASE Connect \/ ClientConnectedCallback
  BY <1>6 DEF Connect, ClientConnectedCallback
<1>7. CASE ClientDisconnect
  BY <1>7 DEF ClientDisconnect, FailAll
<1>8. ASSUME NEW w \in Workers, NEW s \in Senders, TakeMessage(w, s) PROVE ConnInv'
  BY <1>8 DEF TakeMessage, Handler, Kind
<1>9. ASSUME NEW w \in Workers, WorkerReplies(w) PROVE ConnInv'
  BY <1>9 DEF WorkerReplies
<1>10. CASE UnloadCloseServerPort
  BY <1>10 DEF UnloadCloseServerPort
<1>11. CASE UnloadExchangeClientPort
  BY <1>11 DEF UnloadExchangeClientPort
<1>12. CASE UnloadCloseClientPort \/ UnregisterDisconnects
  BY <1>12 DEF UnloadCloseClientPort, UnregisterDisconnects, FailAll
<1>13. CASE UnloadUnregister
  BY <1>13 DEF UnloadUnregister
<1>14. CASE UNCHANGED <<drvVars, conn, mail>> /\ ~Connect /\ ~ClientConnectedCallback
  BY <1>14, Connecting
<1> QED
  BY <1>1, <1>2, <1>3, <1>4, <1>5, <1>6, <1>7, <1>8, <1>9, <1>10, <1>11,
     <1>12, <1>13, <1>14
  DEF Next, MainStep, WorkerStep, Unload, ProcCreate, ProcExit,
      NotifiesUnloadedImage, ReturnsToUnloadedImage, SpawnWorker, SpawnDone,
      DisableReturns, Joined, ConnectFails, SpawnFails, TestCommand,
      EnableProcmon, EnableFails, DisableProcmon, ExitCommand, WorkerCheck,
      WorkerGet, WorkerWake, WorkerFails, UserAnswers, StopWorker

\* The only steps that stop the system need the flag or a running callback.
LEMMA StopStep == NotifyInv /\ StopInv /\ [Next]_vars => StopInv'
<1> SUFFICES ASSUME NotifyInv, StopInv, [Next]_vars PROVE StopInv'
  OBVIOUS
<1> USE DEF NotifyInv, OffMeansQuiet, StopInv, vars, drvVars, psVars, Up
<1>1. ASSUME NEW p \in Procs, NotifiesUnloadedImage(p) PROVE StopInv'
  BY <1>1 DEF NotifiesUnloadedImage
<1>2. ASSUME NEW p \in Procs, ReturnsToUnloadedImage(p) PROVE StopInv'
  BY <1>2 DEF ReturnsToUnloadedImage
<1>3. CASE EnableFails
  BY <1>3 DEF EnableFails, Commands
<1>4. CASE Up \/ UNCHANGED vars
  BY <1>4
<1> QED
  BY <1>1, <1>2, <1>3, <1>4
  DEF Next, MainStep, WorkerStep, Unload, Send, SenderTerminated, ProcCreate,
      ProcExit, CallbackReturns, SpawnWorker, SpawnDone, TestReturns,
      DisableReturns, Joined, ClientDisconnect, Connect, ClientConnectedCallback, ConnectFails,
      SpawnFails, TestCommand, EnableProcmon, DisableProcmon, ExitCommand,
      AppKilled, WorkerCheck, WorkerGet, WorkerWake, WorkerReplies,
      WorkerFails, TakeMessage, UserAnswers, UnloadCloseServerPort,
      UnloadExchangeClientPort, UnloadCloseClientPort, UnregisterDisconnects, UnloadUnregister,
      StopWorker, FailOne, FailAll

(***************************************************************************)
(* The inductive invariant                                                 *)
(***************************************************************************)
Inv == TypeInv /\ AnswerInv /\ NotifyInv /\ ConnInv /\ StopInv

\* The driver just loaded, with no client, has all of it.
LEMMA InvInit == Init => Inv
<1> SUFFICES ASSUME Init PROVE Inv
  OBVIOUS
<1> USE PortAssumption DEF Init, Senders
<1>1. TypeOK
  BY DEF TypeOK, DrvStates, Phases, ConnStates, MailStates, MainStates, WorkStates
<1>2. BufferInv
  BY DEF BufferInv
<1>3. AnswerInv
  BY DEF AnswerInv, DenialOnlyIfKilled
<1>4. NotifyInv
  BY DEF NotifyInv, OffMeansQuiet, InCallback
<1>5. ConnInv
  BY DEF ConnInv, Outstanding
<1>6. StopInv
  BY DEF StopInv
<1> QED
  BY <1>1, <1>2, <1>3, <1>4, <1>5, <1>6 DEF Inv, TypeInv

\* The five parts together are kept by every step.
LEMMA InvStep == Inv /\ [Next]_vars => Inv'
  BY TypeStep, AnswerStep, NotifyStep, ConnStep, StopStep DEF Inv, TypeInv

\* So they hold in every state the driver, the app and the user can reach.
LEMMA Invariance == Spec => []Inv
  BY InvInit, InvStep, PTL DEF Spec

\* Every variable keeps its type, for any set of processes and any number of
\* worker threads.
THEOREM TypeCorrect == Spec => []TypeOK
  BY Invariance, PTL DEF Inv, TypeInv

\* GetAndLogProcDetails refuses the creation only of a process the user asked
\* to kill, whatever fails, is lost or comes late.
THEOREM DenialJustified == Spec => []DenialOnlyIfKilled
  BY Invariance, PTL DEF Inv, AnswerInv

\* With gProcessNotifyRegistered clear, DrvUninitializeProcNotify has left no
\* registration and no running callback behind.
THEOREM OffIsQuiet == Spec => []OffMeansQuiet
  BY Invariance, PTL DEF Inv, NotifyInv

\* UninitializeCommunication leaves no client, no pointer and no waiter, but for
\* a client that gets the pointer afterwards; FltUnregisterFilter leaves none.
THEOREM UnloadDisconnects == Spec => []NoClientAfterUnload
<1>1. Inv => NoClientAfterUnload
  BY DEF Inv, ConnInv, NoClientAfterUnload
<1> QED
  BY <1>1, Invariance, PTL

\* A driver unloaded with monitoring off does not stop the system.
THEOREM UnloadIsSafeWhenOff == Spec => []UnloadSafeWhenOff
<1>1. Inv => UnloadSafeWhenOff
  BY DEF Inv, ConnInv, StopInv, UnloadSafeWhenOff
<1> QED
  BY <1>1, Invariance, PTL

(***************************************************************************)
(* Monitoring implements the gate                                          *)
(***************************************************************************)
\* The creation status is untouched until the answer is in, and a message is
\* only ever about a process that has been created.
GateInv ==
  /\ \A p \in Procs : phase[p] \in {"none", "asking"} => creationStatus[p] = "success"
  /\ \A p \in Procs : phase[p] = "none" => mail[p] = "none"
  /\ \A w \in Workers, p \in Procs : wmsg[w] = p => phase[p] # "none"

\* A process at a place of the port's model is at the matching place of the
\* gate: no request is held for a process that is not there.
LEMMA GateStep == TypeInv /\ GateInv /\ [Next]_vars => GateInv'
<1> SUFFICES ASSUME TypeInv, GateInv, [Next]_vars PROVE GateInv'
  OBVIOUS
<1> USE PortAssumption
    DEF TypeInv, TypeOK, GateInv, Senders, Phases, InCallback, Outstanding,
        vars, drvVars, psVars, procVars, mailVars, mainVars, workVars, Up
<1>1. ASSUME NEW s \in Senders, Send(s) PROVE GateInv'
  BY <1>1 DEF Send, Sending
<1>2. ASSUME NEW p \in Procs, SenderTerminated(p) PROVE GateInv'
  BY <1>2 DEF SenderTerminated, FailOne
<1>3. ASSUME NEW p \in Procs, ProcCreate(p) PROVE GateInv'
  BY <1>3 DEF ProcCreate
<1>4. ASSUME NEW p \in Procs, ProcExit(p) PROVE GateInv'
  BY <1>4 DEF ProcExit
<1>5. ASSUME NEW p \in Procs, CallbackReturns(p) PROVE GateInv'
  BY <1>5 DEF CallbackReturns, InCallback
<1>6. CASE TestReturns
  BY <1>6 DEF TestReturns
<1>7. CASE AppKilled
  BY <1>7 DEF AppKilled, FailOne
<1>8. CASE ClientDisconnect
  BY <1>8 DEF ClientDisconnect, FailAll
<1>9. ASSUME NEW w \in Workers, NEW s \in Senders, TakeMessage(w, s) PROVE GateInv'
  BY <1>9 DEF TakeMessage, Handler, Kind
<1>10. ASSUME NEW w \in Workers, WorkerReplies(w) PROVE GateInv'
  <2>1. UNCHANGED procVars
    BY <1>10 DEF WorkerReplies
  <2>2. \A p \in Procs : mail'[p] = mail[p] \/ p = wmsg[w]
    BY <1>10 DEF WorkerReplies
  <2>3. \A v \in Workers : wmsg'[v] = wmsg[v] \/ wmsg'[v] = None
    BY <1>10 DEF WorkerReplies
  <2> QED
    BY <2>1, <2>2, <2>3
<1>11. CASE UnloadCloseClientPort \/ UnregisterDisconnects
  BY <1>11 DEF UnloadCloseClientPort, UnregisterDisconnects, FailAll
<1>12. CASE UNCHANGED <<procVars, mail, wmsg>>
  BY <1>12
<1> QED
  BY <1>1, <1>2, <1>3, <1>4, <1>5, <1>6, <1>7, <1>8, <1>9, <1>10, <1>11, <1>12
  DEF Next, MainStep, WorkerStep, Unload, NotifiesUnloadedImage,
      ReturnsToUnloadedImage, SpawnWorker, SpawnDone, DisableReturns, Joined,
      Connect, ClientConnectedCallback, ConnectFails, SpawnFails, TestCommand, EnableProcmon,
      EnableFails, DisableProcmon, ExitCommand, WorkerCheck, WorkerGet,
      WorkerWake, WorkerFails, UserAnswers, UnloadCloseServerPort,
      UnloadExchangeClientPort, UnloadUnregister, StopWorker

\* So the matching holds in every reachable state.
LEMMA GateInvariance == Spec => []GateInv
<1>1. Init => GateInv
  BY PortAssumption DEF Init, GateInv, Senders
<1> QED
  BY <1>1, Invariance, GateStep, PTL DEF Spec, Inv

\* Where p stands at the gate, from its phase and its status.
GateOf(p) ==
  CASE phase[p] = "none" -> "none" [] phase[p] = "asking" -> "pending" [] phase[p] = "gone" -> "gone"
    [] OTHER -> IF creationStatus[p] = "success" THEN "admitted" ELSE "denied"

\* A step that moves one process moves the gate at that process only.
LEMMA GateMoves ==
  ASSUME NEW p \in Procs, NEW g,
         GateOf(p)' = g, \A q \in Procs \ {p} : phase'[q] = phase[q] /\ creationStatus'[q] = creationStatus[q]
  PROVE  Standing' = [Standing EXCEPT ![p] = g]
  BY DEF Standing, GateOf

\* Every step is a step of the gate or leaves it as it is: a callback that
\* returns admits, denies or lets an exit pass, a user's answer may kill,
\* and everything else is internal.
LEMMA GateStepSimulation ==
  TypeInv /\ AnswerInv /\ GateInv /\ [Next]_vars => [Gate!Next]_(Gate!vars)
<1> SUFFICES ASSUME TypeInv, AnswerInv, GateInv, [Next]_vars
             PROVE  [Gate!Next]_(Gate!vars)
  OBVIOUS
<1> USE DEF TypeInv, TypeOK
<1>1. ASSUME NEW p \in Procs, ProcCreate(p) PROVE Gate!Refer(p) \/ Gate!Admit(p)
  <2> USE <1>1 DEF ProcCreate, procVars, workVars
  <2>1. Standing[p] = "none" /\ killed' = killed
    BY DEF Standing
  <2>2. CASE registered
    <3>1. GateOf(p)' = "pending"
      BY <2>2 DEF GateOf
    <3> QED BY <2>1, <3>1, GateMoves DEF Gate!Refer
  <2>3. CASE ~registered
    <3>1. GateOf(p)' = "admitted"
      BY <2>3 DEF GateOf, GateInv
    <3> QED BY <2>1, <3>1, GateMoves DEF Gate!Admit
  <2> QED BY <2>2, <2>3
<1>2. ASSUME NEW p \in Procs, ProcExit(p) PROVE Gate!Leave(p) \/ UNCHANGED Gate!vars
  <2> USE <1>2 DEF ProcExit, procVars, workVars
  <2>1. Standing[p] \in {"admitted", "denied"} /\ killed' = killed
    BY DEF Standing
  <2>2. CASE registered
    BY <2>1, <2>2 DEF Standing, Gate!vars
  <2>3. CASE ~registered
    <3>1. GateOf(p)' = "gone"
      BY <2>3 DEF GateOf
    <3> QED BY <2>1, <3>1, GateMoves DEF Gate!Leave
  <2> QED BY <2>2, <2>3
<1>3. ASSUME NEW p \in Procs, CallbackReturns(p)
      PROVE  Gate!Admit(p) \/ Gate!Deny(p) \/ Gate!Leave(p) \/ UNCHANGED Gate!vars
  <2> USE <1>3 DEF CallbackReturns, procVars, workVars
  <2>1. killed' = killed
    OBVIOUS
  <2>2. CASE phase[p] = "asking" /\ creationStatus'[p] = "access_denied"
    <3>1. GateOf(p)' = "denied" /\ Standing[p] = "pending"
      BY <2>2 DEF GateOf, Standing
    <3>2. p \in killed
      BY <2>2 DEF AnswerInv, GateInv, Senders
    <3> QED BY <2>1, <3>1, <3>2, GateMoves DEF Gate!Deny
  <2>3. CASE phase[p] = "asking" /\ creationStatus'[p] # "access_denied"
    <3>1. GateOf(p)' = "admitted" /\ Standing[p] = "pending"
      BY <2>3 DEF GateOf, Standing, GateInv
    <3> QED BY <2>1, <3>1, GateMoves DEF Gate!Admit
  <2>4. CASE phase[p] = "greeting"
    BY <2>4 DEF Standing, Gate!vars
  <2>5. CASE phase[p] = "exiting"
    <3>1. GateOf(p)' = "gone" /\ Standing[p] \in {"admitted", "denied"}
      BY <2>5 DEF GateOf, Standing
    <3> QED BY <2>1, <3>1, GateMoves DEF Gate!Leave
  <2> QED BY <2>2, <2>3, <2>4, <2>5 DEF InCallback
<1>4. ASSUME NEW w \in Workers, NEW kill \in BOOLEAN, UserAnswers(w, kill)
      PROVE  (\E p \in Procs : Gate!Kill(p)) \/ UNCHANGED Gate!vars
  <2> USE <1>4 DEF UserAnswers, procVars
  <2>1. UNCHANGED Standing
    BY DEF Standing
  <2>2. CASE kill
    <3>1. wmsg[w] \in Procs /\ Standing[wmsg[w]] # "none"
      BY DEF BufferInv, GateInv, Standing
    <3> QED BY <2>1, <2>2, <3>1 DEF Gate!Kill
  <2>3. CASE ~kill
    BY <2>1, <2>3 DEF Gate!vars
  <2> QED BY <2>2, <2>3
<1>5. CASE UNCHANGED <<procVars, killed>>
  BY <1>5 DEF Standing, Gate!vars, procVars
<1> QED
  <2>1. \/ \E p \in Procs : ProcCreate(p) \/ ProcExit(p) \/ CallbackReturns(p)
        \/ \E w \in Workers, kill \in BOOLEAN : UserAnswers(w, kill)
        \/ UNCHANGED <<procVars, killed>>
    BY DEF Next, MainStep, WorkerStep, Unload, Send, SenderTerminated,
           NotifiesUnloadedImage, ReturnsToUnloadedImage, SpawnWorker, SpawnDone,
           TestReturns, DisableReturns, Joined, ClientDisconnect, Connect, ClientConnectedCallback,
           ConnectFails, SpawnFails, TestCommand, EnableProcmon, EnableFails,
           DisableProcmon, ExitCommand, AppKilled, WorkerCheck, WorkerGet,
           WorkerWake, WorkerReplies, WorkerFails, TakeMessage,
           UnloadCloseServerPort, UnloadExchangeClientPort,
           UnloadCloseClientPort, UnregisterDisconnects, UnloadUnregister, StopWorker,
           vars, procVars, workVars
  <2> QED
    BY <1>1, <1>2, <1>3, <1>4, <1>5, <2>1 DEF Gate!Next

\* The callback, the port, the workers and the user together implement
\* ProcessGate, through every failure of the model.
THEOREM GateImplemented == Spec => ImplementsGate
<1>1. Init => Gate!Init
  BY DEF Init, Gate!Init, Standing
<1> QED
  BY <1>1, GateStepSimulation, Invariance, GateInvariance, PTL
  DEF Spec, Inv, ImplementsGate, Gate!Spec

(***************************************************************************)
(* The commands implement the switch                                       *)
(***************************************************************************)
\* Flag and registration differ only while the removal waits.
SwitchInv ==
  /\ main = "draining" => gProcessNotifyRegistered /\ ~registered
  /\ main # "draining" => registered = gProcessNotifyRegistered

\* What no step but the three commands' does to the switch.
SwitchKept == UNCHANGED psVars /\ (main' = "draining" <=> main = "draining")

\* Registration, removal and its return set flag and registration; every other
\* step, the app's death among them, leaves them and the removal as they are.
LEMMA SwitchChanges ==
  ASSUME [Next]_vars
  PROVE  EnableProcmon \/ DisableProcmon \/ DisableReturns \/ SwitchKept
  BY DEF SwitchKept, Next, MainStep, WorkerStep, Unload, Send, SenderTerminated,
         ProcCreate, ProcExit, CallbackReturns, NotifiesUnloadedImage,
         ReturnsToUnloadedImage, SpawnWorker, SpawnDone, TestReturns, Joined,
         ClientDisconnect, Connect, ClientConnectedCallback, ConnectFails, SpawnFails, TestCommand, Commands,
         EnableFails, ExitCommand, AppKilled, WorkerCheck, WorkerGet,
         WorkerWake, WorkerReplies, WorkerFails, TakeMessage, UserAnswers,
         UnloadCloseServerPort, UnloadExchangeClientPort, UnloadCloseClientPort, UnregisterDisconnects,
         UnloadUnregister, StopWorker, vars, psVars, mainVars

\* So a command finds the two as the one before has left them.
LEMMA SwitchInvStep == TypeOK /\ SwitchInv /\ [Next]_vars => SwitchInv'
<1> SUFFICES ASSUME TypeOK, SwitchInv, [Next]_vars PROVE SwitchInv'
  OBVIOUS
<1>1. CASE EnableProcmon
  BY <1>1 DEF SwitchInv, EnableProcmon, Commands, mainVars
<1>2. CASE DisableProcmon
  BY <1>2 DEF SwitchInv, DisableProcmon, Commands
<1>3. CASE DisableReturns
  BY <1>3 DEF SwitchInv, DisableReturns, TypeOK
<1>4. CASE SwitchKept
  BY <1>4 DEF SwitchInv, SwitchKept, psVars
<1> QED
  BY <1>1, <1>2, <1>3, <1>4, SwitchChanges

LEMMA SwitchInvariance == Spec => []SwitchInv
<1>1. Init => SwitchInv
  BY DEF Init, SwitchInv
<1> QED
  BY <1>1, Invariance, SwitchInvStep, PTL DEF Spec, Inv, TypeInv

\* The processes whose callback runs.
Running == {p \in Procs : InCallback(p)}

\* A callback starts in a process that has none, or ends, and only while the
\* routine is registered may it start.
LEMMA RunningChanges ==
  ASSUME TypeOK, [Next]_vars
  PROVE  \/ Running' = Running
         \/ \E p \in Procs :
              \/ registered /\ p \notin Running /\ Running' = Running \cup {p} /\ SwitchKept
              \/ p \in Running /\ Running' = Running \ {p} /\ SwitchKept
<1> USE DEF TypeOK, InCallback, Running, SwitchKept, mainVars, procVars
<1>1. ASSUME NEW p \in Procs, ProcCreate(p)
      PROVE  IF registered THEN p \notin Running /\ Running' = Running \cup {p} /\ SwitchKept
                           ELSE Running' = Running
  BY <1>1 DEF ProcCreate
<1>2. ASSUME NEW p \in Procs, ProcExit(p)
      PROVE  IF registered THEN p \notin Running /\ Running' = Running \cup {p} /\ SwitchKept
                           ELSE Running' = Running
  BY <1>2 DEF ProcExit
<1>3. ASSUME NEW p \in Procs, CallbackReturns(p)
      PROVE  IF phase[p] = "asking" THEN Running' = Running
                           ELSE p \in Running /\ Running' = Running \ {p} /\ SwitchKept
  <2>1. SwitchKept /\ p \in Running
    BY <1>3 DEF CallbackReturns
  <2>2. \A q \in Procs \ {p} : phase'[q] = phase[q]
    BY <1>3 DEF CallbackReturns
  <2>3. phase'[p] = IF phase[p] = "asking" THEN "greeting" ELSE IF phase[p] = "greeting" THEN "live" ELSE "gone"
    BY <1>3 DEF CallbackReturns
  <2> QED
    BY <2>1, <2>2, <2>3
<1>4. CASE UNCHANGED phase
  BY <1>4
<1> QED
  BY <1>1, <1>2, <1>3, <1>4
  DEF Next, MainStep, WorkerStep, Unload, Send, SenderTerminated,
      NotifiesUnloadedImage, ReturnsToUnloadedImage, SpawnWorker, SpawnDone,
      TestReturns, DisableReturns, Joined, ClientDisconnect, Connect, ClientConnectedCallback,
      ConnectFails, SpawnFails, TestCommand, EnableProcmon, EnableFails,
      DisableProcmon, ExitCommand, AppKilled, WorkerCheck, WorkerGet,
      WorkerWake, WorkerReplies, WorkerFails, TakeMessage, UserAnswers,
      UnloadCloseServerPort, UnloadExchangeClientPort,
      UnloadCloseClientPort, UnregisterDisconnects, UnloadUnregister, StopWorker, vars

\* Every step is one of the switch or leaves it alone.
LEMMA SwitchStep ==
  TypeOK /\ SwitchInv /\ [Next]_vars => [Switch!Next]_(Switch!vars)
<1> SUFFICES ASSUME TypeOK, SwitchInv, [Next]_vars PROVE [Switch!Next]_(Switch!vars)
  OBVIOUS
<1>1. CASE EnableProcmon
  <2>1. Running' = Running
    BY <1>1 DEF EnableProcmon, Running, InCallback, procVars
  <2> QED
    BY <1>1, <2>1 DEF EnableProcmon, Running, Switch!Next, Switch!TurnOn
<1>2. CASE DisableProcmon
  <2>1. Running' = Running
    BY <1>2 DEF DisableProcmon, Running, InCallback, procVars
  <2> QED
    BY <1>2, <2>1 DEF DisableProcmon, Commands, SwitchInv, Running, Switch!Next, Switch!TurnOff
<1>3. CASE DisableReturns
  <2>1. Running = {} /\ Running' = Running
    BY <1>3 DEF DisableReturns, Running, InCallback, procVars
  <2> QED
    BY <1>3, <2>1 DEF DisableReturns, SwitchInv, Running, Switch!Next, Switch!OffReturns
<1>4. CASE SwitchKept
  BY <1>4, RunningChanges
  DEF SwitchKept, psVars, Running, Switch!Next, Switch!vars, Switch!CallbackStarts, Switch!CallbackEnds
<1> QED
  BY <1>1, <1>2, <1>3, <1>4, SwitchChanges

\* What the port's model says of registration as one client's commands is what
\* NotifySwitch promises, however callbacks, failures, deaths and the unload
\* come between.
THEOREM SwitchImplemented == Spec => ImplementsSwitch
<1>1. Init => Switch!Init
  BY DEF Init, InCallback, Switch!Init
<1> QED
  BY <1>1, SwitchStep, Invariance, SwitchInvariance, PTL
  DEF Spec, Inv, TypeInv, ImplementsSwitch, Switch!Spec

(***************************************************************************)
(* An answer finds its own request                                         *)
(***************************************************************************)
\* The worker that the filter manager expects the reply from has that very
\* message in its buffer; a message is only under way while its callback waits.
MatchInv ==
  /\ \A s \in Senders, w \in Workers : holder[s] = w =>
       /\ mail[s] = "taken" /\ wmsg[w] = s /\ wkind[w] = Kind(s)
       /\ wpc[w] \in {"waiting", "dialog", "replying", "stopped"}
  /\ \A p \in Procs : mail[p] # "none" => InCallback(p)

\* What a reply does: it ends the request its worker holds, or nothing.
ReplyGoesTo(w, s) ==
  /\ mail' = [mail EXCEPT ![s] = "replied"]
  /\ holder' = [holder EXCEPT ![s] = None]
  /\ allowed' = [allowed EXCEPT ![s] = IF wkind[w] = "name" THEN answer[w] ELSE TRUE]

LEMMA ReplyEffect ==
  ASSUME TypeInv, AnswerInv, NEW w \in Workers, WorkerReplies(w)
  PROVE  /\ wmsg[w] \in Senders /\ wpc[w] = "replying"
         /\ UNCHANGED <<phase, wkind, answer, killed>>
         /\ wpc' = [wpc EXCEPT ![w] = "check"] /\ wmsg' = [wmsg EXCEPT ![w] = None]
         /\ IF conn = "open" /\ holder[wmsg[w]] = w
              THEN ReplyGoesTo(w, wmsg[w]) ELSE UNCHANGED <<mail, holder, allowed>>
<1>1. wmsg[w] \in Senders
  BY DEF TypeInv, TypeOK, AnswerInv, WorkerReplies
<1>2. /\ wpc[w] = "replying" /\ UNCHANGED <<phase, wkind, answer, killed>>
      /\ wpc' = [wpc EXCEPT ![w] = "check"] /\ wmsg' = [wmsg EXCEPT ![w] = None]
  BY DEF WorkerReplies, procVars
<1>3. CASE conn = "open" /\ holder[wmsg[w]] = w
  BY <1>1, <1>2, <1>3 DEF WorkerReplies, ReplyGoesTo
<1>4. CASE ~(conn = "open" /\ holder[wmsg[w]] = w)
  BY <1>1, <1>2, <1>4 DEF WorkerReplies, mailVars
<1> QED
  BY <1>1, <1>2, <1>3, <1>4

\* No step gives a worker's buffer, or the request behind it, another meaning
\* while the filter manager waits for the reply.
LEMMA MatchStep == TypeInv /\ AnswerInv /\ ConnInv /\ MatchInv /\ [Next]_vars => MatchInv'
<1> SUFFICES ASSUME TypeInv, AnswerInv, ConnInv, MatchInv, [Next]_vars PROVE MatchInv'
  OBVIOUS
<1> USE PortAssumption
    DEF TypeInv, TypeOK, MatchInv, Senders, Phases, WorkStates, Kind, InCallback, Outstanding,
        vars, drvVars, psVars, procVars, mailVars, mainVars, workVars, Up
<1>1. ASSUME NEW s \in Senders, Send(s) PROVE MatchInv'
  BY <1>1 DEF Send, Sending
<1>2. ASSUME NEW p \in Procs, SenderTerminated(p) PROVE MatchInv'
  BY <1>2 DEF SenderTerminated, FailOne
<1>3. ASSUME NEW p \in Procs, ProcCreate(p) \/ ProcExit(p) PROVE MatchInv'
  BY <1>3 DEF ProcCreate, ProcExit
<1>4. ASSUME NEW p \in Procs, CallbackReturns(p) PROVE MatchInv'
  BY <1>4 DEF CallbackReturns
<1>5. CASE TestReturns
  BY <1>5 DEF TestReturns
<1>6. CASE AppKilled
  BY <1>6 DEF AppKilled, FailOne
<1>7. CASE ClientDisconnect \/ UnloadCloseClientPort \/ UnregisterDisconnects
  BY <1>7 DEF ClientDisconnect, UnloadCloseClientPort, UnregisterDisconnects, FailAll
<1>8. ASSUME NEW w \in Workers,
             SpawnWorker(w) \/ WorkerCheck(w) \/ WorkerGet(w) \/ WorkerWake(w) \/ WorkerFails(w)
      PROVE  MatchInv'
  BY <1>8 DEF SpawnWorker, WorkerCheck, WorkerGet, WorkerWake, WorkerFails, StopWorker, Handler
<1>9. ASSUME NEW w \in Workers, NEW kill \in BOOLEAN, UserAnswers(w, kill) PROVE MatchInv'
  BY <1>9 DEF UserAnswers
<1>10. ASSUME NEW w \in Workers, NEW s \in Senders, TakeMessage(w, s) PROVE MatchInv'
  BY <1>10 DEF TakeMessage, Handler
<1>11. ASSUME NEW w \in Workers, WorkerReplies(w) PROVE MatchInv'
  <2>1. /\ wmsg[w] \in Senders /\ wpc[w] = "replying"
        /\ UNCHANGED <<phase, wkind, answer, killed>>
        /\ wpc' = [wpc EXCEPT ![w] = "check"] /\ wmsg' = [wmsg EXCEPT ![w] = None]
        /\ IF conn = "open" /\ holder[wmsg[w]] = w
             THEN ReplyGoesTo(w, wmsg[w]) ELSE UNCHANGED <<mail, holder, allowed>>
    BY ReplyEffect, <1>11
  <2>2. CASE holder[wmsg[w]] = w
    <3>1. ReplyGoesTo(w, wmsg[w])
      BY <2>1, <2>2 DEF ConnInv
    <3> QED
      BY <2>1, <2>2, <3>1 DEF ReplyGoesTo
  <2>3. CASE holder[wmsg[w]] # w
    <3>1. \A s \in Senders : holder[s] # w
      BY <2>3
    <3>2. UNCHANGED <<mail, holder>> /\ \A v \in Workers \ {w} : wmsg'[v] = wmsg[v] /\ wpc'[v] = wpc[v]
      BY <2>1, <2>3
    <3> QED
      BY <2>1, <3>1, <3>2
  <2> QED
    BY <2>2, <2>3
<1>12. CASE UNCHANGED <<phase, mail, holder, wpc, wmsg, wkind>>
  BY <1>12
<1> QED
  BY <1>1, <1>2, <1>3, <1>4, <1>5, <1>6, <1>7, <1>8, <1>9, <1>10, <1>11, <1>12
  DEF Next, MainStep, WorkerStep, Unload, NotifiesUnloadedImage,
      ReturnsToUnloadedImage, SpawnDone, DisableReturns, Joined,
      Connect, ClientConnectedCallback, ConnectFails, SpawnFails, TestCommand, EnableProcmon,
      EnableFails, DisableProcmon, ExitCommand, UnloadCloseServerPort,
      UnloadExchangeClientPort, UnloadUnregister

\* So the reply a worker gives is the one its request waits for.
LEMMA MatchInvariance == Spec => []MatchInv
<1>1. Init => MatchInv
  BY PortAssumption DEF Init, MatchInv, Senders
<1> QED
  BY <1>1, Invariance, MatchStep, PTL DEF Spec, Inv

\* A message that has been taken is some worker's.
HeldInv == \A s \in Senders : mail[s] = "taken" => holder[s] \in Workers

\* The filter manager forgets the worker only when it ends the wait.
LEMMA HeldStep == TypeInv /\ AnswerInv /\ HeldInv /\ [Next]_vars => HeldInv'
<1> SUFFICES ASSUME TypeInv, AnswerInv, HeldInv, [Next]_vars PROVE HeldInv'
  OBVIOUS
<1> USE DEF TypeInv, TypeOK, HeldInv, mailVars
<1>1. ASSUME NEW s \in Senders, Send(s) PROVE HeldInv'
  BY <1>1 DEF Send
<1>2. ASSUME NEW p \in Procs, SenderTerminated(p) PROVE HeldInv'
  BY <1>2 DEF SenderTerminated, FailOne, Senders
<1>3. ASSUME NEW p \in Procs, CallbackReturns(p) PROVE HeldInv'
  BY <1>3 DEF CallbackReturns, Senders
<1>4. CASE TestReturns
  BY <1>4 DEF TestReturns, Senders
<1>5. CASE AppKilled
  BY <1>5 DEF AppKilled, FailOne, Senders
<1>6. CASE ClientDisconnect
  BY <1>6 DEF ClientDisconnect, FailAll, Outstanding
<1>7. CASE UnloadCloseClientPort \/ UnregisterDisconnects
  BY <1>7 DEF UnloadCloseClientPort, UnregisterDisconnects, FailAll, Outstanding
<1>8. ASSUME NEW w \in Workers, NEW s \in Senders, TakeMessage(w, s) PROVE HeldInv'
  BY <1>8 DEF TakeMessage
<1>9. ASSUME NEW w \in Workers, WorkerReplies(w) PROVE HeldInv'
  <2>1. /\ wmsg[w] \in Senders
        /\ ReplyGoesTo(w, wmsg[w]) \/ UNCHANGED <<mail, holder>>
    BY <1>9, ReplyEffect
  <2> QED
    BY <2>1 DEF ReplyGoesTo
<1>10. CASE UNCHANGED <<mail, holder>>
  BY <1>10
<1> QED
  BY <1>1, <1>2, <1>3, <1>4, <1>5, <1>6, <1>7, <1>8, <1>9, <1>10
  DEF Next, MainStep, WorkerStep, Unload, ProcCreate, ProcExit,
      NotifiesUnloadedImage, ReturnsToUnloadedImage, SpawnWorker, SpawnDone,
      DisableReturns, Joined, Connect, ClientConnectedCallback, ConnectFails, SpawnFails, TestCommand,
      EnableProcmon, EnableFails, DisableProcmon, ExitCommand, WorkerCheck,
      WorkerGet, WorkerWake, WorkerFails, UserAnswers, UnloadCloseServerPort,
      UnloadExchangeClientPort, UnloadUnregister, StopWorker, vars

LEMMA HeldInvariance == Spec => []HeldInv
<1>1. Init => HeldInv
  BY DEF Init, HeldInv
<1> QED
  BY <1>1, Invariance, HeldStep, PTL DEF Spec, Inv

\* Nobody waits in FltSendMessage for a port that is closed, for a worker that
\* has lost the request, or for one that would answer another.
THEOREM WaitsAreFounded == Spec => []RequestsAreInHand
<1>1. ConnInv /\ MatchInv /\ HeldInv => RequestsAreInHand
  BY DEF ConnInv, MatchInv, HeldInv, RequestsAreInHand
<1> QED
  BY <1>1, Invariance, MatchInvariance, HeldInvariance, PTL DEF Inv

\* What the user has said of a process reaches its callback, on every way the
\* one request about it can take; until it is asked, nothing is said.
VerdictOf(p) ==
  /\ phase[p] = "none" => p \notin killed
  /\ phase[p] = "asking" /\ mail[p] \in {"none", "queued"} =>
       p \notin killed /\ \A w \in Workers : wmsg[w] # p
  /\ phase[p] = "asking" /\ mail[p] = "taken" =>
       \A w \in Workers : wmsg[w] = p =>
         /\ holder[p] = w
         /\ wpc[w] \in {"waiting", "dialog"} => p \notin killed
         /\ wpc[w] = "replying" => (answer[w] <=> p \notin killed)
  /\ phase[p] = "asking" /\ mail[p] = "replied" =>
       (allowed[p] <=> p \notin killed) /\ \A w \in Workers : wmsg[w] # p

VerdictInv == \A p \in Procs : VerdictOf(p)

\* No step of another process, worker or the unload comes between the user and
\* the callback.
LEMMA VerdictStep ==
  TypeInv /\ AnswerInv /\ GateInv /\ MatchInv /\ VerdictInv /\ [Next]_vars => VerdictInv'
<1> SUFFICES ASSUME TypeInv, AnswerInv, GateInv, MatchInv, VerdictInv, [Next]_vars,
                    NEW q \in Procs
             PROVE  VerdictOf(q)'
  BY DEF VerdictInv
<1>0. VerdictOf(q)
  BY DEF VerdictInv
<1> USE <1>0, PortAssumption
    DEF TypeInv, TypeOK, VerdictOf, Senders, Outstanding, Up
<1>1. ASSUME NEW s \in Senders, Send(s) PROVE VerdictOf(q)'
  BY <1>1 DEF Send, procVars, workVars
<1>2. ASSUME NEW p \in Procs, SenderTerminated(p) PROVE VerdictOf(q)'
  BY <1>2 DEF SenderTerminated, FailOne, procVars, workVars
<1>3. ASSUME NEW p \in Procs, ProcCreate(p) \/ ProcExit(p) PROVE VerdictOf(q)'
  BY <1>3 DEF ProcCreate, ProcExit, GateInv, mailVars, workVars
<1>4. ASSUME NEW p \in Procs, CallbackReturns(p) PROVE VerdictOf(q)'
  BY <1>4 DEF CallbackReturns, InCallback, workVars
<1>5. CASE TestReturns
  BY <1>5 DEF TestReturns, procVars, workVars
<1>6. CASE AppKilled
  BY <1>6 DEF AppKilled, FailOne, procVars, mailVars
<1>7. CASE ClientDisconnect
  BY <1>7 DEF ClientDisconnect, FailAll, procVars
<1>8. CASE UnloadCloseClientPort \/ UnregisterDisconnects
  BY <1>8 DEF UnloadCloseClientPort, UnregisterDisconnects, FailAll, procVars, workVars
<1>9. ASSUME NEW w \in Workers,
             SpawnWorker(w) \/ WorkerCheck(w) \/ WorkerGet(w) \/ WorkerFails(w)
      PROVE  VerdictOf(q)'
  BY <1>9 DEF SpawnWorker, WorkerCheck, WorkerGet, WorkerFails, StopWorker, MatchInv,
              procVars, mailVars
<1>10. ASSUME NEW w \in Workers, WorkerWake(w) PROVE VerdictOf(q)'
  BY <1>10 DEF WorkerWake, StopWorker, Handler, MatchInv, Kind, procVars, mailVars
<1>11. ASSUME NEW w \in Workers, NEW kill \in BOOLEAN, UserAnswers(w, kill) PROVE VerdictOf(q)'
  <2>1. /\ wpc[w] = "dialog" /\ wpc' = [wpc EXCEPT ![w] = "replying"] /\ answer' = [answer EXCEPT ![w] = ~kill]
        /\ killed' = (IF kill THEN killed \cup {wmsg[w]} ELSE killed)
        /\ UNCHANGED <<phase, mail, holder, allowed, wmsg>>
    BY <1>11 DEF UserAnswers, procVars, mailVars
  <2>2. CASE wmsg[w] = q
    <3>1. phase[q] # "none"
      BY <2>2 DEF GateInv
    <3>2. q \in killed' <=> q \in killed \/ kill
      BY <2>1, <2>2
    <3>3. wpc'[w] = "replying" /\ (answer'[w] <=> ~kill)
      BY <2>1
    <3> QED
      BY <2>1, <2>2, <3>1, <3>2, <3>3
  <2>3. CASE wmsg[w] # q
    <3>1. q \in killed' <=> q \in killed
      BY <2>1, <2>3
    <3>2. \A v \in Workers : wmsg[v] = q => wpc'[v] = wpc[v] /\ answer'[v] = answer[v]
      BY <2>1, <2>3
    <3> QED
      BY <2>1, <3>1, <3>2
  <2> QED
    BY <2>2, <2>3
<1>12. ASSUME NEW w \in Workers, NEW s \in Senders, TakeMessage(w, s) PROVE VerdictOf(q)'
  <2>1. holder[q] = w => wmsg[w] = q /\ wpc[w] # "get"
    BY DEF MatchInv
  <2>2. CASE q = s
    BY <1>12, <2>1, <2>2 DEF TakeMessage, Handler, Kind, procVars
  <2>3. CASE q # s
    BY <1>12, <2>1, <2>3 DEF TakeMessage, procVars
  <2> QED
    BY <2>2, <2>3
<1>13. ASSUME NEW w \in Workers, WorkerReplies(w) PROVE VerdictOf(q)'
  <2>1. /\ wmsg[w] \in Senders /\ wpc[w] = "replying"
        /\ UNCHANGED <<phase, wkind, answer, killed>>
        /\ wpc' = [wpc EXCEPT ![w] = "check"] /\ wmsg' = [wmsg EXCEPT ![w] = None]
        /\ IF conn = "open" /\ holder[wmsg[w]] = w
             THEN ReplyGoesTo(w, wmsg[w]) ELSE UNCHANGED <<mail, holder, allowed>>
    BY ReplyEffect, <1>13
  <2>2. \A v \in Workers \ {w} : wmsg'[v] = wmsg[v] /\ wpc'[v] = wpc[v]
    BY <2>1
  <2>3. CASE wmsg[w] = q /\ holder[q] = w /\ conn = "open"
    <3>1. ReplyGoesTo(w, q)
      BY <2>1, <2>3
    <3> QED
      BY <2>1, <2>2, <2>3, <3>1 DEF ReplyGoesTo, MatchInv, Kind
  <2>4. CASE ~(wmsg[w] = q /\ holder[q] = w /\ conn = "open")
    <3>1. mail'[q] = mail[q] /\ holder'[q] = holder[q] /\ allowed'[q] = allowed[q]
      BY <2>1, <2>4 DEF ReplyGoesTo
    <3>2. phase'[q] = phase[q] /\ (q \in killed' <=> q \in killed) /\ wmsg'[w] # q
      BY <2>1
    <3> QED
      BY <2>1, <2>2, <3>1, <3>2
  <2> QED
    BY <2>3, <2>4
<1>14. CASE UNCHANGED <<phase, mail, holder, allowed, wpc, wmsg, answer, killed>>
  BY <1>14
<1> QED
  BY <1>1, <1>2, <1>3, <1>4, <1>5, <1>6, <1>7, <1>8, <1>9, <1>10, <1>11, <1>12, <1>13, <1>14
  DEF Next, MainStep, WorkerStep, Unload, NotifiesUnloadedImage,
      ReturnsToUnloadedImage, SpawnDone, DisableReturns, Joined,
      Connect, ClientConnectedCallback, ConnectFails, SpawnFails, TestCommand, EnableProcmon,
      EnableFails, DisableProcmon, ExitCommand, UnloadCloseServerPort,
      UnloadExchangeClientPort, UnloadUnregister,
      vars, procVars, mailVars, workVars

\* So it holds in every reachable state.
LEMMA VerdictInvariance == Spec => []VerdictInv
<1>1. Init => VerdictInv
  BY PortAssumption DEF Init, VerdictInv, VerdictOf
<1> QED
  BY <1>1, Invariance, GateInvariance, MatchInvariance, VerdictStep, PTL DEF Spec, Inv

\* Only a worker that replies makes mail "replied", and it replies to the sender
\* whose very message it holds.
LEMMA ReplyMatches ==
  ASSUME TypeInv, AnswerInv, MatchInv, [Next]_vars,
         NEW s \in Senders, mail[s] # "replied", mail'[s] = "replied"
  PROVE  \E w \in Workers : wpc[w] = "replying" /\ holder[s] = w /\ wkind[w] = Kind(s)
<1>1. ASSUME NEW w \in Workers, WorkerReplies(w)
      PROVE  wpc[w] = "replying" /\ holder[s] = w /\ wkind[w] = Kind(s)
  <2>1. /\ wpc[w] = "replying" /\ wmsg[w] \in Senders
        /\ IF conn = "open" /\ holder[wmsg[w]] = w
             THEN ReplyGoesTo(w, wmsg[w]) ELSE UNCHANGED mail
    BY <1>1, ReplyEffect
  <2>2. s = wmsg[w] /\ holder[s] = w
    BY <2>1 DEF ReplyGoesTo, TypeInv, TypeOK
  <2> QED
    BY <2>1, <2>2 DEF MatchInv
<1>2. CASE \E t \in Senders : Send(t) \/ \E w \in Workers : TakeMessage(w, t)
  BY <1>2 DEF Send, TakeMessage, TypeInv, TypeOK
<1>3. CASE \E p \in Procs : SenderTerminated(p) \/ CallbackReturns(p)
  BY <1>3 DEF SenderTerminated, CallbackReturns, FailOne, TypeInv, TypeOK, Senders
<1>4. CASE TestReturns \/ AppKilled \/ ClientDisconnect \/ UnloadCloseClientPort
       \/ UnregisterDisconnects
  BY <1>4 DEF TestReturns, AppKilled, ClientDisconnect, UnloadCloseClientPort, UnregisterDisconnects, FailOne, FailAll,
              mailVars, TypeInv, TypeOK, Senders
<1>5. CASE UNCHANGED mail
  BY <1>5
<1> QED
  BY <1>1, <1>2, <1>3, <1>4, <1>5
  DEF Next, MainStep, WorkerStep, Unload, ProcCreate, ProcExit, NotifiesUnloadedImage,
      ReturnsToUnloadedImage, SpawnWorker, SpawnDone, DisableReturns, Joined,
      Connect, ClientConnectedCallback, ConnectFails, SpawnFails, TestCommand, EnableProcmon,
      EnableFails, DisableProcmon, ExitCommand, WorkerCheck, WorkerGet,
      WorkerWake, WorkerFails, UserAnswers, UnloadCloseServerPort,
      UnloadExchangeClientPort, UnloadUnregister, StopWorker, vars, mailVars

\* A version reply, or a dialog left over from a request that has failed, never
\* answers another request.
THEOREM ReplyMatchesRequest == Spec => ReplyToItsRequest
<1>1. TypeInv /\ AnswerInv /\ MatchInv /\ [Next]_vars =>
        [\A s \in Senders : mail[s] # "replied" /\ mail'[s] = "replied" =>
           \E w \in Workers : wpc[w] = "replying" /\ holder[s] = w /\ wkind[w] = Kind(s)]_vars
  BY ReplyMatches
<1> QED
  BY <1>1, Invariance, MatchInvariance, PTL DEF Spec, Inv, ReplyToItsRequest

\* GetAndLogProcDetails has returned: the status is what the user said, if the
\* user's answer is what it returned with.
LEMMA VerdictUsed ==
  ASSUME TypeInv, GateInv, VerdictInv, [Next]_vars,
         NEW p \in Procs, phase[p] = "asking", phase'[p] # "asking"
  PROVE  creationStatus'[p] = "access_denied" <=> mail[p] = "replied" /\ p \in killed
<1>1. CallbackReturns(p)
  <2>1. \A q \in Procs : CallbackReturns(q) => q = p
    BY DEF CallbackReturns, TypeInv, TypeOK
  <2>2. \A q \in Procs : ~ProcCreate(q) /\ ~ProcExit(q)
    BY DEF ProcCreate, ProcExit, TypeInv, TypeOK
  <2>3. phase' # phase
    OBVIOUS
  <2> QED
    BY <2>1, <2>2, <2>3
    DEF Next, MainStep, WorkerStep, Unload, Send, SenderTerminated,
        NotifiesUnloadedImage, ReturnsToUnloadedImage, SpawnWorker, SpawnDone,
        TestReturns, DisableReturns, Joined, ClientDisconnect, Connect, ClientConnectedCallback,
        ConnectFails, SpawnFails, TestCommand, EnableProcmon, EnableFails,
        DisableProcmon, ExitCommand, AppKilled, WorkerCheck, WorkerGet,
        WorkerWake, WorkerReplies, WorkerFails, TakeMessage, UserAnswers,
        UnloadCloseServerPort, UnloadExchangeClientPort,
        UnloadCloseClientPort, UnregisterDisconnects, UnloadUnregister, StopWorker, vars, procVars
<1>2. creationStatus[p] = "success" /\ VerdictOf(p)
  BY DEF GateInv, VerdictInv
<1> QED
  BY <1>1, <1>2 DEF CallbackReturns, VerdictOf, TypeInv, TypeOK

\* The creation is refused if and only if the user pressed OK for that process
\* and the answer came back to the request that asked.
THEOREM KillDecides == Spec => KillTakesEffect
<1>1. TypeInv /\ GateInv /\ VerdictInv /\ [Next]_vars =>
        [\A p \in Procs : phase[p] = "asking" /\ phase'[p] # "asking" =>
           (creationStatus'[p] = "access_denied" <=> mail[p] = "replied" /\ p \in killed)]_vars
  BY VerdictUsed
<1> QED
  BY <1>1, Invariance, GateInvariance, VerdictInvariance, PTL DEF Spec, Inv, KillTakesEffect

(***************************************************************************)
(* The connection is that of ClientLink                                    *)
(***************************************************************************)
\* Connecting, disconnecting and the unload are ClientLink's steps; a handle that
\* closes when nothing was connected changes nothing.
LEMMA LinkStep == Inv /\ [Next]_vars => [Link!Next]_(Link!vars)
<1> SUFFICES ASSUME Inv, [Next]_vars PROVE [Link!Next]_(Link!vars)
  OBVIOUS
<1> USE DEF Link!vars, Link!Next, drvVars
<1>1. ConnInv /\ drv \in DrvStates /\ conn \in ConnStates /\ clientPort \in BOOLEAN
  BY DEF Inv, TypeInv, TypeOK
<1>2. CASE Connect
  <2>1. drv = "running" /\ conn = "none"
    BY <1>1, <1>2 DEF Connect, ConnInv, DrvStates
  <2>2. Link!Accept
    BY <1>2, <2>1 DEF Connect, Link!Accept, UnloadStage
  <2> QED
    BY <2>2
<1>3. CASE ClientConnectedCallback
  <2>1. Link!Connect
    BY <1>1, <1>3 DEF ClientConnectedCallback, ConnInv, Link!Connect, UnloadStage
  <2> QED
    BY <2>1
<1>4. CASE ClientDisconnect
  <2>1. conn = "none" => UNCHANGED Link!vars
    BY <1>1, <1>4 DEF ClientDisconnect, ConnInv, UnloadStage
  <2>2. conn # "none" => Link!Disconnect
    BY <1>1, <1>4 DEF ClientDisconnect, ConnInv, ConnStates, Link!Disconnect, UnloadStage
  <2> QED
    BY <2>1, <2>2
<1>5. CASE UnloadCloseServerPort
  <2>1. Link!CloseServerPort
    BY <1>5 DEF UnloadCloseServerPort, Link!CloseServerPort, UnloadStage
  <2> QED
    BY <2>1
<1>6. CASE UnloadExchangeClientPort
  <2>1. Link!TakePointer
    BY <1>6 DEF UnloadExchangeClientPort, Link!TakePointer, UnloadStage
  <2> QED
    BY <2>1
<1>7. CASE UnloadCloseClientPort
  <2>1. Link!CloseClientPort
    BY <1>7 DEF UnloadCloseClientPort, Link!CloseClientPort, UnloadStage
  <2> QED
    BY <2>1
<1>8. CASE UnregisterDisconnects
  <2>1. Link!UnregisterDisconnects
    BY <1>8 DEF UnregisterDisconnects, Link!UnregisterDisconnects, UnloadStage
  <2> QED
    BY <2>1
<1>9. CASE UnloadUnregister
  <2>1. Link!Unregistered
    BY <1>9 DEF UnloadUnregister, Link!Unregistered, UnloadStage
  <2> QED
    BY <2>1
<1>10. CASE UNCHANGED <<drvVars, conn>>
  BY <1>10 DEF UnloadStage
<1> QED
  BY <1>2, <1>3, <1>4, <1>5, <1>6, <1>7, <1>8, <1>9, <1>10
  DEF Next, vars, MainStep, Unload, Send, SenderTerminated, ProcCreate, ProcExit,
      CallbackReturns, NotifiesUnloadedImage, ReturnsToUnloadedImage, SpawnWorker, SpawnDone,
      TestReturns, DisableReturns, Joined, ConnectFails, SpawnFails, TestCommand,
      EnableProcmon, EnableFails, DisableProcmon, ExitCommand, AppKilled, WorkerStep,
      WorkerCheck, WorkerGet, WorkerWake, WorkerReplies, WorkerFails, TakeMessage,
      UserAnswers, StopWorker

\* For any numbers of processes and workers the driver keeps its client's pointer,
\* and gives it up for the unload, as ClientLink has it.
THEOREM LinkImplemented == Spec => ImplementsLink
<1>1. Init => Link!Init
  BY DEF Init, Link!Init, UnloadStage
<1> QED
  BY <1>1, LinkStep, Invariance, PTL DEF Spec, ImplementsLink, Link!Spec
=============================================================================

# nt_driver1 in TLA+

nt_driver1 watches the creation of processes on Windows: a minifilter driver
(`driver1.sys`, in `src/FsFilter1`) is told of every process that starts or
ends, asks a user-mode program about it over a filter communication port, and
refuses the creation if the user says so.  The program is `test1.exe`, which
drives everything through `dll1.dll`.  This directory holds TLA+ modules for
the parts in which processes, threads, messages, failures and unloads meet,
TLC configurations that check them on small instances, and proofs, checked by
TLAPS, of what holds for every instance.

`PROJECT.json` maps each definition to the lines it stands for, and lists the
runs, the hazards, the theorems and, for each checked property, a defect of
the code that it would catch (the operators commented "Variant with a defect").

## 1. The system

```
   test1.exe                                          driver1.sys
  +-----------------------------+                    +---------------------------+
  | main: test, procmon_on,     |  FilterSendMessage | ClientReceiveMessage      |
  |   procmon_off, exit         | -----------------> |   procmon: callbacks_ps.c |
  | dll1: worker threads        |     \DSMKPort      |   test: asks for version  |
  |   FilterGetMessage          | <----------------- | notify callback, in the   |
  |   message box, reply        |   FltSendMessage   |   thread of each process  |
  +-----------------------------+                    +---------------------------+
     Dex*Driver, scripts: load, unload                DriverEntry, two unload routines
```

| Component | State | Operations | What is hard | What makes it correct |
|---|---|---|---|---|
| process notify callback (`callbacks_ps.c`, `communication_server.c`) | `CreationStatus`, the request in `FltSendMessage` | creation: process request, then version request; exit: version request | runs in the thread of every process; waits for user mode without timeout | refuses exactly the processes the user refused; ends |
| notify registration (`callbacks_ps.c`) | `gProcessNotifyRegistered`, the kernel's list | register, remove | flag and kernel call are separate, no lock | flag and kernel agree; off means no callback |
| driver side of `\DSMKPort` (`communication_server.c`) | `DllConnServerPort`, `DllConnClientPort` | connect, disconnect, commands, requests, close | one client pointer, closed through the global and then cleared, by two threads | no message and no client outlives the unload; no port is closed twice or forgotten; the client has the pointer |
| worker threads (`communication.cpp`) | terminate event, port handle, buffer, overlapped request | wait, take, ask the user, reply, stop | late replies, messages received and dropped at stop | a reply reaches its own request; workers stop |
| library start and stop (`communication.cpp`, `public_api.cpp`) | event, port handle, `gCommunicationThreads` | `InitializeDriverLibrary`, `UninitializeDriverLibrary` | no test for a second call; half-done failures | handles outlive their users; stop ends |
| test1 (`test1.cpp`) | none of its own | the command loop | ignores the status of Initialize; is killed | commands and exit end |
| load and unload (`driver1.c`) | filter handle, registry cookie, `DriverUnload` | `DriverEntry`, `DriverUnload`, `RfUnload` | each registration may fail; two unload routines | nothing is left behind an image that is gone |
| service control (`public_api.cpp`, `dll1.cpp`, scripts, `driver1.inf`) | service key, loaded filter | start, stop, query, restart, install, uninstall | query and act are separate; two copies of the code | calls return, a stop stops |
| file callbacks (`minifilter_callbacks.c`) | instances, references to name information | creates before and after, attach, detach, teardown, unload | creates drained while their instance goes, a name query nobody checks | every name is released once; the teardown ends |
| text scan (`minifilter_callbacks.c`, `communication.cpp`) | the read buffer, the notification, the verdict | read, send, search, answer (no caller in `src/`) | waits for the client while it holds an instance; sizes; what a buffer held before | the verdict is right and about its own file; a failure is safe; the unload does not wait for the client |
| registry callback (`driver1.c`) | none that lasts | log the name of a deleted value | reads a name whose query may have failed | reads no name it was not given (it may) |

The rest of the repository is logging (`debug.c`, `debug.cpp`), the unused
template `FsFilter1.c`, project and packaging files and build outputs.

## 2. Modules

| Module | Models | Proofs |
|---|---|---|
| `ProcessGate` | abstract: what monitoring promises about a process | |
| `NotifySwitch` | abstract: what `procmon_on` and `procmon_off` promise about flag, registration and callbacks | |
| `ClientLink` | abstract: one connection, its pointer and the unload, as the driver means to handle them | |
| `DsmkPort` | callback, registration as commands of one client, port, workers, user, test1, unload; implements `ProcessGate`, `NotifySwitch` and `ClientLink` | `DsmkPortProofs` |
| `ProcNotify` | registration and removal, opened at the kernel calls, for overlapping callers; implements `NotifySwitch` until commands overlap | `ProcNotifyProofs` |
| `ClientPort` | the client pointer between clients that follow each other and the unload; implements `ClientLink` until clients cross | `ClientPortProofs` |
| `FilterCallbacks` | instances, creates, name information, registry callback, unload | `FilterCallbacksProofs` |
| `Scanner` | both halves of the text scan | `ScannerProofs` |
| `MiniFilter` | `FilterCallbacks` and `Scanner` in one driver that is unloaded; implements both | `MiniFilterProofs` |
| `DllLibrary` | the library's handles and threads over repeated start, stop, failure and driver reload | `DllLibraryProofs` |
| `DriverService` | `DriverEntry`, unloading, the service calls and scripts | `DriverServiceProofs` |
| `MC_*` | symmetry sets, and the contents of files, for TLC | |

They overlap on purpose: `DsmkPort` has registration and unload as one or a few
steps of the whole, `ProcNotify` and `DriverService` take the same lines apart
where their own interleavings matter; `ClientPort` does so for the connection.
The abstract modules tie them together: `DsmkPort` and `ProcNotify` implement
the same `NotifySwitch`, `DsmkPort` and `ClientPort` the same `ClientLink`, so what the
coarser module takes as one step is shown to be that of the finer one, as
long as commands, or clients, come one at a time.  `DllLibrary` drops what a message says and adds the lives of the handles.
`MiniFilter` uses the actions of `FilterCallbacks` and `Scanner` as they are and
says where they meet, so that each of its steps is a step of one part and leaves
the other alone, or of both.

### DsmkPort and the code

A process p goes through `phase[p]`: `asking` is
`DrvProcessNotifyRoutineCommon` inside `GetAndLogProcDetails`, `greeting` and
`exiting` are `GetAndLogClientVersion` after it or alone.  Its message is
`mail[p]`; `Send` is the call of `FltSendMessage` with the client pointer as it
is then, `CallbackReturns` what the callback does with the result.  A worker
w stands at `wpc[w]`: `check` (the test of the event), `get`
(`FilterGetMessage`), `waiting` (`WaitForMultipleObjects`), `dialog` (the
message box), `replying` (`FilterReplyMessage`).  test1's main thread is `main`:
`testing` and `draining` are the two commands that wait in the driver,
`connecting`, `spawning`, `joining` and `closing` the library's start and stop.
`conn` is `accepted` when the filter manager has accepted the client and `open` after
`ClientConnectedCallback` has stored the pointer.  `drv` counts the steps of
`UninitializeCommunication` and `FltUnregisterFilter`: the server port is closed, the
pointer exchanged, the client's port closed, and a client that was accepted before
the first of these and stored its pointer after the second is disconnected
(`UnregisterDisconnects`).

One action is what a thread does up to the next point where another can be
seen to act.  `DriverUnload` is four actions because ports are closed and the
pointer exchanged in separate steps (the last is what `FltUnregisterFilter` waits
for).  `procmon_on` and `procmon_off` are one
client's commands, so the flag's test and write belong to the same step as the
kernel call, except that the removal waits for running callbacks.
Strings, process identifiers, log lines and the copied image name are left out;
a request is `name` or `version`, a reply is `Allowed` or not.

A read or a call into code that is gone stops the system: `bugcheck`.  So may
the `%s` applied to an `NTSTATUS` when registration fails (`EnableFails`): the
outcome depends on what the number happens to point at, and both are possible.

### ProcNotify and the code

`pc[c]` is where the command of c stands between the test of the flag, the
kernel call and the write of the flag: `registering`, `registered`, `removing`,
`draining`, `removed`.  test1 has one thread, but the library's
`DexToggleProcessMonitoring` may be called from any thread, and the filter
manager runs message callbacks of one port concurrently.  `overlapped`
remembers that a command has begun while another was in progress: what the
flag promises holds until then.

### ClientPort and the code

`clientPort` is `gDrv.DllConnClientPort`, `taken` the local `clientPort` of
`UninitializeCommunication`, both naming the client whose port they point to;
`open` are the clients whose port is not closed.  A client is `accepted`, `in`
after `ClientConnectedCallback`, `leaving` when its handle is gone, `closed`
between the two statements of `ClientDisconnectCallback`.  The callback has no
way to know that the pointer is still its own client's: `ClosePort` closes
whatever the global holds.  `crossed` remembers that a client was accepted while
another was leaving.

### DllLibrary and the code

`main` is the thread that calls the library: `connecting` and `spawning` within
`InitializeCommunication`, `joining` within `UninitializeCommunication`.  An
event is a number, 0 the NULL handle; `event` is the global, `waits[t]` what
worker t copied to `waitHandles[0]`, `opened` the events not closed.  The
library does not ask whether it is initialised, so `InitializeCall` is enabled
whenever nothing is in progress.  The driver may unload at any time, which
breaks the connection, and load again.

### DriverService and the code

`drv` is the place in `DriverEntry` (`register`, `cmregister`, `start`, `comm`)
or in an unload (`unload`, `unregister`, `rfunload`); `in` is loaded, `out` not
in memory.  `filter`, `cm` and `port` are what the filter manager and the
kernel hold.  A program c stands at `pc[c]`, in the copy `copy[c]` of the
functions: dll1 exports `DexQueryDriver`, `DexStopDriver` and `DexStartDriver`
under C names (`public_api.cpp`) and again under C++ names (`dll1.cpp`); they
differ in the filter the stop names.  `owner` is the program whose
load or unload the filter manager is carrying out.  `left` remembers how the
driver last left memory.  A free build goes on when `FltRegisterFilter` fails; it
stops where the NULL handle is used (`UsesNullFilter`), which it is not when
`CmRegisterCallbackEx` and the security descriptor of the port fail as well.  The
driver then stays in memory without a filter, and neither `fltmc unload` nor
`FilterUnload` finds it.

### FilterCallbacks and the code

A create o is `below` between `PreOperation` and `PostOperation`, `named` when
`FltGetFileNameInformation` has given it a reference, `used` after the search in
the name, `unnamed` when the query failed: the code does not look, and goes
on with what the stack held (`UseNoName`, `ReleaseNoName`, both of which may stop
the system).  `refs[f]` counts the references to the name information of f.
`InstanceQueryTeardown` agrees to every detach; `filter` is where `DriverUnload`
stands.  The registry callback reads `objectName` in the same way; it is there
until `RfUnload`, after `FltUnregisterFilter` has returned.

### Scanner and the code

A character is a cell: the two halves of the forbidden word, NUL, or another.
`notification[s]` is what `ScannerpScanFileInUserMode` fills and sends: the
number of bytes read and `Contents`, whose end is what the stack held (`Rests`).
`Collected` is what the worker's `std::string` and `resize` make of it,
`HasWord` the search.  A scan is `preparing` (volume, its properties, the
buffer), `reading`, `sending`, `waiting`, `returned`; the wait has no timeout.

### MiniFilter and the code

`at[s]` is the volume whose instance the scan s uses.  The teardown of an
instance waits for its scans; preparing and reading fail once it has begun;
`UninitializeCommunication` closes the client's port, and with it ends the scans
that wait, before `FltUnregisterFilter` waits for all instances.  `late` says
whether a client may still, or did, get the pointer after the unload took it
(`LateClientConnects`): nothing in the driver closes that client's port.

### What is external

Modelled from how `src/` uses it, and marked external in the map where a
definition stands for nothing else:

* the port: a message stays queued until a `FilterGetMessage` takes it; a reply
  reaches the sender only from the receiver of that message, by `MessageId`;
  closing either end fails what waits there; one connection
  (`MaxConnections` is 1); `FltSendMessage` without timeout ends early when its
  thread is terminated;
* the notify list: a registered routine cannot be registered again, removal
  waits for the callbacks that run and fails for a routine that is not there;
* loading: one load or unload of a driver at a time; unloading the filter runs
  its unload callback and then the driver object's, stopping the service only
  the latter; `FltRegisterFilter` installs its own `DriverUnload`, which
  `driver1.c:384` overwrites;
* a second client: its place is free when the handle of the first is gone,
  wherever `ClientDisconnectCallback` then stands, since nothing in `src/` says
  that it comes later (where it does, `crossed` stays FALSE); each connection has its own port;
  `FltCloseClientPort` clears the pointer it is given;
* a client accepted before the server port is closed is shown to
  `ClientConnectedCallback` although the unload has begun; `FltUnregisterFilter`
  disconnects a client that is still connected and returns when no callback of the
  port runs.  `DsmkPort` has that disconnection as a step of the unload; `MiniFilter`
  has not, and promises nothing of an unload that such a client came across;
* instances: a create below an instance that is torn down is drained, with
  its `PostOperation`; the teardown is complete when no callback and no holder of
  the instance is left; calls that need the instance fail once it has begun;
* a name information is freed with its last reference;
* the bytes behind `Contents` in the worker's buffer are no text;
* a checked build stops at `FLT_ASSERT` and `NT_ASSERT`, a free build goes on:
  both outcomes are allowed.

## 3. Runs

| Run | Instance | Shows |
|---|---|---|
| `port_safety` | 2 processes, 1 worker | no failed send, lost answer or late reply refuses a creation, and the user's refusal always takes effect on a request that is answered; the unload leaves no client and no waiting request, save those of a client that came across it, and only an unload with monitoring left on stops the system; the whole implements `ProcessGate`, `NotifySwitch` and `ClientLink` |
| `port_workers` | 1 process, 2 workers | a worker that was slow over a dialog cannot answer the request the other one holds; whoever waits is queued at an open port or in the buffer of the one worker that can answer |
| `port_live` | 1 process, 1 worker, fair | callbacks, commands, exit (also of a program that never connected) and unload end, except while the port stays open for ever with nobody reading it |
| `notify_commands` | 3 callers, 2 processes | until two commands overlap, the tests, kernel calls and writes of the two functions amount to `NotifySwitch`: flag and registration change together and off is quiet; once flag and registration have parted, no further commands bring the routine out |
| `notify_already` | 2 callers, 1 process | **violated**: finding 1 |
| `library` | 2 threads, 3 events, fair | no worker uses a closed port or event; Uninitialize returns, after a second Initialize only with the help of requests; a connection whose threads could not be started is lost until the driver goes |
| `service` | 2 programs, fair | whatever registration fails and however programs and scripts alternate: unloading the filter leaves nothing, a failed load at most the registry callback, a stop of the service at most filter and port; the port is open on a registered filter only, filtering never runs without the registry callback, a driver loaded without a filter has registered nothing; a program waits in the filter manager exactly for the load or unload carried out for it, and calls return |
| `service_stop_by_name` | 1 program | **violated**: finding 2 |
| `service_stop` | 1 program | **violated**: finding 3 |
| `client_port` | 4 clients | no port is closed twice, by client, callback or unload; until a client comes while another leaves, the callbacks and the unload amount to `ClientLink` and no port is left open; a client that has lost the pointer never gets it back |
| `minifilter` | 1 volume, 2 creates of one name, 1 scan, 1 worker, fair | no name leaks, and until a query fails unnoticed all are balanced; only an unnoticed failure stops the system, a failed scan is safe, the verdict is right about the front of its own file; a detach ends unless a scan on that volume waits for the client; once the unload may wait for instances no scan waits for the client, and it ends without the client's help, save for a client that came across it |
| `scan_foul_language` | 1 scan, all files of up to 3 cells | **violated**: finding 4 |

Bounds.  The instances are the smallest in which the interesting interleavings
occur.  With two processes one can be in a dialog while another is created,
denied, exits or waits in the queue; requests of different processes interact
only through the queue and the workers, so a third adds another waiter and no
new kind of step.  Two workers are needed for a late reply to
meet another worker's request, and one process makes both of its requests in
turn; two processes with two workers are beyond a short run.  In `port_live`
one process, the test command and the unload compete for one worker
(`InitializeDriverLibrary` starts exactly one).  `OrphanedForEver` takes three
callers: two to part flag and kernel, one to keep trying.  `ClientPort` needs
three clients for a disconnection to close the port of one that came later and
to be followed by another, and has four.  In `minifilter` two creates share
one name information, and with one volume the detach and the unload meet; the
buffer has two cells, as many as the word, sectors are smaller and larger than it
(`SectorSizes = {1, 3}`), and four files are shorter than the buffer, the
word alone, the word behind a NUL, the word across the buffer's end, while
the stack holds the word's second half (`MCRests`); the empty file is among those of
`scan_foul_language`, and `VerdictIsRight` is proved for every file.  A second scan would only
wait beside the first; a second worker is the case of `port_workers`.  `DllLibrary` needs
two threads, so that an old worker may run while a new connection gets its own,
and `MaxEvents = 3`: the event that is waited for, the one that overwrites it
and one more start after a stop.  It is the only bound of the models that cuts
a counter.  Two programs suffice for `DriverService` because load and unload
exclude each other; scripts act beside them.  Symmetry is used over
processes, workers, callers or clients in runs without liveness.

Deadlock is not checked: the system stops at a bugcheck, and nobody has to
type a command, create a process or call the library again.

Fairness.  A thread that can run does (weak fairness of each thread's own
steps).  The filter manager's queue is served in order, so a message is not
passed over for ever by workers that keep taking others (strong fairness of
`TakeMessage` for each sender).  The user answers each dialog.  In `DllLibrary`
a port that is busy falls silent now and then (strong fairness of `Pends`: otherwise
a worker might live on immediate messages alone, which the event check between
two of them would end anyway), and no request has to come; the one property that
needs requests says so in its premise.  In `DriverService` a program waiting for
a load or unload in progress is served in the end (strong fairness of its step).
In `MiniFilter` the threads in the driver run, drained creates and
teardowns complete and an unload goes on; the client need not answer, take a
message or leave.
No failure, command, dialog result, load or unload is forced to happen.

## 4. Findings

1. `AlreadyMeansRegistered` (`callbacks_ps.c:38`).  Two removals pass the test
   of the flag together; the first finishes; an enable registers the routine;
   the second removal takes it out and clears the flag; then the enable sets it.
   From there "already initialized" is logged although nothing is registered.
   The mirror case, a routine registered with the flag clear, is `Orphaned`.
2. `StopUnloads` (`public_api.cpp:113`).  The C copy of `DexStopDriver`
   unloads `FsFilter1`; the filter is `driver1`.  The stop, and every restart
   through it, fails on a running driver.  The C++ copy has the right name.
3. `UnloadRoutineCleans` (`driver1.c:384`).  When the service is stopped, as the
   uninstallation does, the driver object's unload routine runs alone.
   It is `RfUnload`, which removes the registry callback and leaves filter and
   port registered behind an image that is unmapped.
4. `RefusesFoulLanguage` (`communication.cpp:244`).  `SafeToOpen` is to be FALSE
   for a file that was scanned successfully and contains the word
   (`minifilter_callbacks.c:443`).  The worker takes the bytes as a
   NUL-terminated string, so a word behind a NUL is not found, nor one
   behind the first read.  `VerdictIsForItsFront` says what does hold.

Seven weaknesses are in the models without a violated claim, and shape
the properties: the unload does not remove the process-notify routine
(`UnloadSafeWhenOff` has that exception), a load that fails at
`FltStartFiltering` leaves the registry callback (`CleanWhenOut` allows that, and no more),
a request whose worker has stopped, or that no worker will take, keeps its process
waiting (`Stranded` in the liveness properties), a client accepted just before the
unload may store its pointer when the unload has already taken the pointer out, so
that only `FltUnregisterFilter` disconnects it (`NoClientAfterUnload`, and `late` in
`UnloadAsksNobody`), a disconnection may close the port of the next client
(`crossed` in `ClientPort`'s), a name query that fails unnoticed may stop the
system (`unnamed` in `FilterCallbacks`', though no name leaks even then), and a detach waits for a client that
does not answer a scan (`Asked` in `DetachEnds`).

## 5. Proofs

`tlapm` checks every module ending in `Proofs`.  All theorems hold for any sets
of processes, workers, callers, threads, programs, clients, volumes, files and
scans.  The only assumptions are those on the constants: `PortAssumption`,
`ServiceAssumption` and `ClientAssumption` (the main thread and "none" are not
among the others), `LibraryAssumption` (types), and `MiniFilterAssumption`,
which is the `ConstantsOK` of its two parts: finitely many creates, files made of
cells, sizes that are numbers.  The parts' theorems take `ConstantsOK` as a hypothesis,
so that `MiniFilterProofs` can discharge it where it instantiates them.

* **DsmkPortProofs.**  `Inv` is the conjunction of five parts, each kept by
  every step.  Types need `BufferInv`: only a process sends the request that
  opens a dialog, so the set of killed processes stays one of processes.
  `DenialOnlyIfKilled` is not inductive, since a refusal travels from
  the dialog to the worker's answer, from there to the reply delivered to
  `FltSendMessage`, and then into `CreationStatus`; `AnswerInv` has it at
  each place.  `OffMeansQuiet` needs `NotifyInv`: while the removal waits, the
  routine is already out, so no callback starts.  `NoClientAfterUnload` needs
  `ConnInv`: which of port, pointer, client and outstanding messages can exist at each
  stage of the unload, the client that came across it included.  `UnloadSafeWhenOff` follows from `StopInv`: the system
  stops only with a client connected or monitoring on.  `GateImplemented` is
  step simulation under the mapping `Standing`, with `GateInv` relating phases,
  statuses and what workers hold.  `ReplyMatchesRequest` needs `MatchInv`: the
  worker the filter manager expects a reply from still has that message,
  of that kind, in its buffer.  `KillDecides` needs `VerdictInv` on top: while a process
  is being asked about, exactly one buffer can hold its request, and what the
  user said travels unchanged from that dialog to the reply.  `WaitsAreFounded`
  needs `HeldInv` beside the two (a taken request has a worker): it gives
  the cases in which a wait can last for ever, which are those of `Stranded`.
  `SwitchImplemented` rests on `SwitchInv` (flag and registration differ only
  while the removal waits) and on two lemmas that say what any step may do to the switch
  (`SwitchChanges`) and to the set of running callbacks (`RunningChanges`), so that
  the simulation has four cases and not one per action.  `LinkImplemented` has
  a case for each step that `ConnInv` distinguishes; `Send`, the workers and the
  commands leave connection, pointer and unload alone.
* **ProcNotifyProofs.**  `FlagIsRight` and `OffIsQuiet` follow from `SerialInv`:
  until `overlapped`, which once true stays so (`OverlapStays`), at most one
  command is under way (`BeginsAlone`), and at each of its places flag,
  registration and callbacks are known.  `SwitchImplemented` maps the flag to
  `FlagToBe`, which is set already when the kernel call has registered the routine
  and the write is still to come; `SerialInv` excludes a removal that the kernel refuses.
  `OrphanStays` is a one-step argument:
  with the flag clear neither removal nor `SetFlag` can be reached.
* **DllLibraryProofs.**  `LibraryInv`: every started thread that is not joined
  is in `gCommunicationThreads`, the port is there as long as that is not empty,
  and the event a worker waits for is never closed, because the stop that
  closes the global event joins first and an overwritten one is leaked.
  `EventsPart` says that only a second `InitializeDriverLibrary` can make a
  worker wait for another event than the global one, `JoinsWakeWorkers` (with
  `JoinInv`) that until then no worker that is joined waits for something that is
  not set: the safety half of `UninitializeEnds`.
* **DriverServiceProofs.**  `StageInv` says, for each place in `DriverEntry` and
  in the unload, what is registered there (past a failed `FltRegisterFilter`,
  neither callback nor port); `UnloadCleans` and `RegistrationOrder` are read off it.  `EndWakesCaller` is inductive with the types;
  its proof is arranged by what a step does to a waiting program: `NoWaitKept`,
  `WaitBegins`, `WaitEnds`, `WaitGoesOn`.  It is the safety half of `CallsReturn`: a
  waiting program waits for something that is under way.
* **ClientPortProofs.**  `ClosedOnce` needs `FreshInv`: the port a new client
  brings is open and nobody points to it yet; whoever closes a port takes the
  pointer away.  `ClientIsServed` and `NoPortLeaks` need `OneInv` (until `crossed`
  at most one client is there at all) and `OwnerInv` (where its port is until it
  is closed).  `LinkImplemented` maps all clients to one connection; it needs
  `TakenInv`: the pointer in the unload's hand is that of the only client there is, and
  nobody is accepted behind it.  The client's steps and the unload's are
  simulated in lemmas of their own.  `LostStays` is a one-step argument.
* **FilterCallbacksProofs.**  `NamesAreBalanced` counts: a query adds one holder
  and one reference, a release takes both away (`HoldersGain`, `HoldersLose`, by
  the library's theorems on cardinality); so until a query fails unnoticed whoever
  reads or releases a name has a reference, and nothing stops.  After a failure a
  release may take a reference of another create, so only the bound stays: no more
  references than holders.
* **ScannerProofs.**  `VerdictIsRight` follows a text from the file to the
  notification, to the buffer of the worker that holds the message, to the
  answer; `Sendable` is the set of notifications with the files they can have come
  from, `Refused` that of the files with the word in front, and `PermissionIsRight`
  joins the two, whatever the stack held behind the text.  `FailureIsSafe`
  needs that `SafeToOpen` is FALSE only after an answer.
* **MiniFilterProofs.**  Each step is a step of the callbacks or leaves them alone,
  and likewise of the scan (`PartSteps`), so the composition implements both
  modules, and what is proved of each part holds of it: `TypeCorrect`,
  `NamesAreBalanced`, `StopsHaveReason`, `FailureIsSafe`, `VerdictIsRight`.
  `UnloadNeedsNoAnswer` is about the two together: from the step that closes the
  port on (`UnloadBegins`) no client comes but the late one (`ClientsComeBefore`), and
  a scan begins to wait only if there is one (`ScansAskTheClient`).

Every invariant, action property and refinement that a passing run checks is also a
theorem.  Some theorems state more than the runs: `OffIsQuiet` (of both models),
`FlagIsRight` and `Served` say about single states what the refinements of
`NotifySwitch` and `ClientLink`, which the runs check, say about steps; `EventsPart` and `JoinsWakeWorkers` are steps on the
way to `UninitializeEnds`; the theorems of `FilterCallbacks` and `Scanner` are
checked in their composition.  Only model-checked are the liveness properties (`CallbackEnds`, `CommandEnds`,
`ExitEnds`, `UnloadEnds` of `DsmkPort` and of `MiniFilter`, `DetachEnds`,
`UninitializeEnds`, `UninitializeEndsWithTraffic`, `CallsReturn`), which rest on
fairness and are outside the prover's reach.

## 6. Order of work

1. Done: `ProcessGate`, `DsmkPort`, `ProcNotify`, their runs and proofs.
2. Done: `DllLibrary`, `DriverService`, their runs and proofs.
3. Done: `ClientPort`, `FilterCallbacks`, `Scanner`, their composition `MiniFilter`,
   their runs and proofs; the theorems about single answers in `DsmkPort`.
4. Done: `NotifySwitch` and `ClientLink`, each implemented by the coarse and by the
   fine model; the safety halves of `CallsReturn`, `UninitializeEnds`,
   `CallbackEnds` and `UnloadEnds` as theorems.
5. Left: `DsmkPort` and `Scanner` on one port, so that a worker's dialog delays a
   scan's answer; the memory of a worker's `THREAD_CONTEXT`, below.

## 7. Not modelled

* `AvScan` is empty.  `OperationStatusCallback` is not reached:
  `DoRequestOperationStatus` is false for creates, the only operation
  registered, and `PreOperationNoPostOperation` is not registered.
* What a scan never gives back, its buffer and its reference to the volume: the
  memory and the volume's own life are not in the models (listed as a hazard).
* The memory of a worker's overlapped request and message buffer, which are in
  its `THREAD_CONTEXT` on the heap (`communication.cpp:330`), freed when it leaves, and
  may still be written then (listed as a hazard);
  that such a worker drops its message is modelled.
* The text of names and requests: image names, file names, the search for
  ".txt" in a name.
* `terminatedBecauseError` (`communication.cpp:283`) is never set, so a worker
  that fails logs a normal stop; it has no effect but the wording of a log line.
* Logging, timestamps and formatting, except the `%s` that reads a status.
* `FsFilter1.c` is not compiled; `defs.h` is commented out; the build and packaging
  scripts have no logic of the program's own.

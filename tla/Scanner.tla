------------------------------ MODULE Scanner ------------------------------
(***************************************************************************)
(* The text scan: ScannerpScanFileInUserMode (minifilter_callbacks.c)      *)
(* reads the front of a file and sends it to the client, whose worker      *)
(* threads look for the forbidden word (communication.cpp) and answer      *)
(* whether the file may be opened.  Nothing in src/ calls the scan; here   *)
(* any thread may, again and again.                                        *)
(*                                                                         *)
(* A character is a cell: the halves of the word, NUL, or another.         *)
(* BufferSize cells stand for SCANNER_READ_BUFFER_SIZE bytes.  The port is *)
(* external, as in DsmkPort.                                               *)
(***************************************************************************)
EXTENDS Naturals, Sequences

CONSTANTS Scans,       \* threads that scan
          Workers,     \* the client's worker threads
          Files,       \* what a file may contain: sequences of cells
          Rests,       \* what the stack may hold where notification lies
          BufferSize,  \* SCANNER_READ_BUFFER_SIZE
          SectorSizes,
          None         \* no scan, no worker

Cells == {"pet", "rica", "nul", "other"}

ConstantsOK ==
  /\ Files \subseteq Seq(Cells) /\ BufferSize \in Nat /\ SectorSizes \subseteq Nat
  /\ Rests \subseteq [1..BufferSize -> Cells]
  /\ None \notin Scans \cup Workers

VARIABLES
  client,        \* a client is connected at gDrv.DllConnClientPort
  place,         \* place[s]: where the scan by s stands
  file,          \* file[s]: what its file contains
  notification,  \* notification[s]: BytesToScan and Contents
  SafeToOpen,    \* SafeToOpen[s]
  status,        \* status[s]: what the scan returned
  holder,        \* holder[s]: the worker that received its message
  wmsg,          \* wmsg[w]: the scan whose message is in w's MessageBuffer
  wtext          \* wtext[w]: that message

scanVars == <<place, file, notification, SafeToOpen, status>>
workVars == <<wmsg, wtext>>
vars == <<client, scanVars, holder, workVars>>

Places == {"idle", "preparing", "reading", "sending", "waiting", "returned"}

Notifications == [BytesToScan : Nat, Contents : [1..BufferSize -> Cells]]

TypeOK ==
  /\ client \in BOOLEAN
  /\ place \in [Scans -> Places]
  /\ file \in [Scans -> Files]
  /\ notification \in [Scans -> Notifications]
  /\ SafeToOpen \in [Scans -> BOOLEAN]
  /\ status \in [Scans -> {"success", "failed"}]
  /\ holder \in [Scans -> Workers \cup {None}]
  /\ wmsg \in [Workers -> Scans \cup {None}]
  /\ wtext \in [Workers -> Notifications]

NoText == [BytesToScan |-> 0, Contents |-> [i \in 1..BufferSize |-> "nul"]]

Init ==
  /\ client = FALSE
  /\ place = [s \in Scans |-> "idle"]
  /\ \E f \in Files : file = [s \in Scans |-> f]
  /\ notification = [s \in Scans |-> NoText]
  /\ SafeToOpen = [s \in Scans |-> TRUE]
  /\ status = [s \in Scans |-> "success"]
  /\ holder = [s \in Scans |-> None]
  /\ wmsg = [w \in Workers |-> None]
  /\ wtext = [w \in Workers |-> NoText]

Lesser(m, n)  == IF m < n THEN m ELSE n
Greater(m, n) == IF m > n THEN m ELSE n

(***************************************************************************)
(* The worker's search                                                     *)
(***************************************************************************)
HasWord(t) == \E i \in 1 .. Len(t) - 1 : t[i] = "pet" /\ t[i + 1] = "rica"

\* buff_collected: the characters up to the first NUL, cut or filled with NULs
\* to BytesToScan.  A string that fills Contents runs on into Allowed and then
\* into bytes that are no text.
Collected(m) ==
  [i \in 1 .. m.BytesToScan |->
     IF \E j \in 1 .. Lesser(i, BufferSize) : m.Contents[j] = "nul" THEN "nul"
     ELSE IF i <= BufferSize THEN m.Contents[i] ELSE "other"]

Permission(m) == ~HasWord(Collected(m))

(***************************************************************************)
(* ScannerpScanFileInUserMode                                              *)
(***************************************************************************)
Goes(s, p) == place' = [place EXCEPT ![s] = p]

\* notification is local to the call.
Returns(s, result) ==
  /\ Goes(s, "returned")
  /\ status' = [status EXCEPT ![s] = result]
  /\ notification' = [notification EXCEPT ![s] = NoText]

\* Variant with a defect: safe is what has been found safe.
ScanBeginsUnsafe(s) ==
  /\ place[s] \in {"idle", "returned"}
  /\ Goes(s, "preparing")
  /\ file' \in [Scans -> Files] /\ \A t \in Scans \ {s} : file'[t] = file[t]
  /\ SafeToOpen' = [SafeToOpen EXCEPT ![s] = FALSE]
  /\ UNCHANGED <<client, notification, status, holder, workVars>>

ScanBegins(s) ==
  /\ place[s] \in {"idle", "returned"}
  /\ Goes(s, "preparing")
  /\ \E f \in Files : file' = [file EXCEPT ![s] = f]
  /\ SafeToOpen' = [SafeToOpen EXCEPT ![s] = TRUE]
  /\ UNCHANGED <<client, notification, status, holder, workVars>>

\* The volume, its properties, the buffer.
Prepared(s) ==
  /\ place[s] = "preparing"
  /\ Goes(s, "reading")
  /\ UNCHANGED <<client, file, notification, SafeToOpen, status, holder, workVars>>

\* One of them, or the read, fails.
Fails(s) ==
  /\ place[s] \in {"preparing", "reading"}
  /\ Returns(s, "failed")
  /\ UNCHANGED <<client, file, SafeToOpen, holder, workVars>>

\* What notification holds when n bytes of f were read: Contents beyond them is
\* what the stack held.
Notification(f, n, rest) ==
  [BytesToScan |-> n,
   Contents |-> [i \in 1..BufferSize |-> IF i <= n THEN f[i] ELSE rest[i]]]

\* Variant with a defect: BytesToScan is the length asked for.
FltReadFileAsked(s) ==
  /\ place[s] = "reading"
  /\ \E size \in SectorSizes, rest \in Rests :
       LET length == Greater(BufferSize, size)
           n == Lesser(Len(file[s]), length)
       IN IF n = 0
          THEN Returns(s, "success")
          ELSE /\ Goes(s, "sending") /\ UNCHANGED status
               /\ notification' = [notification EXCEPT ![s] =
                    [Notification(file[s], n, rest) EXCEPT !.BytesToScan = length]]
  /\ UNCHANGED <<client, file, SafeToOpen, holder, workVars>>

\* One read of a sector or of the buffer's size, whichever is more; a file with
\* nothing in it is not sent.
FltReadFile(s) ==
  /\ place[s] = "reading"
  /\ \E size \in SectorSizes, rest \in Rests :
       LET n == Lesser(Len(file[s]), Greater(BufferSize, size))
       IN IF n = 0
          THEN Returns(s, "success")
          ELSE /\ Goes(s, "sending") /\ UNCHANGED status
               /\ notification' = [notification EXCEPT ![s] = Notification(file[s], n, rest)]
  /\ UNCHANGED <<client, file, SafeToOpen, holder, workVars>>

FltSendMessage(s) ==
  /\ place[s] = "sending"
  /\ IF client THEN Goes(s, "waiting") /\ UNCHANGED <<notification, status>>
     ELSE Returns(s, "failed")
  /\ UNCHANGED <<client, file, SafeToOpen, holder, workVars>>

\* The thread is terminated while it waits.
SenderTerminated(s) ==
  /\ place[s] = "waiting"
  /\ Returns(s, "failed")
  /\ holder' = [holder EXCEPT ![s] = None]
  /\ UNCHANGED <<client, file, SafeToOpen, workVars>>

(***************************************************************************)
(* The client                                                              *)
(***************************************************************************)
ClientConnects ==
  /\ ~client /\ client' = TRUE
  /\ UNCHANGED <<scanVars, holder, workVars>>

\* The client leaves or the driver closes its port: what waits there fails.
PortCloses ==
  /\ client' = FALSE
  /\ place' = [s \in Scans |-> IF place[s] = "waiting" THEN "returned" ELSE place[s]]
  /\ status' = [s \in Scans |-> IF place[s] = "waiting" THEN "failed" ELSE status[s]]
  /\ notification' = [s \in Scans |-> IF place[s] = "waiting" THEN NoText ELSE notification[s]]
  /\ holder' = [s \in Scans |-> None]
  /\ wmsg' = [w \in Workers |-> None] /\ wtext' = [w \in Workers |-> NoText]
  /\ UNCHANGED <<file, SafeToOpen>>

\* FilterGetMessage
TakeMessage(w, s) ==
  /\ wmsg[w] = None /\ place[s] = "waiting" /\ holder[s] = None
  /\ holder' = [holder EXCEPT ![s] = w]
  /\ wmsg' = [wmsg EXCEPT ![w] = s] /\ wtext' = [wtext EXCEPT ![w] = notification[s]]
  /\ UNCHANGED <<client, scanVars>>

\* cmdSendTextBuff: FilterReplyMessage reaches the message's own sender, if it
\* still waits.
Replies(w) ==
  /\ wmsg[w] # None
  /\ LET s == wmsg[w] IN
     IF holder[s] = w
       THEN /\ Returns(s, "success")
            /\ SafeToOpen' = [SafeToOpen EXCEPT ![s] = Permission(wtext[w])]
            /\ holder' = [holder EXCEPT ![s] = None]
       ELSE UNCHANGED <<place, notification, status, SafeToOpen, holder>>
  /\ wmsg' = [wmsg EXCEPT ![w] = None] /\ wtext' = [wtext EXCEPT ![w] = NoText]
  /\ UNCHANGED <<client, file>>

Step(s) == Prepared(s) \/ Fails(s) \/ FltReadFile(s) \/ FltSendMessage(s)

Next ==
  \/ \E s \in Scans : ScanBegins(s) \/ Step(s) \/ SenderTerminated(s)
  \/ ClientConnects \/ PortCloses
  \/ \E w \in Workers : Replies(w) \/ \E s \in Scans : TakeMessage(w, s)

Spec == Init /\ [][Next]_vars

(***************************************************************************)
(* Properties                                                              *)
(***************************************************************************)
\* A scan that fails, for whatever reason and however late, lets the file be
\* opened.
FailedScanIsSafe ==
  \A s \in Scans : place[s] = "returned" /\ status[s] = "failed" => SafeToOpen[s]

\* The word in the front of a file, before any NUL.
Front(f) == SubSeq(f, 1, Lesser(Len(f), BufferSize))
WordInFront(f) ==
  \E i \in 1 .. Len(Front(f)) - 1 :
    /\ f[i] = "pet" /\ f[i + 1] = "rica"
    /\ \A j \in 1 .. i : f[j] # "nul"

\* A scan that succeeds refuses a file exactly for the word in its own front: not
\* for what another scan left in a buffer or on the stack, not on the answer to
\* another message or to an earlier one, whatever the sector's size.
VerdictIsForItsFront ==
  \A s \in Scans :
    place[s] = "returned" /\ status[s] = "success" => (SafeToOpen[s] <=> ~WordInFront(file[s]))

\* SafeToOpen is FALSE if the file was scanned successfully and contains the
\* word.
RefusesFoulLanguage ==
  \A s \in Scans :
    place[s] = "returned" /\ status[s] = "success" /\ HasWord(file[s]) => ~SafeToOpen[s]
=============================================================================

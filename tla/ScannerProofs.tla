--------------------------- MODULE ScannerProofs ---------------------------
(***************************************************************************)
(* Proofs about Scanner: for any number of scans and workers, any files    *)
(* and any sizes of the buffer and of sectors.                             *)
(***************************************************************************)
EXTENDS Scanner, SequenceTheorems, TLAPS

(***************************************************************************)
(* The search                                                              *)
(***************************************************************************)
\* How many cells one read gives.
Read(f, size) == Lesser(Len(f), Greater(BufferSize, size))

\* What is read of a file fits what is sent of it.
LEMMA ReadType ==
  ASSUME ConstantsOK, NEW f \in Files, NEW size \in SectorSizes
  PROVE  /\ f \in Seq(Cells) /\ Len(f) \in Nat /\ size \in Nat /\ BufferSize \in Nat
         /\ Read(f, size) \in Nat /\ Read(f, size) <= Len(f)
         /\ Lesser(Len(f), BufferSize) <= Read(f, size)
  BY LenProperties DEF ConstantsOK, Read, Lesser, Greater

\* The message a scan may send about f.
MessageOf(m, f) ==
  \E size \in SectorSizes, rest \in Rests :
    Read(f, size) # 0 /\ m = Notification(f, Read(f, size), rest)

\* The part of a file that the message carries.
LEMMA FrontOf ==
  ASSUME ConstantsOK, NEW f \in Files
  PROVE  /\ Len(f) \in Nat /\ BufferSize \in Nat
         /\ Len(Front(f)) = Lesser(Len(f), BufferSize)
<1>1. f \in Seq(Cells) /\ BufferSize \in Nat
  BY DEF ConstantsOK
<1>2. Len(f) \in Nat /\ \A i \in 1 .. Len(f) : f[i] \in Cells
  BY <1>1, LenProperties, ElementOfSeq
<1> DEFINE k == Lesser(Len(f), BufferSize)
<1>3. k \in Nat /\ k <= Len(f)
  BY <1>1, <1>2 DEF Lesser
<1>4. \A i \in 1 .. k : f[i] \in Cells
  BY <1>2, <1>3
<1>5. Len(SubSeq(f, 1, k)) = IF 1 <= k THEN k - 1 + 1 ELSE 0
  <2> HIDE DEF k
  <2> QED BY <1>3, <1>4, SubSeqProperties
<1>6. Len(SubSeq(f, 1, k)) = k
  <2> HIDE DEF k
  <2> QED BY <1>3, <1>5
<1> QED
  BY <1>1, <1>2, <1>6 DEF Front

\* buff_collected has BytesToScan characters, and up to the end of Contents the
\* file's own, until the first NUL.
LEMMA CollectedIs ==
  ASSUME ConstantsOK, NEW f \in Files, NEW size \in SectorSizes, NEW rest \in Rests,
         NEW m, m = Notification(f, Read(f, size), rest)
  PROVE  /\ Len(Collected(m)) = Read(f, size)
         /\ \A i \in 1 .. Read(f, size) :
              Collected(m)[i] =
                IF \E j \in 1 .. Lesser(i, BufferSize) : f[j] = "nul" THEN "nul"
                ELSE IF i <= BufferSize THEN f[i] ELSE "other"
<1> DEFINE n == Read(f, size)
<1>1. n \in Nat /\ n <= Len(f) /\ BufferSize \in Nat /\ f \in Seq(Cells)
  BY ReadType
<1>2. m.BytesToScan = n
  BY DEF Notification
<1>3. \A j \in 1 .. BufferSize : m.Contents[j] = IF j <= n THEN f[j] ELSE rest[j]
  BY DEF Notification
<1> HIDE DEF n
<1>4. \A i \in 1 .. n : \A j \in 1 .. Lesser(i, BufferSize) : m.Contents[j] = f[j]
  BY <1>1, <1>3 DEF Lesser
<1>5. \A i \in 1 .. n : i <= BufferSize => m.Contents[i] = f[i]
  BY <1>1, <1>3
<1> DEFINE e(i) == IF \E j \in 1 .. Lesser(i, BufferSize) : f[j] = "nul" THEN "nul"
                   ELSE IF i <= BufferSize THEN f[i] ELSE "other"
<1>6. Collected(m) = [i \in 1 .. n |-> e(i)]
  <2>1. \A i \in 1 .. n :
          (\E j \in 1 .. Lesser(i, BufferSize) : m.Contents[j] = "nul")
            <=> \E j \in 1 .. Lesser(i, BufferSize) : f[j] = "nul"
    BY <1>4
  <2> QED BY <1>2, <1>5, <2>1 DEF Collected
<1>7. \A i \in 1 .. n : e(i) \in Cells
  BY <1>1, ElementOfSeq DEF Cells
<1>8. Collected(m) \in [1 .. n -> Cells]
  <2> HIDE DEF e
  <2> QED BY <1>6, <1>7
<1>9. Collected(m) \in Seq(Cells)
  BY <1>1, <1>8, SeqDef
<1>10. Len(Collected(m)) = n
  BY <1>1, <1>8, <1>9, LenProperties
<1> QED
  BY <1>6, <1>10 DEF n

\* The worker's verdict on a message about f is whether the word is in the front
\* of f, however large a sector is and whatever lies behind what was read.
LEMMA PermissionIsRight ==
  ASSUME ConstantsOK, NEW f \in Files, NEW m, MessageOf(m, f)
  PROVE  Permission(m) <=> ~WordInFront(f)
<1>1. PICK size \in SectorSizes, rest \in Rests : m = Notification(f, Read(f, size), rest)
  BY DEF MessageOf
<1> DEFINE n == Read(f, size)
           C == Collected(m)
<1>2. /\ n \in Nat /\ n <= Len(f) /\ Len(f) \in Nat /\ BufferSize \in Nat
      /\ Lesser(Len(f), BufferSize) <= n
  BY ReadType
<1>3. /\ Len(C) = n
      /\ \A i \in 1 .. n :
           C[i] = IF \E j \in 1 .. Lesser(i, BufferSize) : f[j] = "nul" THEN "nul"
                  ELSE IF i <= BufferSize THEN f[i] ELSE "other"
  BY <1>1, CollectedIs
<1>4. Len(Front(f)) = Lesser(Len(f), BufferSize)
  BY FrontOf
<1> HIDE DEF n, C
<1>5. ASSUME NEW i \in 1 .. n - 1, C[i] = "pet", C[i + 1] = "rica"
      PROVE  WordInFront(f)
  <2>1. i \in 1 .. n /\ i + 1 \in 1 .. n
    BY <1>2
  <2>2. i + 1 <= BufferSize /\ f[i] = "pet" /\ f[i + 1] = "rica"
    BY <1>2, <1>3, <1>5, <2>1
  <2>3. \A j \in 1 .. i : f[j] # "nul"
    BY <1>2, <1>3, <1>5, <2>1, <2>2 DEF Lesser
  <2>4. i \in 1 .. Len(Front(f)) - 1
    BY <1>2, <1>4, <2>1, <2>2 DEF Lesser
  <2> QED BY <2>2, <2>3, <2>4 DEF WordInFront
<1>6. ASSUME WordInFront(f)
      PROVE  \E i \in 1 .. n - 1 : C[i] = "pet" /\ C[i + 1] = "rica"
  <2>1. PICK i \in 1 .. Len(Front(f)) - 1 :
          /\ f[i] = "pet" /\ f[i + 1] = "rica" /\ \A j \in 1 .. i : f[j] # "nul"
    BY <1>6 DEF WordInFront
  <2>2. /\ i \in 1 .. n - 1 /\ i \in 1 .. n /\ i + 1 \in 1 .. n
        /\ i + 1 <= BufferSize /\ i <= BufferSize
    BY <1>2, <1>4, <2>1 DEF Lesser
  <2>3. \A j \in 1 .. i + 1 : f[j] # "nul"
    BY <2>1, <2>2
  <2>4. Lesser(i, BufferSize) = i /\ Lesser(i + 1, BufferSize) = i + 1
    BY <1>2, <2>2 DEF Lesser
  <2>5. C[i] = "pet" /\ C[i + 1] = "rica"
    BY <1>3, <2>1, <2>2, <2>3, <2>4
  <2> QED BY <2>2, <2>5
<1> QED
  BY <1>3, <1>5, <1>6 DEF Permission, HasWord, C

\* A file of which nothing is read has nothing in its front.
LEMMA NothingRead ==
  ASSUME ConstantsOK, NEW f \in Files, NEW size \in SectorSizes, Read(f, size) = 0
  PROVE  ~WordInFront(f)
  BY ReadType, FrontOf DEF WordInFront

(***************************************************************************)
(* The inductive invariant                                                 *)
(***************************************************************************)
\* A worker whose message is still waited for has it as it was sent.
HoldInv ==
  \A s \in Scans : holder[s] # None =>
    /\ place[s] = "waiting"
    /\ wmsg[holder[s]] = s /\ wtext[holder[s]] = notification[s]

\* What is sent is of the file that is scanned.
Sendable == {mf \in Notifications \X Files : MessageOf(mf[1], mf[2])}

SentInv ==
  \A s \in Scans : place[s] \in {"sending", "waiting"} => <<notification[s], file[s]>> \in Sendable

\* A scan that has no answer lets the file be opened.
SafeInv ==
  /\ \A s \in Scans : place[s] \notin {"idle", "returned"} => SafeToOpen[s]
  /\ FailedScanIsSafe

\* A scan that succeeded has its answer.
Refused == {f \in Files : WordInFront(f)}

VerdictInv ==
  \A s \in Scans :
    place[s] = "returned" /\ status[s] = "success" => (SafeToOpen[s] <=> file[s] \notin Refused)

Inv == TypeOK /\ HoldInv /\ SentInv /\ SafeInv /\ VerdictInv

\* With nothing scanned and no client, all of it holds.
LEMMA InvInit == ConstantsOK /\ Init => Inv
<1> SUFFICES ASSUME ConstantsOK, Init PROVE Inv
  OBVIOUS
<1> USE DEF Init, NoText
<1>1. NoText \in Notifications
  BY DEF ConstantsOK, Notifications, Cells
<1>2. TypeOK
  BY <1>1 DEF TypeOK, Places
<1>3. HoldInv /\ SentInv /\ SafeInv /\ VerdictInv
  BY DEF HoldInv, SentInv, SafeInv, FailedScanIsSafe, VerdictInv
<1> QED
  BY <1>2, <1>3 DEF Inv

\* What a scan sends, and what lies there when it sends nothing, has its type.
LEMMA NotificationType ==
  ASSUME ConstantsOK
  PROVE  /\ NoText \in Notifications
         /\ \A f \in Files, size \in SectorSizes, rest \in Rests :
              Notification(f, Read(f, size), rest) \in Notifications
<1>1. NoText \in Notifications
  BY DEF ConstantsOK, NoText, Notifications, Cells
<1>2. ASSUME NEW f \in Files, NEW size \in SectorSizes, NEW rest \in Rests
      PROVE  Notification(f, Read(f, size), rest) \in Notifications
  <2>1. Read(f, size) \in Nat /\ Read(f, size) <= Len(f) /\ f \in Seq(Cells) /\ BufferSize \in Nat
    BY ReadType
  <2>2. \A i \in 1 .. BufferSize : i <= Read(f, size) => f[i] \in Cells
    BY <2>1, ElementOfSeq, LenProperties
  <2>3. \A i \in 1 .. BufferSize : rest[i] \in Cells
    BY DEF ConstantsOK
  <2> QED BY <2>1, <2>2, <2>3 DEF Notification, Notifications
<1> QED BY <1>1, <1>2

\* FltReadFile: nothing is sent, or the front of the file.
LEMMA ReadStep ==
  ASSUME ConstantsOK, Inv, NEW s \in Scans, FltReadFile(s)
  PROVE  Inv'
<1> USE DEF Inv
<1>1. PICK size \in SectorSizes, rest \in Rests :
        IF Read(file[s], size) = 0
        THEN Returns(s, "success")
        ELSE /\ Goes(s, "sending") /\ UNCHANGED status
             /\ notification' = [notification EXCEPT ![s] =
                                    Notification(file[s], Read(file[s], size), rest)]
  BY DEF FltReadFile, Read
<1>2. /\ place[s] = "reading" /\ holder[s] = None /\ SafeToOpen[s] /\ file[s] \in Files
      /\ UNCHANGED <<client, file, SafeToOpen, holder, wmsg, wtext>>
  BY DEF FltReadFile, HoldInv, SafeInv, TypeOK, workVars
<1>3. CASE Read(file[s], size) = 0
  <2>1. Returns(s, "success") /\ file[s] \notin Refused
    BY <1>1, <1>2, <1>3, NothingRead DEF Refused
  <2>2. TypeOK'
    BY <1>2, <2>1, NotificationType DEF Returns, Goes, TypeOK, Places
  <2>3. HoldInv' /\ SentInv' /\ SafeInv'
    BY <1>2, <2>1
    DEF Returns, Goes, TypeOK, HoldInv, SentInv, SafeInv, FailedScanIsSafe
  <2>4. VerdictInv'
    BY <1>2, <2>1 DEF Returns, Goes, TypeOK, VerdictInv
  <2> QED BY <2>2, <2>3, <2>4
<1>4. CASE Read(file[s], size) # 0
  <2> DEFINE m == Notification(file[s], Read(file[s], size), rest)
  <2>1. /\ place' = [place EXCEPT ![s] = "sending"] /\ UNCHANGED status
        /\ notification' = [notification EXCEPT ![s] = m]
    BY <1>1, <1>4 DEF Goes
  <2>2. MessageOf(m, file[s]) /\ m \in Notifications
    BY <1>2, <1>4, NotificationType DEF MessageOf
  <2> HIDE DEF m
  <2>3. TypeOK'
    BY <1>2, <2>1, <2>2 DEF TypeOK, Places
  <2>4. HoldInv'
    BY <1>2, <2>1 DEF TypeOK, HoldInv
  <2>5. SentInv'
    <3>1. <<m, file[s]>> \in Sendable
      BY <1>2, <2>2 DEF Sendable
    <3> QED BY <1>2, <2>1, <3>1 DEF TypeOK, SentInv
  <2>6. SafeInv' /\ VerdictInv'
    BY <1>2, <2>1 DEF TypeOK, SafeInv, FailedScanIsSafe, VerdictInv
  <2> QED BY <2>3, <2>4, <2>5, <2>6
<1> QED BY <1>3, <1>4

\* The reply of a worker whose message is still waited for is about its file.
LEMMA ReplyStep ==
  ASSUME ConstantsOK, Inv, NEW w \in Workers, Replies(w)
  PROVE  Inv'
<1> USE DEF Inv
<1> DEFINE s == wmsg[w]
<1>1. /\ s \in Scans /\ s # None /\ w # None /\ UNCHANGED <<client, file>>
      /\ wmsg' = [wmsg EXCEPT ![w] = None] /\ wtext' = [wtext EXCEPT ![w] = NoText]
  BY DEF Replies, TypeOK, ConstantsOK
<1>2. CASE holder[s] = w
  <2>1. /\ place[s] = "waiting" /\ wtext[w] = notification[s] /\ file[s] \in Files
        /\ \A t \in Scans : holder[t] = w => t = s
    BY <1>1, <1>2 DEF HoldInv, TypeOK
  <2>2. Permission(wtext[w]) <=> file[s] \notin Refused
    BY <1>1, <2>1, PermissionIsRight DEF SentInv, Sendable, Refused
  <2> DEFINE verdict == Permission(wtext[w])
  <2>3. /\ place' = [place EXCEPT ![s] = "returned"]
        /\ status' = [status EXCEPT ![s] = "success"]
        /\ notification' = [notification EXCEPT ![s] = NoText]
        /\ SafeToOpen' = [SafeToOpen EXCEPT ![s] = verdict]
        /\ holder' = [holder EXCEPT ![s] = None]
        /\ verdict \in BOOLEAN
    BY <1>2 DEF Replies, Returns, Goes, Permission
  <2> HIDE DEF verdict, s
  <2>4. TypeOK'
    BY <1>1, <2>3, NotificationType DEF TypeOK, Places
  <2>5. HoldInv'
    BY <1>1, <2>1, <2>3 DEF TypeOK, HoldInv
  <2>6. SentInv'
    BY <1>1, <2>3 DEF TypeOK, SentInv
  <2>7. SafeInv'
    BY <1>1, <2>3 DEF TypeOK, SafeInv, FailedScanIsSafe
  <2>8. VerdictInv'
    BY <1>1, <2>2, <2>3 DEF TypeOK, VerdictInv, verdict, s
  <2> QED BY <2>4, <2>5, <2>6, <2>7, <2>8
<1>3. CASE holder[s] # w
  <2>1. UNCHANGED <<place, notification, status, SafeToOpen, holder>>
    BY <1>3 DEF Replies
  <2> HIDE DEF s
  <2>2. TypeOK'
    BY <1>1, <2>1, NotificationType DEF TypeOK
  <2>3. HoldInv'
    <3>1. \A t \in Scans : holder[t] # w
      BY <1>1, <1>3 DEF HoldInv, TypeOK, s
    <3> QED BY <1>1, <2>1, <3>1 DEF TypeOK, HoldInv
  <2>4. SentInv' /\ SafeInv' /\ VerdictInv'
    BY <1>1, <2>1 DEF SentInv, SafeInv, FailedScanIsSafe, VerdictInv
  <2> QED BY <2>2, <2>3, <2>4
<1> QED BY <1>2, <1>3

\* Every step of a scan, of the client and of its workers keeps the invariant.
LEMMA InvStep == ConstantsOK /\ Inv /\ [Next]_vars => Inv'
<1> SUFFICES ASSUME ConstantsOK, Inv, [Next]_vars PROVE Inv'
  OBVIOUS
<1>1. NoText \in Notifications /\ None \notin Scans \cup Workers
  BY NotificationType DEF ConstantsOK
<1> USE DEF Inv, TypeOK, Places, SentInv, SafeInv, FailedScanIsSafe, VerdictInv, Goes, Returns,
            scanVars, workVars
<1>2. ASSUME NEW s \in Scans, ScanBegins(s) PROVE Inv'
  BY <1>1, <1>2 DEF ScanBegins, HoldInv
<1>3. ASSUME NEW s \in Scans, Prepared(s) PROVE Inv'
  BY <1>1, <1>3 DEF Prepared, HoldInv
<1>4. ASSUME NEW s \in Scans, Fails(s) PROVE Inv'
  BY <1>1, <1>4 DEF Fails, HoldInv
<1>5. ASSUME NEW s \in Scans, FltReadFile(s) PROVE Inv'
  BY <1>5, ReadStep
<1>6. ASSUME NEW s \in Scans, FltSendMessage(s) PROVE Inv'
  BY <1>1, <1>6 DEF FltSendMessage, HoldInv
<1>7. ASSUME NEW s \in Scans, SenderTerminated(s) PROVE Inv'
  BY <1>1, <1>7 DEF SenderTerminated, HoldInv
<1>8. CASE ClientConnects
  BY <1>8 DEF ClientConnects, HoldInv
<1>9. CASE PortCloses
  BY <1>1, <1>9 DEF PortCloses, HoldInv
<1>10. ASSUME NEW w \in Workers, NEW s \in Scans, TakeMessage(w, s) PROVE Inv'
  BY <1>1, <1>10 DEF TakeMessage, HoldInv
<1>11. ASSUME NEW w \in Workers, Replies(w) PROVE Inv'
  BY <1>11, ReplyStep
<1>12. CASE UNCHANGED vars
  BY <1>12 DEF vars, HoldInv
<1> QED
  BY <1>2, <1>3, <1>4, <1>5, <1>6, <1>7, <1>8, <1>9, <1>10, <1>11, <1>12 DEF Next, Step

\* So it holds in every reachable state.
LEMMA Invariance ==
  ASSUME ConstantsOK
  PROVE  Spec => []Inv
<1>1. Init => Inv
  BY InvInit
<1>2. Inv /\ [Next]_vars => Inv'
  BY InvStep
<1> QED
  BY <1>1, <1>2, PTL DEF Spec

\* What it says of a verdict.
LEMMA InvVerdict == Inv => VerdictIsForItsFront
  BY DEF Inv, TypeOK, VerdictInv, VerdictIsForItsFront, Refused

\* Every variable keeps its type.
THEOREM TypeCorrect ==
  ASSUME ConstantsOK
  PROVE  Spec => []TypeOK
  BY Invariance, PTL DEF Inv

\* ScannerpScanFileInUserMode leaves SafeToOpen TRUE whenever it fails, at
\* whatever point and with an answer on its way.
THEOREM FailureIsSafe ==
  ASSUME ConstantsOK
  PROVE  Spec => []FailedScanIsSafe
  BY Invariance, PTL DEF Inv, SafeInv

\* The worker's answer is about the file it is used for, and right about its
\* front, for all sizes of buffer and sectors.
THEOREM VerdictIsRight ==
  ASSUME ConstantsOK
  PROVE  Spec => []VerdictIsForItsFront
  BY Invariance, InvVerdict, PTL
=============================================================================

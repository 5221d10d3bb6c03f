-------------------------- MODULE ProcNotifyProofs --------------------------
(***************************************************************************)
(* Proofs about ProcNotify, for any callers and processes.                 *)
(***************************************************************************)
EXTENDS ProcNotify, TLAPS

\* The flag is clear and nobody is in a command.
LEMMA TypeInit == Init => TypeOK
  BY DEF Init, TypeOK, Places, Outcomes

\* No half of a command breaks a type.
LEMMA TypeStep == TypeOK /\ [Next]_vars => TypeOK'
<1> SUFFICES ASSUME TypeOK, [Next]_vars PROVE TypeOK'
  OBVIOUS
<1> USE DEF TypeOK, Places, Outcomes, vars, kernelVars, Up, Begins, At, Goes, Returns
<1>1. ASSUME NEW c \in Callers, EnableAlready(c) PROVE TypeOK'
  BY <1>1 DEF EnableAlready
<1>2. ASSUME NEW c \in Callers, Enable(c) PROVE TypeOK'
  BY <1>2 DEF Enable
<1>3. ASSUME NEW c \in Callers, PsSetRegister(c) PROVE TypeOK'
  BY <1>3 DEF PsSetRegister
<1>4. ASSUME NEW c \in Callers, PsSetRegisterFails(c) PROVE TypeOK'
  BY <1>4 DEF PsSetRegisterFails
<1>5. ASSUME NEW c \in Callers, SetFlag(c) PROVE TypeOK'
  BY <1>5 DEF SetFlag
<1>6. ASSUME NEW c \in Callers, DisableAlready(c) PROVE TypeOK'
  BY <1>6 DEF DisableAlready
<1>7. ASSUME NEW c \in Callers, Disable(c) PROVE TypeOK'
  BY <1>7 DEF Disable
<1>8. ASSUME NEW c \in Callers, PsSetRemove(c) PROVE TypeOK'
  BY <1>8 DEF PsSetRemove
<1>9. ASSUME NEW c \in Callers, PsSetRemoveFails(c) PROVE TypeOK'
  BY <1>9 DEF PsSetRemoveFails
<1>10. ASSUME NEW c \in Callers, PsSetRemoveReturns(c) PROVE TypeOK'
  BY <1>10 DEF PsSetRemoveReturns
<1>11. ASSUME NEW c \in Callers, ClearFlag(c) PROVE TypeOK'
  BY <1>11 DEF ClearFlag
<1>12. ASSUME NEW p \in Procs, CallbackStarts(p) PROVE TypeOK'
  BY <1>12 DEF CallbackStarts
<1>13. ASSUME NEW p \in Procs, CallbackEnds(p) PROVE TypeOK'
  BY <1>13 DEF CallbackEnds
<1>14. CASE UNCHANGED vars
  BY <1>14
<1> QED
  BY <1>1, <1>2, <1>3, <1>4, <1>5, <1>6, <1>7, <1>8, <1>9, <1>10, <1>11,
     <1>12, <1>13, <1>14 DEF Next, Step

\* Every variable keeps its type.
THEOREM TypeCorrect == Spec => []TypeOK
  BY TypeInit, TypeStep, PTL DEF Spec

(***************************************************************************)
(* Commands issued one at a time                                           *)
(***************************************************************************)
\* What the flag, the kernel and the callbacks are at each place the one
\* command in progress can be.
PlaceInv(c) ==
  /\ pc[c] = "registering" => ~gProcessNotifyRegistered /\ ~registered /\ running = {}
  /\ pc[c] = "registered"  => ~gProcessNotifyRegistered /\ registered
  /\ pc[c] = "removing"    => gProcessNotifyRegistered /\ registered
  /\ pc[c] = "draining"    => gProcessNotifyRegistered /\ ~registered /\ running \subseteq waits[c]
  /\ pc[c] = "removed"     => gProcessNotifyRegistered /\ ~registered /\ running = {}

SerialInv ==
  /\ \A c, d \in Callers : pc[c] # "idle" /\ pc[d] # "idle" => c = d
  /\ \A c \in Callers : PlaceInv(c)
  /\ Quiescent => gProcessNotifyRegistered = registered
  /\ Quiescent /\ ~registered => running = {}

\* Overlapping is not undone.
LEMMA OverlapStays == [Next]_vars /\ overlapped => overlapped'
  BY DEF Next, Step, vars, Begins, At, EnableAlready, Enable, PsSetRegister, PsSetRegisterFails,
         SetFlag, DisableAlready, Disable, PsSetRemove, PsSetRemoveFails, PsSetRemoveReturns,
         ClearFlag, CallbackStarts, CallbackEnds

\* A command that begins without an overlap begins alone.
LEMMA BeginsAlone == ASSUME NEW c \in Callers, Begins(c), ~overlapped' PROVE Quiescent
  BY DEF Begins

\* A command that runs alone keeps flag and registration together.
LEMMA SerialStep ==
  TypeOK /\ (~overlapped => SerialInv) /\ [Next]_vars => (~overlapped => SerialInv)'
<1> SUFFICES ASSUME TypeOK, SerialInv, ~overlapped', [Next]_vars PROVE SerialInv'
  BY OverlapStays
<1> USE DEF TypeOK, SerialInv, PlaceInv, Quiescent, vars, kernelVars, Up, Begins, At, Goes, Returns
<1>1. ASSUME NEW c \in Callers, EnableAlready(c) PROVE SerialInv'
  BY <1>1 DEF EnableAlready
<1>2. ASSUME NEW c \in Callers, Enable(c) PROVE SerialInv'
  <2>1. Quiescent
    BY <1>2, BeginsAlone DEF Enable
  <2>2. ~gProcessNotifyRegistered /\ ~registered /\ running = {}
    BY <1>2, <2>1 DEF Enable
  <2>3. pc' = [pc EXCEPT ![c] = "registering"] /\ ~gProcessNotifyRegistered' /\ ~registered' /\ running' = {}
    BY <1>2, <2>2 DEF Enable
  <2> QED
    BY <2>1, <2>3
<1>3. ASSUME NEW c \in Callers, PsSetRegister(c) PROVE SerialInv'
  BY <1>3 DEF PsSetRegister
<1>4. ASSUME NEW c \in Callers, PsSetRegisterFails(c) PROVE SerialInv'
  BY <1>4 DEF PsSetRegisterFails
<1>5. ASSUME NEW c \in Callers, SetFlag(c) PROVE SerialInv'
  BY <1>5 DEF SetFlag
<1>6. ASSUME NEW c \in Callers, DisableAlready(c) PROVE SerialInv'
  BY <1>6 DEF DisableAlready
<1>7. ASSUME NEW c \in Callers, Disable(c) PROVE SerialInv'
  BY <1>7 DEF Disable
<1>8. ASSUME NEW c \in Callers, PsSetRemove(c) PROVE SerialInv'
  BY <1>8 DEF PsSetRemove
<1>9. ASSUME NEW c \in Callers, PsSetRemoveFails(c) PROVE SerialInv'
  BY <1>9 DEF PsSetRemoveFails
<1>10. ASSUME NEW c \in Callers, PsSetRemoveReturns(c) PROVE SerialInv'
  BY <1>10 DEF PsSetRemoveReturns
<1>11. ASSUME NEW c \in Callers, ClearFlag(c) PROVE SerialInv'
  BY <1>11 DEF ClearFlag
<1>12. ASSUME NEW p \in Procs, CallbackStarts(p) PROVE SerialInv'
  BY <1>12 DEF CallbackStarts
<1>13. ASSUME NEW p \in Procs, CallbackEnds(p) PROVE SerialInv'
  BY <1>13 DEF CallbackEnds
<1>14. CASE UNCHANGED vars
  BY <1>14
<1> QED
  BY <1>1, <1>2, <1>3, <1>4, <1>5, <1>6, <1>7, <1>8, <1>9, <1>10, <1>11,
     <1>12, <1>13, <1>14 DEF Next, Step

\* Once commands have overlapped nothing is claimed.
LEMMA SerialInvariance == Spec => [](~overlapped => SerialInv)
<1>1. Init => (~overlapped => SerialInv)
  BY DEF Init, SerialInv, PlaceInv, Quiescent
<1> QED
  BY <1>1, SerialStep, TypeCorrect, PTL DEF Spec

\* Issued one at a time, the commands keep gProcessNotifyRegistered equal to
\* what the kernel has.
THEOREM FlagIsRight == Spec => []FlagTracksKernel
<1>1. (~overlapped => SerialInv) => FlagTracksKernel
  BY DEF SerialInv, FlagTracksKernel
<1> QED
  BY <1>1, SerialInvariance, PTL

\* Issued one at a time, a procmon_off that has returned leaves no callback.
THEOREM OffIsQuiet == Spec => []OffMeansQuiet
<1>1. (~overlapped => SerialInv) => OffMeansQuiet
  BY DEF SerialInv, OffMeansQuiet
<1> QED
  BY <1>1, SerialInvariance, PTL

(***************************************************************************)
(* The commands, one at a time, implement NotifySwitch                     *)
(***************************************************************************)
\* Nobody but c has a command in the driver.
Alone(c) == \A d \in Callers \ {c} : pc[d] = "idle"

\* A step that goes on with a command, or begins one without an overlap, is by
\* the only caller there.
LEMMA StepsAlone ==
  ASSUME SerialInv, NEW c \in Callers,
         (\E place \in Places \ {"idle"} : At(c, place)) \/ (Begins(c) /\ ~overlapped')
  PROVE  Alone(c)
  BY BeginsAlone DEF SerialInv, Alone, At, Quiescent

\* The flag to be is then up to the flag and the place of c.
LEMMA FlagToBeOf ==
  ASSUME TypeOK, NEW c \in Callers, Alone(c), NEW place \in Places, Goes(c, place)
  PROVE  /\ FlagToBe <=> gProcessNotifyRegistered \/ pc[c] = "registered"
         /\ FlagToBe' <=> gProcessNotifyRegistered' \/ place = "registered"
<1>1. FlagToBe <=> gProcessNotifyRegistered \/ pc[c] = "registered"
  BY DEF FlagToBe, Alone
<1>2. pc'[c] = place /\ \A d \in Callers \ {c} : pc'[d] = "idle"
  BY DEF TypeOK, Goes, Alone
<1>3. FlagToBe' <=> gProcessNotifyRegistered' \/ place = "registered"
  BY <1>2 DEF FlagToBe
<1> QED
  BY <1>1, <1>3

\* A step on which flag to be, registration and callbacks stay is internal.
LEMMA Internal ==
  ASSUME (FlagToBe' <=> FlagToBe), UNCHANGED <<registered, running>>
  PROVE  UNCHANGED Switch!vars
<1>1. FlagToBe' = FlagToBe
  BY DEF FlagToBe
<1> QED
  BY <1>1 DEF Switch!vars

\* The registration turns on, the removal turns off, the write that clears the
\* flag returns; every other test, failure and write is internal.
LEMMA SwitchStep ==
  ASSUME TypeOK, SerialInv, ~overlapped', [Next]_vars
  PROVE  [Switch!Next]_(Switch!vars)
<1> USE DEF vars, kernelVars, Up, Returns, Places
<1>1. ASSUME NEW c \in Callers,
             EnableAlready(c) \/ Enable(c) \/ DisableAlready(c) \/ Disable(c)
      PROVE  UNCHANGED Switch!vars
  <2>1. Alone(c) /\ pc[c] = "idle" /\ \E place \in {"idle", "registering", "removing"} : Goes(c, place)
    BY <1>1, StepsAlone DEF EnableAlready, Enable, DisableAlready, Disable, Begins
  <2>2. UNCHANGED <<gProcessNotifyRegistered, registered, running>>
    BY <1>1 DEF EnableAlready, Enable, DisableAlready, Disable
  <2> QED
    BY <2>1, <2>2, FlagToBeOf, Internal
<1>2. ASSUME NEW c \in Callers, PsSetRegister(c) PROVE Switch!TurnOn
  <2>1. Alone(c) /\ pc[c] = "registering" /\ Goes(c, "registered")
    BY <1>2, StepsAlone DEF PsSetRegister, At
  <2>2. ~FlagToBe /\ FlagToBe'
    BY <1>2, <2>1, FlagToBeOf DEF PsSetRegister, SerialInv, PlaceInv
  <2>3. FlagToBe' = TRUE
    BY <2>2 DEF FlagToBe
  <2> QED
    BY <1>2, <2>2, <2>3 DEF PsSetRegister, Switch!TurnOn
<1>3. ASSUME NEW c \in Callers, PsSetRegisterFails(c) PROVE UNCHANGED Switch!vars
  <2>1. Alone(c) /\ pc[c] = "registering" /\ Goes(c, "idle")
    BY <1>3, StepsAlone DEF PsSetRegisterFails, At
  <2> QED
    BY <1>3, <2>1, FlagToBeOf, Internal DEF PsSetRegisterFails
<1>4. ASSUME NEW c \in Callers, SetFlag(c) PROVE UNCHANGED Switch!vars
  <2>1. Alone(c) /\ pc[c] = "registered" /\ Goes(c, "idle")
    BY <1>4, StepsAlone DEF SetFlag, At
  <2> QED
    BY <1>4, <2>1, FlagToBeOf, Internal DEF SetFlag
<1>5. ASSUME NEW c \in Callers, PsSetRemove(c) PROVE Switch!TurnOff
  <2>1. Alone(c) /\ pc[c] = "removing" /\ Goes(c, "draining")
    BY <1>5, StepsAlone DEF PsSetRemove, At
  <2>2. FlagToBe /\ FlagToBe'
    BY <1>5, <2>1, FlagToBeOf DEF PsSetRemove, SerialInv, PlaceInv
  <2>3. FlagToBe' = FlagToBe
    BY <2>2 DEF FlagToBe
  <2> QED
    BY <1>5, <2>2, <2>3 DEF PsSetRemove, Switch!TurnOff
<1>6. ASSUME NEW c \in Callers, PsSetRemoveFails(c) PROVE FALSE
  BY <1>6 DEF PsSetRemoveFails, At, SerialInv, PlaceInv
<1>7. ASSUME NEW c \in Callers, PsSetRemoveReturns(c) PROVE UNCHANGED Switch!vars
  <2>1. Alone(c) /\ pc[c] = "draining" /\ Goes(c, "removed")
    BY <1>7, StepsAlone DEF PsSetRemoveReturns, At
  <2> QED
    BY <1>7, <2>1, FlagToBeOf, Internal DEF PsSetRemoveReturns
<1>8. ASSUME NEW c \in Callers, ClearFlag(c) PROVE Switch!OffReturns
  <2>1. Alone(c) /\ pc[c] = "removed" /\ Goes(c, "idle")
    BY <1>8, StepsAlone DEF ClearFlag, At
  <2>2. FlagToBe /\ ~FlagToBe'
    BY <1>8, <2>1, FlagToBeOf DEF ClearFlag, SerialInv, PlaceInv
  <2>3. FlagToBe' = FALSE
    BY <2>2 DEF FlagToBe
  <2> QED
    BY <1>8, <2>1, <2>2, <2>3 DEF ClearFlag, Switch!OffReturns, SerialInv, PlaceInv
<1>9. ASSUME NEW p \in Procs, CallbackStarts(p) PROVE Switch!CallbackStarts(p)
  BY <1>9 DEF CallbackStarts, Switch!CallbackStarts, FlagToBe
<1>10. ASSUME NEW p \in Procs, CallbackEnds(p) PROVE Switch!CallbackEnds(p)
  BY <1>10 DEF CallbackEnds, Switch!CallbackEnds, FlagToBe
<1>11. CASE UNCHANGED vars
  BY <1>11 DEF Switch!vars, FlagToBe
<1> QED
  BY <1>1, <1>2, <1>3, <1>4, <1>5, <1>6, <1>7, <1>8, <1>9, <1>10, <1>11
  DEF Next, Step, Switch!Next

\* Until two commands overlap, the functions of callbacks_ps.c are the single
\* steps of NotifySwitch, for any number of callers and callbacks.
THEOREM SwitchImplemented == Spec => SwitchUntilOverlap
<1>1. Init => Switch!Init
  <2> SUFFICES ASSUME Init PROVE Switch!Init
    OBVIOUS
  <2>1. FlagToBe = FALSE
    BY DEF Init, FlagToBe
  <2> QED
    BY <2>1 DEF Init, Switch!Init
<1>2. TypeOK /\ (~overlapped => SerialInv) /\ [Next]_vars
        => [~overlapped' => [Switch!Next]_(Switch!vars)]_vars
  BY SwitchStep, OverlapStays
<1> QED
  BY <1>1, <1>2, TypeCorrect, SerialInvariance, PTL DEF Spec, SwitchUntilOverlap

(***************************************************************************)
(* Commands that overlap                                                   *)
(***************************************************************************)
\* No step ends an orphaned state: with the flag clear neither removal nor
\* SetFlag can be reached.
LEMMA OrphanStep == TypeOK /\ Orphaned /\ [Next]_vars => Orphaned'
<1> SUFFICES ASSUME TypeOK, Orphaned, [Next]_vars PROVE Orphaned'
  OBVIOUS
<1> USE DEF TypeOK, Orphaned, vars, kernelVars, Up, Begins, At, Goes, Returns
<1>1. ASSUME NEW c \in Callers, EnableAlready(c) PROVE Orphaned'
  BY <1>1 DEF EnableAlready
<1>2. ASSUME NEW c \in Callers, Enable(c) PROVE Orphaned'
  BY <1>2 DEF Enable
<1>3. ASSUME NEW c \in Callers, PsSetRegister(c) PROVE Orphaned'
  BY <1>3 DEF PsSetRegister
<1>4. ASSUME NEW c \in Callers, PsSetRegisterFails(c) PROVE Orphaned'
  BY <1>4 DEF PsSetRegisterFails
<1>5. ASSUME NEW c \in Callers, SetFlag(c) PROVE Orphaned'
  BY <1>5 DEF SetFlag
<1>6. ASSUME NEW c \in Callers, DisableAlready(c) PROVE Orphaned'
  BY <1>6 DEF DisableAlready
<1>7. ASSUME NEW c \in Callers, Disable(c) PROVE Orphaned'
  BY <1>7 DEF Disable
<1>8. ASSUME NEW c \in Callers, PsSetRemove(c) PROVE Orphaned'
  BY <1>8 DEF PsSetRemove
<1>9. ASSUME NEW c \in Callers, PsSetRemoveFails(c) PROVE Orphaned'
  BY <1>9 DEF PsSetRemoveFails
<1>10. ASSUME NEW c \in Callers, PsSetRemoveReturns(c) PROVE Orphaned'
  BY <1>10 DEF PsSetRemoveReturns
<1>11. ASSUME NEW c \in Callers, ClearFlag(c) PROVE Orphaned'
  BY <1>11 DEF ClearFlag
<1>12. ASSUME NEW p \in Procs, CallbackStarts(p) PROVE Orphaned'
  BY <1>12 DEF CallbackStarts
<1>13. ASSUME NEW p \in Procs, CallbackEnds(p) PROVE Orphaned'
  BY <1>13 DEF CallbackEnds
<1>14. CASE UNCHANGED vars
  BY <1>14
<1> QED
  BY <1>1, <1>2, <1>3, <1>4, <1>5, <1>6, <1>7, <1>8, <1>9, <1>10, <1>11,
     <1>12, <1>13, <1>14 DEF Next, Step

\* Once the flag is lost no command can turn monitoring off.
THEOREM OrphanStays == Spec => OrphanedForEver
<1>1. TypeOK /\ [Next]_vars => [Orphaned => Orphaned']_vars
  BY OrphanStep
<1> QED
  BY <1>1, TypeCorrect, PTL DEF Spec, OrphanedForEver
=============================================================================

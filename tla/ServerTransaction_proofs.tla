------------------------ MODULE ServerTransaction_proofs -----------------------
(***************************************************************************)
(* Safety of one server transaction for every number of goroutines, every  *)
(* set of status codes and every number of retransmissions.                *)
(***************************************************************************)
EXTENDS ServerTransaction, TLAPS

\* The initial states of a transaction (newServerTransaction) satisfy the
\* inductive invariant.
LEMMA InitIInv == Init => IInv
<1> SUFFICES ASSUME Init PROVE IInv
  OBVIOUS
<1> USE DEF Init, Nil
<1>0. closed \in BOOLEAN /\ invite \in BOOLEAN
  BY Zenon
<1>1. TypeOK
  BY <1>0, TimersAssumption DEF TypeOK, States, Msgs, CtlPlaces, ProcPlaces, StInit
<1>2. MuInv /\ UnregisteredInv /\ ClosedInv /\ WriteMessageNeverPanics
  BY DEF MuInv, UnregisteredInv, ClosedInv, WriteMessageNeverPanics, Procs
<1>3. MessageInv /\ SentInv /\ TimerInv
  BY DEF MessageInv, SentInv, TimerInv, Procs
<1> QED
  BY <1>1, <1>2, <1>3 DEF IInv

\* The steps of the creating goroutine preserve the invariant.
LEMMA CreatorStep == IInv /\ Creator => IInv'
<1> SUFFICES ASSUME IInv, Creator PROVE IInv'
  OBVIOUS
<1> USE SetsAssumption, CodesAssumption, TimersAssumption
    DEF IInv, TypeOK, MuInv, UnregisteredInv, ClosedInv, MessageInv, SentInv,
        TimerInv, timers, WriteMessageNeverPanics, Alive, Procs, Free, Msgs, States,
        CtlPlaces, ProcPlaces, Nil, Ack, Retrans, Trying
<1>1. CASE AddServerTransaction
  BY <1>1 DEF AddServerTransaction, creatorFrame
<1>2. CASE CreatorDestroy
  <2>0. closed' \in BOOLEAN
    BY <1>2, Zenon DEF CreatorDestroy, creatorFrame, DestroyChanel, StClosed
  <2>1. TypeOK'
    BY <1>2, <2>0 DEF CreatorDestroy, creatorFrame, DestroyChanel, StClosed
  <2>2. MuInv' /\ UnregisteredInv'
    BY <1>2 DEF CreatorDestroy, creatorFrame, DestroyChanel, StClosed
  <2>3. ClosedInv' /\ WriteMessageNeverPanics'
    BY <1>2 DEF CreatorDestroy, creatorFrame, DestroyChanel, StClosed
  <2>4. MessageInv' /\ SentInv' /\ TimerInv'
    BY <1>2 DEF CreatorDestroy, creatorFrame, DestroyChanel, StClosed
  <2>5. panic' # "closeOfClosed"
    BY <1>2 DEF CreatorDestroy, creatorFrame, DestroyChanel, StClosed
  <2> QED
    BY <2>1, <2>2, <2>3, <2>4, <2>5
<1>3. CASE CreatorDelete
  BY <1>3 DEF CreatorDelete, creatorFrame
<1> QED
  BY <1>1, <1>2, <1>3 DEF Creator

\* The steps of the controller preserve the invariant.
LEMMA ControllerStep == IInv /\ Controller => IInv'
<1> SUFFICES ASSUME IInv, Controller PROVE IInv'
  OBVIOUS
<1> USE SetsAssumption, CodesAssumption, TimersAssumption
    DEF IInv, TypeOK, MuInv, UnregisteredInv, ClosedInv, MessageInv, SentInv,
        TimerInv, timers, WriteMessageNeverPanics, Alive, Procs, Free, Msgs, States,
        CtlPlaces, ProcPlaces, Nil, Ack, Retrans, Trying
<1>1. CASE CtlStart
  BY <1>1 DEF CtlStart, othersFrame, StProceeding, StTrying
<1>2. CASE Timer100Try
  BY <1>2 DEF Timer100Try, othersFrame
<1>3. CASE CtlSet100
  BY <1>3 DEF CtlSet100, othersFrame
<1>4. CASE CtlSetProv
  BY <1>4 DEF CtlSetProv, othersFrame, IsProvisional
<1>5. CASE CtlSetFinal
  BY <1>5 DEF CtlSetFinal, othersFrame, AfterFinal, Is2xx, StCompleted
<1>6. ASSUME NEW p \in Procs, CtlReceiveInvite(p) PROVE IInv'
  BY <1>6 DEF CtlReceiveInvite, received, FirstNext, LoopNext, CompletedNext,
              IsResponse, IsProvisional, Is2xx, StConfirmed
<1>7. ASSUME NEW p \in Procs, CtlReceiveNonInvite(p) PROVE IInv'
  BY <1>7 DEF CtlReceiveNonInvite, received, IsResponse
<1>8. CASE CtlClosed
  BY <1>8 DEF CtlClosed, othersFrame, ClosedNext
<1>9. CASE TimerG
  BY <1>9 DEF TimerG, NextG, othersFrame
<1>10. CASE TimerH \/ TimerIJ
  BY <1>10 DEF TimerH, TimerIJ, othersFrame
<1>11. CASE CtlTerminated
  BY <1>11 DEF CtlTerminated, othersFrame, StTerminated
<1>12. CASE CtlDestroy
  <2>0. closed' \in BOOLEAN
    BY <1>12, Zenon DEF CtlDestroy, othersFrame, DestroyChanel, StClosed
  <2>1. TypeOK'
    BY <1>12, <2>0 DEF CtlDestroy, othersFrame, DestroyChanel, StClosed
  <2>2. MuInv' /\ UnregisteredInv'
    BY <1>12 DEF CtlDestroy, othersFrame, DestroyChanel, StClosed
  <2>3. ClosedInv' /\ WriteMessageNeverPanics'
    <3>1. ClosedInv'
      BY <1>12 DEF CtlDestroy, othersFrame, DestroyChanel, StClosed
    <3>2. WriteMessageNeverPanics'
      BY <1>12 DEF CtlDestroy, othersFrame, DestroyChanel, StClosed
    <3> QED
      BY <3>1, <3>2
  <2>4. MessageInv' /\ SentInv' /\ TimerInv'
    BY <1>12 DEF CtlDestroy, othersFrame, DestroyChanel, StClosed
  <2>5. panic' # "closeOfClosed"
    BY <1>12 DEF CtlDestroy, othersFrame, DestroyChanel, StClosed
  <2> QED
    BY <2>1, <2>2, <2>3, <2>4, <2>5
<1>13. CASE CtlDelete
  BY <1>13 DEF CtlDelete, othersFrame
<1>14. CASE CtlRecordNonInvite
  BY <1>14 DEF CtlRecordNonInvite, othersFrame, NonInviteNext, IsProvisional,
               StTrying, StCompleted, StProceeding
<1> QED
  BY <1>1, <1>2, <1>3, <1>4, <1>5, <1>6, <1>7, <1>8, <1>9, <1>10, <1>11,
     <1>12, <1>13, <1>14 DEF Controller

\* The steps of a goroutine that calls WriteMessage or Handle preserve the
\* invariant.
LEMMA CallerStep ==
  ASSUME IInv, Calls \/ \E p \in Procs : Running(p)
  PROVE  IInv'
<1> USE SetsAssumption, CodesAssumption, TimersAssumption
    DEF IInv, TypeOK, MuInv, UnregisteredInv, ClosedInv, MessageInv, SentInv,
        TimerInv, timers, WriteMessageNeverPanics, Alive, Procs, Free, Msgs, States,
        CtlPlaces, ProcPlaces, Nil, Ack, Retrans, Trying
<1>1. ASSUME NEW w \in Writers, NEW m \in Codes, WriteMessageCall(w, m) PROVE IInv'
  BY <1>1 DEF WriteMessageCall, procFrame
<1>2. ASSUME NEW p \in Packets, NEW m \in {Ack, Retrans},
              LookupServerTransaction(p, m)
       PROVE  IInv'
  BY <1>2 DEF LookupServerTransaction, procFrame
<1>3. ASSUME NEW p \in Procs, WriteMessageLock(p) PROVE IInv'
  BY <1>3 DEF WriteMessageLock, procFrame, MayWrite, StClosed, StTerminated
<1>4. ASSUME NEW p \in Procs, Handle(p) PROVE IInv'
  <2>1. TypeOK'
    BY <1>4 DEF Handle, procFrame, Retransmission, HandleNext
  <2>2. MuInv' /\ UnregisteredInv'
    BY <1>4 DEF Handle, procFrame, Retransmission, HandleNext
  <2>3. ClosedInv' /\ WriteMessageNeverPanics'
    BY <1>4 DEF Handle, procFrame, Retransmission, HandleNext
  <2>4. MessageInv' /\ SentInv' /\ TimerInv'
    BY <1>4 DEF Handle, procFrame, Retransmission, HandleNext
  <2>5. panic' # "closeOfClosed"
    BY <1>4 DEF Handle, procFrame, Retransmission, HandleNext
  <2> QED
    BY <2>1, <2>2, <2>3, <2>4, <2>5
<1>5. ASSUME NEW p \in Procs, SendOnClosed(p) PROVE IInv'
  <2>1. TypeOK'
    BY <1>5 DEF SendOnClosed, procFrame
  <2>2. MuInv' /\ UnregisteredInv'
    BY <1>5 DEF SendOnClosed, procFrame
  <2>3. ClosedInv' /\ WriteMessageNeverPanics'
    BY <1>5 DEF SendOnClosed, procFrame
  <2>4. MessageInv' /\ SentInv' /\ TimerInv'
    BY <1>5 DEF SendOnClosed, procFrame
  <2>5. panic' # "closeOfClosed"
    BY <1>5 DEF SendOnClosed, procFrame
  <2> QED
    BY <2>1, <2>2, <2>3, <2>4, <2>5
<1>6. ASSUME NEW p \in Procs, Return(p) PROVE IInv'
  BY <1>6 DEF Return, procFrame
<1> QED
  BY <1>1, <1>2, <1>3, <1>4, <1>5, <1>6 DEF Calls, Running

\* A stuttering step preserves the invariant.
LEMMA StutterStep == IInv /\ UNCHANGED vars => IInv'
<1> SUFFICES ASSUME IInv, UNCHANGED vars PROVE IInv'
  OBVIOUS
<1> USE DEF vars
<1>1. TypeOK'
  BY DEF IInv, TypeOK
<1>2. MuInv' /\ UnregisteredInv' /\ ClosedInv' /\ WriteMessageNeverPanics'
  BY DEF IInv, MuInv, UnregisteredInv, ClosedInv, WriteMessageNeverPanics
<1>3. MessageInv' /\ SentInv' /\ TimerInv'
  BY DEF IInv, MessageInv, SentInv, TimerInv
<1> QED
  BY <1>1, <1>2, <1>3 DEF IInv

\* The invariant is inductive.
LEMMA Invariance == Spec => []IInv
<1>1. IInv /\ [Next]_vars => IInv'
  BY CreatorStep, ControllerStep, CallerStep, StutterStep DEF Next
<1> QED
  BY InitIInv, <1>1, PTL DEF Spec

\* Type correctness of the model of transaction.go.
THEOREM TypeCorrect == Spec => []TypeOK
<1>1. IInv => TypeOK
  BY DEF IInv
<1> QED
  BY Invariance, <1>1, PTL

\* WriteMessage never sends on a closed channel (transaction.go 66-88), for
\* any number of concurrent writers and packets.
THEOREM WriteMessageSafe == Spec => []WriteMessageNeverPanics
<1>1. IInv => WriteMessageNeverPanics
  BY DEF IInv
<1> QED
  BY Invariance, <1>1, PTL

\* DelChan and TuChan are never closed twice (transaction.go 77-88), although
\* State is overwritten without Mu.
THEOREM CloseSafe == Spec => []ChannelsClosedOnce
<1>1. IInv => ChannelsClosedOnce
  BY DEF IInv, ChannelsClosedOnce
<1> QED
  BY Invariance, <1>1, PTL

\* The final response a client sees never changes and no provisional follows
\* it (transaction.go 582-797), for any number of racing user goroutines.
THEOREM FinalStands == Spec => FinalResponseStands
<1> DEFINE A == /\ sent >= 200 => sent' = sent
                /\ sent # Nil => sent' # Trying
<1>1. IInv /\ [Next]_vars => [A]_sent
  <2> SUFFICES ASSUME IInv, [Next]_vars, sent' # sent PROVE A
    OBVIOUS
  <2> USE CodesAssumption DEF IInv, SentInv, MessageInv, Nil, Trying
  <2>1. CASE CtlSet100
    BY <2>1 DEF CtlSet100
  <2>2. CASE CtlSetProv
    BY <2>2 DEF CtlSetProv
  <2>3. CASE CtlSetFinal
    BY <2>3 DEF CtlSetFinal
  <2>4. ASSUME NEW p \in Procs, CtlReceiveNonInvite(p) PROVE A
    BY <2>4 DEF CtlReceiveNonInvite, IsResponse, Procs, Ack
  <2>5. CASE TimerG
    BY <2>5 DEF TimerG
  <2>6. CASE CtlStart \/ Timer100Try \/ CtlClosed \/ TimerH \/ TimerIJ
             \/ CtlTerminated \/ CtlDestroy \/ CtlDelete \/ CtlRecordNonInvite
    BY <2>6 DEF CtlStart, Timer100Try, CtlClosed, TimerH, TimerIJ,
                CtlTerminated, CtlDestroy, CtlDelete, CtlRecordNonInvite
  <2>7. ASSUME NEW p \in Procs, CtlReceiveInvite(p) PROVE A
    BY <2>7 DEF CtlReceiveInvite
  <2>8. CASE Creator
    BY <2>8 DEF Creator, AddServerTransaction, CreatorDestroy, CreatorDelete,
                creatorFrame
  <2>9. CASE Calls
    BY <2>9 DEF Calls, WriteMessageCall, LookupServerTransaction, procFrame
  <2>10. ASSUME NEW p \in Procs, Running(p) PROVE A
    BY <2>10 DEF Running, WriteMessageLock, Handle, SendOnClosed, Return, procFrame
  <2>11. CASE UNCHANGED vars
    BY <2>11 DEF vars
  <2> QED
    BY <2>1, <2>2, <2>3, <2>4, <2>5, <2>6, <2>7, <2>8, <2>9, <2>10, <2>11
       DEF Next, Controller
<1> QED
  BY Invariance, <1>1, PTL DEF Spec, FinalResponseStands

\* The ACK is awaited for the whole of Timer H, for every T2 and every length
\* of Timer H (transaction.go 582-616).
THEOREM AckAwaited == Spec => AckIsAwaited
<1> DEFINE A == ctl = "completed" /\ ctl' = "term" => waited' = GiveUp
<1>1. IInv /\ [Next]_vars => [A]_vars
  <2> SUFFICES ASSUME IInv, [Next]_vars, ctl = "completed", ctl' = "term"
               PROVE  waited' = GiveUp
    OBVIOUS
  <2>1. CASE Controller
    <3>1. CASE TimerH
      BY <3>1, TimersAssumption DEF TimerH, IInv, TimerInv, TypeOK
    <3>2. ASSUME NEW p \in Procs, CtlReceiveInvite(p) PROVE FALSE
      BY <3>2 DEF CtlReceiveInvite, CompletedNext
    <3>3. ASSUME NEW p \in Procs, CtlReceiveNonInvite(p) PROVE FALSE
      BY <3>3 DEF CtlReceiveNonInvite
    <3>4. CASE CtlClosed \/ TimerG
      BY <3>4 DEF CtlClosed, ClosedNext, TimerG
    <3>5. CASE CtlStart \/ Timer100Try \/ CtlSet100 \/ CtlSetProv \/ CtlSetFinal
               \/ TimerIJ \/ CtlTerminated \/ CtlDestroy \/ CtlDelete
               \/ CtlRecordNonInvite
      BY <3>5 DEF CtlStart, Timer100Try, CtlSet100, CtlSetProv, CtlSetFinal, TimerIJ,
                  CtlTerminated, CtlDestroy, CtlDelete, CtlRecordNonInvite
    <3> QED
      BY <2>1, <3>1, <3>2, <3>3, <3>4, <3>5 DEF Controller
  <2>2. CASE Creator
    BY <2>2 DEF Creator, AddServerTransaction, CreatorDestroy, CreatorDelete,
                creatorFrame
  <2>3. CASE Calls \/ \E p \in Procs : Running(p)
    BY <2>3 DEF Calls, WriteMessageCall, LookupServerTransaction, Running,
                WriteMessageLock, Handle, SendOnClosed, Return, procFrame
  <2> QED
    BY <2>1, <2>2, <2>3 DEF Next, vars
<1> QED
  BY Invariance, <1>1, PTL DEF Spec, AckIsAwaited
================================================================================

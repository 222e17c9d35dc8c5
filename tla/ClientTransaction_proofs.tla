------------------------ MODULE ClientTransaction_proofs -----------------------
(***************************************************************************)
(* Safety of one client transaction for every number of packet goroutines, *)
(* every set of status codes and all lengths of the timers, whether or not *)
(* its user destroys it.                                                   *)
(***************************************************************************)
EXTENDS ClientTransaction, TLAPS

--------------------------------------------------------------------------------
(***************************************************************************)
(* The inductive invariant.                                                *)
(***************************************************************************)

\* Who holds Mu.
MuInv ==
    /\ user \in {"send", "unlock"} <=> Mu = User
    /\ \A p \in Packets : pc[p] \in {"send", "core", "unlock"} <=> Mu = p

\* A packet goroutine that has work to do carries a response.
ArgInv == \A p \in Packets : pc[p] # "idle" => arg[p] \in Codes

\* An INVITE transaction and the others keep to their own places.
PlaceInv ==
    /\ invite  => ctl \notin {"niproceeding", "nicompleted"}
    /\ ~invite => ctl \notin {"calling", "proceeding", "setAck", "completed"}

\* The places of the controller before a final response.
Early == {"start", "wait", "setReq", "calling", "niproceeding", "proceeding"}

\* Before a final response there is none on record; a failure on record is
\* being acknowledged or was.
AckInv ==
    /\ ctl \in Early => FinalRes = Nil
    /\ ctl = "completed" => acks = "sent"
    /\ invite /\ IsFailure(FinalRes) => ctl = "setAck" \/ acks = "sent"

\* What is left of Timer B or F and what has passed add up; a transaction that
\* gave up has left the timers for good and had no final response.
TimerInv ==
    /\ ctl \in {"calling", "niproceeding"} => timerAE >= 1 /\ elapsed + timerBF = GiveUp
    /\ ctl \in Early => ~answered
    /\ Err = "timeout" => /\ elapsed = GiveUp
                          /\ ctl \in {"term", "exit"} \cup DestroySteps
                          /\ ~answered

\* Once resChan is gone no packet goroutine gives a response to anyone, and the
\* first of two callers of Destroy is the only one that gets past closing it.
DestroyInv ==
    /\ resChan = "nil" => \A p \in Packets : pc[p] \notin {"send", "core"}
    /\ ctl \in {"closeChans", "inform", "delete"} => resChan = "nil"
    /\ user \in {"closeChans", "inform", "delete", "end"} => resChan = "nil"
    /\ informed > 0 => resChan = "nil"
    /\ informed <= 1
    /\ panic = "no" =>
          /\ ctl \in {"closeChans", "inform"} \/ user \in {"closeChans", "inform"}
                => informed = 0
          /\ ~ (/\ ctl \in {"closeChans", "inform", "delete"}
                /\ user \in {"closeChans", "inform", "delete", "end"})

\* While the user stays away from Destroy, only the controller closes channels,
\* and it does not come back to a select afterwards.
LeftAloneInv ==
    user \notin DestroySteps \cup {"end"} =>
        /\ panic = "no"
        /\ resChan = "nil" => ctl \in {"closeChans", "inform", "delete", "exit"}
        /\ closed => ctl \in {"inform", "delete", "exit"}

IInv ==
    /\ TypeOK
    /\ MuInv
    /\ ArgInv
    /\ PlaceInv
    /\ AckInv
    /\ TimerInv
    /\ DestroyInv
    /\ LeftAloneInv

--------------------------------------------------------------------------------
(***************************************************************************)
(* It holds initially and every step preserves it.                         *)
(***************************************************************************)

\* A new client transaction (newClientTransaction) satisfies the invariant.
LEMMA InitIInv == Init => IInv
<1> SUFFICES ASSUME Init PROVE IInv
  OBVIOUS
<1> USE ProcsAssumption, CodesAssumption, TimersAssumption
    DEF IInv, TypeOK, MuInv, ArgInv, PlaceInv, Early, AckInv, TimerInv, DestroyInv,
        LeftAloneInv, CtlPlaces, UserPlaces, DestroySteps, Alive, User, Free, Nil,
        timers, IsFailure
<1> USE DEF Init
<1>0. invite \in BOOLEAN /\ closed \in BOOLEAN /\ inTable \in BOOLEAN /\ answered \in BOOLEAN
  BY Zenon
<1>1. TypeOK
  BY <1>0 DEF StInit
<1>2. MuInv /\ ArgInv /\ PlaceInv
  OBVIOUS
<1>3. AckInv /\ TimerInv /\ DestroyInv /\ LeftAloneInv
  OBVIOUS
<1> QED
  BY <1>1, <1>2, <1>3

\* The steps of the user other than Destroy preserve the invariant.
LEMMA UserSteps == IInv /\ (UserStep \/ UserCallsDestroy) => IInv'
<1> SUFFICES ASSUME IInv, UserStep \/ UserCallsDestroy PROVE IInv'
  OBVIOUS
<1> USE ProcsAssumption, CodesAssumption, TimersAssumption
    DEF IInv, TypeOK, MuInv, ArgInv, PlaceInv, Early, AckInv, TimerInv, DestroyInv,
        LeftAloneInv, CtlPlaces, UserPlaces, DestroySteps, Alive, User, Free, Nil,
        timers, IsFailure
<1> USE DEF userFrame
<1>1. CASE AddClientTransaction
  BY <1>1 DEF AddClientTransaction
<1>2. CASE UserLock
  BY <1>2 DEF UserLock
<1>3. CASE UserUnlock
  BY <1>3 DEF UserUnlock
<1>4. CASE UserCallsDestroy
  BY <1>4 DEF UserCallsDestroy
<1> QED
  BY <1>1, <1>2, <1>3, <1>4 DEF UserStep

\* The steps of a packet goroutine preserve the invariant.
LEMMA PacketSteps ==
  ASSUME IInv, NEW p \in Packets,
         (\E m \in Codes : LookupClientTransaction(p, m)) \/ Handle(p) \/ HandleReturn(p)
  PROVE  IInv'
<1> USE ProcsAssumption, CodesAssumption, TimersAssumption
    DEF IInv, TypeOK, MuInv, ArgInv, PlaceInv, Early, AckInv, TimerInv, DestroyInv,
        LeftAloneInv, CtlPlaces, UserPlaces, DestroySteps, Alive, User, Free, Nil,
        timers, IsFailure
<1> USE DEF packetFrame
<1>1. ASSUME NEW m \in Codes, LookupClientTransaction(p, m) PROVE IInv'
  BY <1>1 DEF LookupClientTransaction
<1>2. CASE Handle(p)
  BY <1>2 DEF Handle
<1>3. CASE HandleReturn(p)
  BY <1>3 DEF HandleReturn
<1> QED
  BY <1>1, <1>2, <1>3

\* The steps of the controller outside Destroy preserve the invariant.
LEMMA ControllerSteps == IInv /\ Controller /\ ~CtlDestroy => IInv'
<1> SUFFICES ASSUME IInv, Controller, ~CtlDestroy PROVE IInv'
  OBVIOUS
<1> USE ProcsAssumption, CodesAssumption, TimersAssumption
    DEF IInv, TypeOK, MuInv, ArgInv, PlaceInv, Early, AckInv, TimerInv, DestroyInv,
        LeftAloneInv, CtlPlaces, UserPlaces, DestroySteps, Alive, User, Free, Nil,
        timers, IsFailure
<1> USE DEF ctlFrame
<1>1. CASE CtlStart
  BY <1>1 DEF CtlStart, StCalling, StTrying
<1>2. CASE CtlRequest
  BY <1>2 DEF CtlRequest
<1>3. CASE CtlWaitClosed
  BY <1>3 DEF CtlWaitClosed
<1>4. CASE CtlSetRequest
  BY <1>4 DEF CtlSetRequest, StartTimers, StProceeding
<1>5. CASE TimerAE
  BY <1>5 DEF TimerAE, Doubled, timerFrame
<1>6. CASE TimerBF
  BY <1>6 DEF TimerBF, timerFrame
<1>7. CASE TimerDK
  BY <1>7 DEF TimerDK
<1>8. ASSUME NEW p \in Packets, CtlResponse(p) PROVE IInv'
  <2> USE <1>8 DEF CtlResponse
  <2>0. arg[p] \in Codes /\ Mu = p /\ answered' \in BOOLEAN
    <3>1. answered' = (answered \/ IsFinal(arg[p]))
      OBVIOUS
    <3>2. answered' \in BOOLEAN
      BY <3>1, Zenon
    <3> QED
      BY <3>2
  <2>1. CASE ctl \in {"completed", "nicompleted"}
    BY <2>0, <2>1
  <2>2. CASE ctl \notin {"completed", "nicompleted"}
    <3>1. \/ /\ Is1xx(arg[p]) /\ ~IsFinal(arg[p])
             /\ ctl' = IF ctl = "niproceeding" THEN "niproceeding" ELSE "proceeding"
          \/ /\ ~Is1xx(arg[p]) /\ IsFinal(arg[p])
             /\ ctl' = IF ctl = "niproceeding" THEN "nicompleted"
                       ELSE IF IsFailure(arg[p]) THEN "setAck" ELSE "term"
      BY <2>0, <2>2 DEF Is1xx, Is2xx, IsFinal, InviteNext, NonInviteNext
    <3>2. Err' \in {"non2xx", Err}
      BY <2>2 DEF ErrOf
    <3>3. TypeOK'
      BY <2>0, <2>2, <3>1, <3>2 DEF StartTimers, StopTimers, StProceeding, StCompleted
    <3>4. MuInv' /\ ArgInv' /\ PlaceInv' /\ LeftAloneInv'
      BY <2>0, <2>2, <3>1
    <3>5. AckInv'
      BY <2>0, <2>2, <3>1
    <3>6. TimerInv'
      BY <2>0, <2>2, <3>1, <3>2 DEF StartTimers
    <3>7. DestroyInv'
      BY <2>0, <2>2, <3>1
    <3> QED
      BY <3>3, <3>4, <3>5, <3>6, <3>7
  <2> QED
    BY <2>1, <2>2
<1>9. CASE CtlSetAck
  BY <1>9 DEF CtlSetAck, StCompleted
<1>10. CASE CtlNilResponse
  BY <1>10 DEF CtlNilResponse, DestroyStart
<1>11. CASE CtlDelChan
  BY <1>11 DEF CtlDelChan
<1>12. CASE CtlTerminated
  BY <1>12 DEF CtlTerminated, DestroyStart, StTerminated
<1> QED
  BY <1>1, <1>2, <1>3, <1>4, <1>5, <1>6, <1>7, <1>8, <1>9, <1>10, <1>11, <1>12
     DEF Controller

\* The steps of Destroy, whoever runs it, preserve the invariant: the second
\* caller to close resChan ends the program.
LEMMA DestroyAll == IInv /\ (CtlDestroy \/ UserDestroy) => IInv'
<1> SUFFICES ASSUME IInv, CtlDestroy \/ UserDestroy PROVE IInv'
  OBVIOUS
<1> USE ProcsAssumption, CodesAssumption, TimersAssumption
    DEF IInv, TypeOK, MuInv, ArgInv, PlaceInv, Early, AckInv, TimerInv, DestroyInv,
        LeftAloneInv, CtlPlaces, UserPlaces, DestroySteps, Alive, User, Free, Nil,
        timers, IsFailure, destroyFrame
<1>1. ASSUME CtlDestroy PROVE IInv'
  <2> USE <1>1 DEF CtlDestroy, ControllerReturns, DestroyStep
  <2>1. CASE ctl = "closeRes"
    BY <2>1 DEF CloseRes
  <2>2. CASE ctl = "closeChans"
    <3>1. DestroyChanel /\ ctl' = "inform"
      BY <2>2
    <3>2. closed' \in {closed, TRUE}
      BY <3>1, Zenon DEF DestroyChanel
    <3>3. closed' \in BOOLEAN
      BY <3>2, Zenon
    <3>4. TypeOK'
      BY <3>1, <3>3 DEF DestroyChanel, StClosed
    <3>5. MuInv' /\ ArgInv' /\ PlaceInv' /\ AckInv' /\ TimerInv'
      BY <2>2, <3>1 DEF DestroyChanel
    <3>6. DestroyInv' /\ LeftAloneInv'
      BY <2>2, <3>1 DEF DestroyChanel
    <3> QED
      BY <3>4, <3>5, <3>6
  <2>3. CASE ctl = "inform"
    BY <2>3 DEF Inform
  <2>4. CASE ctl = "delete"
    <3>1. DeleteClientTransaction /\ ctl' = "exit"
      BY <2>4
    <3>2. inTable' \in BOOLEAN
      BY <3>1, Zenon DEF DeleteClientTransaction
    <3>3. TypeOK'
      BY <3>1, <3>2 DEF DeleteClientTransaction
    <3>4. MuInv' /\ ArgInv' /\ PlaceInv' /\ AckInv' /\ TimerInv'
      BY <2>4, <3>1 DEF DeleteClientTransaction
    <3>5. DestroyInv' /\ LeftAloneInv'
      BY <2>4, <3>1 DEF DeleteClientTransaction
    <3> QED
      BY <3>3, <3>4, <3>5
  <2> QED
    BY <2>1, <2>2, <2>3, <2>4
<1>2. ASSUME UserDestroy PROVE IInv'
  <2> USE <1>2 DEF UserDestroy, DestroyStep
  <2>1. CASE user = "closeRes"
    BY <2>1 DEF CloseRes
  <2>2. CASE user = "closeChans"
    <3>1. DestroyChanel /\ user' = "inform"
      BY <2>2
    <3>2. closed' \in {closed, TRUE}
      BY <3>1, Zenon DEF DestroyChanel
    <3>3. closed' \in BOOLEAN
      BY <3>2, Zenon
    <3>4. TypeOK'
      BY <3>1, <3>3 DEF DestroyChanel, StClosed
    <3>5. MuInv' /\ ArgInv' /\ PlaceInv' /\ AckInv' /\ TimerInv'
      BY <2>2, <3>1 DEF DestroyChanel
    <3>6. DestroyInv' /\ LeftAloneInv'
      BY <2>2, <3>1 DEF DestroyChanel
    <3> QED
      BY <3>4, <3>5, <3>6
  <2>3. CASE user = "inform"
    BY <2>3 DEF Inform
  <2>4. CASE user = "delete"
    <3>1. DeleteClientTransaction /\ user' = "end"
      BY <2>4
    <3>2. inTable' \in BOOLEAN
      BY <3>1, Zenon DEF DeleteClientTransaction
    <3>3. TypeOK'
      BY <3>1, <3>2 DEF DeleteClientTransaction
    <3>4. MuInv' /\ ArgInv' /\ PlaceInv' /\ AckInv' /\ TimerInv'
      BY <2>4, <3>1 DEF DeleteClientTransaction
    <3>5. DestroyInv' /\ LeftAloneInv'
      BY <2>4, <3>1 DEF DeleteClientTransaction
    <3> QED
      BY <3>3, <3>4, <3>5
  <2> QED
    BY <2>1, <2>2, <2>3, <2>4
<1> QED
  BY <1>1, <1>2

\* A stuttering step preserves the invariant.
LEMMA StutterStep == IInv /\ UNCHANGED vars => IInv'
<1> SUFFICES ASSUME IInv, UNCHANGED vars PROVE IInv'
  OBVIOUS
<1> USE DEF vars, timers
<1>1. TypeOK' /\ MuInv' /\ ArgInv' /\ PlaceInv'
  BY DEF IInv, TypeOK, MuInv, ArgInv, PlaceInv
<1>2. AckInv' /\ TimerInv' /\ DestroyInv' /\ LeftAloneInv'
  BY DEF IInv, AckInv, TimerInv, DestroyInv, LeftAloneInv
<1> QED
  BY <1>1, <1>2 DEF IInv

\* The invariant is inductive.
LEMMA Invariance == Spec => []IInv
<1>1. IInv /\ [Next]_vars => IInv'
  <2> SUFFICES ASSUME IInv, [Next]_vars PROVE IInv'
    OBVIOUS
  <2>1. CASE Controller
    BY <2>1, ControllerSteps, DestroyAll
  <2>2. CASE UserStep \/ UserCallsDestroy \/ UserDestroy
    BY <2>2, UserSteps, DestroyAll
  <2>3. ASSUME NEW p \in Packets,
               (\E m \in Codes : LookupClientTransaction(p, m))
                  \/ Handle(p) \/ HandleReturn(p)
        PROVE  IInv'
    BY <2>3, PacketSteps
  <2> QED
    BY <2>1, <2>2, <2>3, StutterStep DEF Next
<1> QED
  BY InitIInv, <1>1, PTL DEF Spec

--------------------------------------------------------------------------------
(***************************************************************************)
(* What it gives.                                                          *)
(***************************************************************************)

\* Type correctness of the model; in particular no timer of transaction.go
\* 199-216 and 314-330 is ever started for a negative time.
THEOREM TypeCorrect == Spec => []TypeOK
<1>1. IInv => TypeOK
  BY DEF IInv
<1> QED
  BY Invariance, <1>1, PTL

\* ErrorInformFunc is called once, even if the user and the controller run
\* Destroy at the same time, and never beside a response of the same
\* transaction in the core (transaction.go 109-130), for any number of packets.
THEOREM ErrorsExclusive == Spec => []ErrorExcludesResponses
<1>1. IInv => ErrorExcludesResponses
  BY DEF IInv, TypeOK, DestroyInv, ErrorExcludesResponses
<1> QED
  BY Invariance, <1>1, PTL

\* A timeout is reported only if no final response reached the core
\* (transaction.go 217-221, 331-335), for any number of responses.
THEOREM TimeoutsExclusive == Spec => []TimeoutExcludesFinal
<1>1. IInv => TimeoutExcludesFinal
  BY DEF IInv, TimerInv, TimeoutExcludesFinal
<1> QED
  BY Invariance, <1>1, PTL

\* A failure is acknowledged before the transaction completes or ends
\* (transaction.go 166-194, 274-287, 352-366).
THEOREM FailuresAcked == Spec => []FailureIsAcked
<1>1. IInv => FailureIsAcked
  BY DEF IInv, AckInv, FailureIsAcked
<1> QED
  BY Invariance, <1>1, PTL

\* Left alone by its user, a transaction closes no channel twice and reads no
\* nil message (transaction.go 77-119, 256-260, 300-301).
THEOREM LeftAloneSafe == Spec => []NoPanic
<1>1. IInv => NoPanic
  BY DEF IInv, LeftAloneInv, NoPanic
<1> QED
  BY Invariance, <1>1, PTL

\* The transaction gives up after exactly the length of Timer B or F, for every
\* length and every T2: the retransmissions in between do not move that moment
\* (transaction.go 199-221, 314-335).
THEOREM GivesUpOnTime == Spec => []GivesUpInTime
<1>1. IInv => GivesUpInTime
  BY DEF IInv, TimerInv, GivesUpInTime
<1> QED
  BY Invariance, <1>1, PTL

================================================================================

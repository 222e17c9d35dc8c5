--------------------------- MODULE ClientTransaction ---------------------------
(***************************************************************************)
(* One client transaction of src/sip/transaction.go: the goroutine of its  *)
(* Controller, the transaction user that registers it, writes the request  *)
(* and may destroy it, and the packet goroutines that look it up and run   *)
(* Handle, which hands a response to the controller over the unbuffered    *)
(* resChan and then to the core, all under Mu.                             *)
(*                                                                         *)
(* The steps are cut at every Lock, Unlock, send and receive, and at the   *)
(* unlocked writes that others read.  The timers that retransmit (A, E)    *)
(* and give up (B, F) run in units of T1: every turn of the select starts  *)
(* both anew, and the shorter fires, as the controller is scheduled within *)
(* less than T1.  Timers D and K fire at arbitrary moments.                *)
(***************************************************************************)
EXTENDS Integers, FiniteSets

CONSTANTS
    Packets,       \* goroutines of packetProcessing, one response each
    Codes,         \* status codes of the responses
    T2,            \* the longest interval of Timer E, in units of T1
    GiveUp,        \* TimerB and TimerF, in units of T1
    UserDestroys   \* may the user call Destroy?

User == "user"
Free == "free"

ASSUME ProcsAssumption == User \notin Packets /\ Free \notin Packets
ASSUME CodesAssumption == Codes \subseteq 100..699
ASSUME TimersAssumption == T2 \in Nat \ {0} /\ GiveUp \in Nat \ {0}
ASSUME UserAssumption == UserDestroys \in BOOLEAN

Nil == 0
Is1xx(m)     == m >= 100 /\ m < 200
Is2xx(m)     == m >= 200 /\ m < 300
IsFailure(m) == m >= 300 /\ m < 700
IsFinal(m)   == m >= 200

StInit       == 0
StTrying     == 1
StCalling    == 2
StProceeding == 3
StCompleted  == 4
StTerminated == 6
StClosed     == 7

VARIABLES
    invite, State, Mu,
    resChan,   \* t.resChan: "open", or "nil" once Destroy closed and cleared it
    closed,    \* DelChan and TuChan are closed
    Err, ProvisionalRes, FinalRes,
    ctl,       \* where the Controller is
    user,      \* where the transaction user is
    timerAE,   \* locals timerA / timerE: next retransmission; 0 out of scope
    timerBF,   \* locals timerB / timerF: time left; 0 out of scope
    elapsed,   \* history: time since the request or the last 1xx after it
    acks,      \* is an ACK owed, sent, or neither
    inTable,   \* the client transaction table has the key
    pc, arg,   \* where each packet goroutine is, and its response
    answered,  \* the core was given a final response
    informed,  \* calls of ErrorInformFunc
    panic

vars == <<invite, State, Mu, resChan, closed, Err, ProvisionalRes, FinalRes, ctl,
          user, timerAE, timerBF, elapsed, acks, inTable, pc, arg, answered,
          informed, panic>>

timers == <<timerAE, timerBF, elapsed>>

\* The steps of Destroy: close resChan, DestroyChanel, ErrorInformFunc, delete.
DestroySteps == {"closeRes", "closeChans", "inform", "delete"}

CtlPlaces == {"start", "wait", "setReq", "calling", "proceeding", "setAck",
              "completed", "niproceeding", "nicompleted", "term", "exit"}
             \cup DestroySteps

UserPlaces == {"add", "wlock", "send", "unlock", "waiting", "end"} \cup DestroySteps

\* The types of the fields of the transaction and of the places of its
\* goroutines; no timer ever runs for a negative time (transaction.go 51-60,
\* 98-107, 199-216, 314-330).
TypeOK ==
    /\ invite \in BOOLEAN
    /\ State \in 0..7
    /\ Mu \in Packets \cup {User, Free}
    /\ resChan \in {"open", "nil"}
    /\ closed \in BOOLEAN
    /\ Err \in {"nil", "timeout", "non2xx", "unexpected", "closed"}
    /\ ProvisionalRes \in Codes \cup {Nil}
    /\ FinalRes \in Codes \cup {Nil}
    /\ ctl \in CtlPlaces
    /\ user \in UserPlaces
    /\ timerAE \in 0..(2 * GiveUp)
    /\ timerBF \in 0..GiveUp
    /\ elapsed \in 0..GiveUp
    /\ acks \in {"none", "owed", "sent"}
    /\ inTable \in BOOLEAN
    /\ pc \in [Packets -> {"idle", "hlock", "send", "core", "unlock"}]
    /\ arg \in [Packets -> Codes \cup {Nil}]
    /\ answered \in BOOLEAN
    /\ informed \in 0..2
    /\ panic \in {"no", "closeOfNil", "closeOfClosed", "nilMessage"}

--------------------------------------------------------------------------------
Init ==
    /\ invite \in BOOLEAN
    /\ State = StInit
    /\ Mu = Free
    /\ resChan = "open"
    /\ closed = FALSE
    /\ Err = "nil"
    /\ ProvisionalRes = Nil
    /\ FinalRes = Nil
    /\ ctl = "start"
    /\ user = "add"
    /\ timerAE = 0
    /\ timerBF = 0
    /\ elapsed = 0
    /\ acks = "none"
    /\ inTable = FALSE
    /\ pc = [p \in Packets |-> "idle"]
    /\ arg = [p \in Packets |-> Nil]
    /\ answered = FALSE
    /\ informed = 0
    /\ panic = "no"

\* A panic in any goroutine ends the whole program.
Alive == panic = "no"

--------------------------------------------------------------------------------
(***************************************************************************)
(* Decisions of the controllers.                                           *)
(***************************************************************************)

\* A bug that forgets the ACK.
InviteNextNoAck(m) ==
    CASE Is1xx(m)     -> "proceeding"
      [] Is2xx(m)     -> "term"
      [] IsFailure(m) -> "completed"

\* inviteController in Calling, and inviteControllerProceeding.
InviteNext(m) ==
    CASE Is1xx(m)     -> "proceeding"
      [] Is2xx(m)     -> "term"
      [] IsFailure(m) -> "setAck"

\* A bug that keeps waiting, and retransmitting, after a final response.
NonInviteStays(m) == "niproceeding"

\* nonInviteControllerProceeding.
NonInviteNext(m) == IF Is1xx(m) THEN "niproceeding" ELSE "nicompleted"

\* The error a final response leaves in t.Err; inviteControllerProceeding
\* sets none.
ErrOf(m, here) ==
    IF IsFailure(m) /\ here \in {"calling", "niproceeding"} THEN "non2xx" ELSE Err

\* A bug that informs the user before the transaction is shut.
DestroyInformsFirst == "inform"

\* The first step of Destroy.
DestroyStart == "closeRes"

\* A bug that forgets to return after Destroy.
ControllerLoopsOn == "proceeding"

\* The controller returns after Destroy.
ControllerReturns == "exit"

\* The intervals of Timer A double; those of Timer E do so up to T2.
Doubled(t) == IF ctl = "niproceeding" /\ 2 * t > T2 THEN T2 ELSE 2 * t

\* inviteController and nonInviteControllerProceeding are entered.
StartTimers ==
    /\ timerAE' = 1
    /\ timerBF' = GiveUp
    /\ elapsed' = 0

\* ... and left.
StopTimers ==
    /\ timerAE' = 0
    /\ timerBF' = 0
    /\ elapsed' = 0

--------------------------------------------------------------------------------
(***************************************************************************)
(* Destroy, run by the controller or by the user.                          *)
(***************************************************************************)
destroyFrame == <<invite, Mu, ProvisionalRes, FinalRes, timers, acks, pc, arg, answered>>

\* close(t.resChan) of a nil channel panics.
CloseRes ==
    /\ Mu = Free
    /\ resChan' = "nil"
    /\ panic' = IF resChan = "nil" THEN "closeOfNil" ELSE panic
    /\ UNCHANGED <<State, closed, informed, inTable>>

DestroyChanel ==
    /\ Mu = Free
    /\ IF State = StClosed
       THEN UNCHANGED <<State, closed, panic>>
       ELSE /\ State' = StClosed
            /\ closed' = TRUE
            /\ panic' = IF closed THEN "closeOfClosed" ELSE panic
    /\ UNCHANGED <<resChan, informed, inTable>>

\* ErrorInformFunc, if the transaction ended with an error.
Inform ==
    /\ informed' = IF Err # "nil" THEN informed + 1 ELSE informed
    /\ UNCHANGED <<State, resChan, closed, inTable, panic>>

DeleteClientTransaction ==
    /\ inTable' = FALSE
    /\ UNCHANGED <<State, resChan, closed, informed, panic>>

\* at -> goto is one step of Destroy; last is where the caller goes on.
DestroyStep(at, goto, last) ==
    \/ at = "closeRes"   /\ CloseRes /\ goto = "closeChans"
    \/ at = "closeChans" /\ DestroyChanel /\ goto = "inform"
    \/ at = "inform"     /\ Inform /\ goto = "delete"
    \/ at = "delete"     /\ DeleteClientTransaction /\ goto = last

CtlDestroy ==
    /\ Alive
    /\ DestroyStep(ctl, ctl', ControllerReturns)
    /\ UNCHANGED <<Err, user>>
    /\ UNCHANGED destroyFrame

UserDestroy ==
    /\ Alive
    /\ DestroyStep(user, user', "end")
    /\ UNCHANGED <<Err, ctl>>
    /\ UNCHANGED destroyFrame

--------------------------------------------------------------------------------
(***************************************************************************)
(* The transaction user: New..., AddClientTransaction, WriteMessage of the *)
(* request, and perhaps Destroy.                                           *)
(***************************************************************************)
userFrame == <<invite, State, resChan, closed, Err, ProvisionalRes, FinalRes, ctl,
               timers, acks, pc, arg, answered, informed, panic>>

AddClientTransaction ==
    /\ Alive
    /\ user = "add"
    /\ user' = "wlock"
    /\ inTable' = TRUE
    /\ UNCHANGED Mu
    /\ UNCHANGED userFrame

UserLock ==
    /\ Alive
    /\ user = "wlock"
    /\ Mu = Free
    /\ Mu' = User
    /\ user' = IF State >= StTerminated THEN "unlock" ELSE "send"
    /\ UNCHANGED inTable
    /\ UNCHANGED userFrame

UserUnlock ==
    /\ Alive
    /\ user = "unlock"
    /\ Mu' = Free
    /\ user' = "waiting"
    /\ UNCHANGED inTable
    /\ UNCHANGED userFrame

UserCallsDestroy ==
    /\ Alive
    /\ UserDestroys
    /\ user \in {"wlock", "waiting"}
    /\ user' = "closeRes"
    /\ UNCHANGED <<Mu, inTable>>
    /\ UNCHANGED userFrame

--------------------------------------------------------------------------------
(***************************************************************************)
(* The Controller goroutine.                                               *)
(***************************************************************************)
ctlFrame == <<invite, Mu, resChan, closed, user, inTable, pc, arg, answered,
              informed, panic>>

CtlStart ==
    /\ Alive
    /\ ctl = "start"
    /\ State' = IF invite THEN StCalling ELSE StTrying
    /\ ctl' = "wait"
    /\ UNCHANGED <<Err, ProvisionalRes, FinalRes, timers, acks>>
    /\ UNCHANGED ctlFrame

\* The rendezvous on TuChan with the user's WriteMessage.
CtlRequest ==
    /\ Alive
    /\ ctl = "wait"
    /\ user = "send"
    /\ ~closed
    /\ user' = "unlock"
    /\ ctl' = "setReq"
    /\ UNCHANGED <<invite, State, Mu, resChan, closed, Err, ProvisionalRes, FinalRes,
                   timers, acks, inTable, pc, arg, answered, informed, panic>>

\* Both channels of the first select are closed: DelChan returns, but the nil
\* message of TuChan is dereferenced.
CtlWaitClosed ==
    /\ Alive
    /\ ctl = "wait"
    /\ closed
    /\ \/ ctl' = "exit" /\ UNCHANGED panic
       \/ panic' = "nilMessage" /\ UNCHANGED ctl
    /\ UNCHANGED <<State, Err, ProvisionalRes, FinalRes, timers, acks, invite, Mu,
                   resChan, closed, user, inTable, pc, arg, answered, informed>>

\* t.Request is set under Mu and the request goes out.
CtlSetRequest ==
    /\ Alive
    /\ ctl = "setReq"
    /\ Mu = Free
    /\ ctl' = IF invite THEN "calling" ELSE "niproceeding"
    /\ State' = IF invite THEN State ELSE StProceeding
    /\ StartTimers
    /\ UNCHANGED <<Err, ProvisionalRes, FinalRes, acks>>
    /\ UNCHANGED ctlFrame

timerFrame == <<ProvisionalRes, FinalRes, acks>>

\* A bug: Timer B and Timer F start in full after each retransmission.
TimerAERestarts ==
    /\ Alive
    /\ ctl \in {"calling", "niproceeding"}
    /\ timerAE <= timerBF
    /\ timerAE' = Doubled(timerAE)
    /\ elapsed' = elapsed + timerAE
    /\ UNCHANGED <<State, Err, ctl, timerBF>>
    /\ UNCHANGED timerFrame
    /\ UNCHANGED ctlFrame

\* Timer A and Timer E retransmit the request.
TimerAE ==
    /\ Alive
    /\ ctl \in {"calling", "niproceeding"}
    /\ timerAE <= timerBF
    /\ timerAE' = Doubled(timerAE)
    /\ timerBF' = timerBF - timerAE
    /\ elapsed' = elapsed + timerAE
    /\ UNCHANGED <<State, Err, ctl>>
    /\ UNCHANGED timerFrame
    /\ UNCHANGED ctlFrame

\* A bug: only Timer B gives up.
TimerBOnly ==
    /\ Alive
    /\ ctl = "calling"
    /\ timerBF <= timerAE
    /\ Err' = "timeout"
    /\ ctl' = "term"
    /\ elapsed' = elapsed + timerBF
    /\ timerAE' = 0 /\ timerBF' = 0
    /\ UNCHANGED State
    /\ UNCHANGED timerFrame
    /\ UNCHANGED ctlFrame

\* Timer B and Timer F give up.
TimerBF ==
    /\ Alive
    /\ ctl \in {"calling", "niproceeding"}
    /\ timerBF <= timerAE
    /\ Err' = "timeout"
    /\ ctl' = "term"
    /\ elapsed' = elapsed + timerBF
    /\ timerAE' = 0 /\ timerBF' = 0
    /\ UNCHANGED State
    /\ UNCHANGED timerFrame
    /\ UNCHANGED ctlFrame

\* Timer D and Timer K end Completed.
TimerDK ==
    /\ Alive
    /\ ctl \in {"completed", "nicompleted"}
    /\ ctl' = "term"
    /\ UNCHANGED <<State, Err, ProvisionalRes, FinalRes, timers, acks>>
    /\ UNCHANGED ctlFrame

\* The rendezvous on resChan with the Handle of packet goroutine p.
CtlResponse(p) ==
    /\ Alive
    /\ ctl \in {"calling", "proceeding", "niproceeding", "completed", "nicompleted"}
    /\ pc[p] = "send"
    /\ resChan = "open"
    /\ pc' = [pc EXCEPT ![p] = "core"]
    /\ answered' = (answered \/ IsFinal(arg[p]))
    /\ IF ctl \in {"completed", "nicompleted"}
       THEN /\ acks' = IF ctl = "completed" /\ IsFailure(arg[p]) THEN "sent" ELSE acks
            /\ UNCHANGED <<ctl, State, Err, ProvisionalRes, FinalRes, timers>>
       ELSE /\ ctl' = IF ctl = "niproceeding" THEN NonInviteNext(arg[p]) ELSE InviteNext(arg[p])
            /\ State' = CASE ctl' = "proceeding"  -> StProceeding
                          [] ctl' = "nicompleted" -> StCompleted
                          [] OTHER                -> State
            /\ ProvisionalRes' = IF Is1xx(arg[p]) THEN arg[p] ELSE ProvisionalRes
            /\ FinalRes' = IF IsFinal(arg[p]) THEN arg[p] ELSE FinalRes
            /\ Err' = ErrOf(arg[p], ctl)
            /\ IF ctl' = "niproceeding" THEN StartTimers ELSE StopTimers
            /\ acks' = IF ctl' = "setAck" THEN "owed" ELSE acks
    /\ UNCHANGED <<invite, Mu, resChan, closed, user, inTable, arg, informed, panic>>

\* The ACK is recorded under Mu, then Completed sends it.
CtlSetAck ==
    /\ Alive
    /\ ctl = "setAck"
    /\ Mu = Free
    /\ ctl' = "completed"
    /\ State' = StCompleted
    /\ acks' = "sent"
    /\ UNCHANGED <<Err, ProvisionalRes, FinalRes, timers>>
    /\ UNCHANGED ctlFrame

\* resChan was closed under a waiting controller: nil.
CtlNilResponse ==
    /\ Alive
    /\ resChan = "nil"
    /\ \/ /\ ctl \in {"calling", "niproceeding", "completed", "nicompleted"}
          /\ ctl' = "exit"
          /\ UNCHANGED Err
       \/ /\ ctl = "proceeding"
          /\ ctl' = DestroyStart
          /\ Err' = "unexpected"
    /\ UNCHANGED <<State, ProvisionalRes, FinalRes, timers, acks>>
    /\ UNCHANGED ctlFrame

\* DelChan was closed under a waiting controller.
CtlDelChan ==
    /\ Alive
    /\ closed
    /\ ctl \in {"calling", "proceeding", "niproceeding", "completed", "nicompleted"}
    /\ Err' = IF ctl = "calling" THEN "closed" ELSE Err
    /\ ctl' = "exit"
    /\ UNCHANGED <<State, ProvisionalRes, FinalRes, timers, acks>>
    /\ UNCHANGED ctlFrame

\* controllerTerminated writes State without Mu, then calls Destroy.
CtlTerminated ==
    /\ Alive
    /\ ctl = "term"
    /\ State' = StTerminated
    /\ ctl' = DestroyStart
    /\ UNCHANGED <<Err, ProvisionalRes, FinalRes, timers, acks>>
    /\ UNCHANGED ctlFrame

--------------------------------------------------------------------------------
(***************************************************************************)
(* The packet goroutines.                                                  *)
(***************************************************************************)
packetFrame == <<invite, State, resChan, closed, Err, ProvisionalRes, FinalRes, ctl,
                 user, timers, acks, inTable, answered, informed, panic>>

LookupClientTransaction(p, m) ==
    /\ Alive
    /\ pc[p] = "idle"
    /\ inTable
    /\ pc' = [pc EXCEPT ![p] = "hlock"]
    /\ arg' = [arg EXCEPT ![p] = m]
    /\ UNCHANGED Mu
    /\ UNCHANGED packetFrame

Handle(p) ==
    /\ Alive
    /\ pc[p] = "hlock"
    /\ Mu = Free
    /\ Mu' = p
    /\ pc' = [pc EXCEPT ![p] = IF resChan = "nil" THEN "unlock" ELSE "send"]
    /\ UNCHANGED arg
    /\ UNCHANGED packetFrame

\* HandleInTransaction returns, or there was nothing to do; deferred Unlock.
HandleReturn(p) ==
    /\ Alive
    /\ pc[p] \in {"core", "unlock"}
    /\ Mu' = Free
    /\ pc' = [pc EXCEPT ![p] = "idle"]
    /\ UNCHANGED arg
    /\ UNCHANGED packetFrame

--------------------------------------------------------------------------------
Controller ==
    \/ CtlStart \/ CtlRequest \/ CtlWaitClosed \/ CtlSetRequest
    \/ TimerAE \/ TimerBF \/ TimerDK
    \/ \E p \in Packets : CtlResponse(p)
    \/ CtlSetAck \/ CtlNilResponse \/ CtlDelChan \/ CtlTerminated \/ CtlDestroy

UserStep == AddClientTransaction \/ UserLock \/ UserUnlock

Next ==
    \/ Controller
    \/ UserStep \/ UserCallsDestroy \/ UserDestroy
    \/ \E p \in Packets, m \in Codes : LookupClientTransaction(p, m)
    \/ \E p \in Packets : Handle(p) \/ HandleReturn(p)

Spec == Init /\ [][Next]_vars

(***************************************************************************)
(* Fairness: the controller runs while it can, and what it waits for in a  *)
(* select is a timer if nothing else; packet goroutines run, and the core  *)
(* returns from the handling of a response.  No response is ever owed.     *)
(***************************************************************************)
Fairness ==
    /\ WF_vars(Controller)
    /\ WF_vars(UserStep \/ UserDestroy)
    /\ \A p \in Packets : WF_vars(Handle(p) \/ HandleReturn(p))

FairSpec == Spec /\ Fairness

--------------------------------------------------------------------------------
(***************************************************************************)
(* Properties.                                                             *)
(***************************************************************************)

\* The user is told of an error once, even if user and controller destroy the
\* transaction at the same time (ErrorInformFunc, transaction.go 109-119), and
\* from then on no goroutine is still giving it a response of the same
\* transaction: the two never race in the core (transaction.go 121-130).
ErrorExcludesResponses ==
    informed > 0 => informed = 1 /\ \A p \in Packets : pc[p] # "core"

\* A timeout is reported only if no final response reached the core
\* (transaction.go 217-221, 331-335, 121-130): the user does not answer 408
\* and forward a final response of the same transaction.
TimeoutExcludesFinal ==
    informed > 0 /\ Err = "timeout" => ~answered

\* Unless the user calls Destroy itself, no channel is closed twice and no nil
\* message is read (transaction.go 77-119, 256-260, 300-301).
NoPanic == user \notin DestroySteps \cup {"end"} => panic = "no"

\* "If no response from ct, ct will close after timer F" (proxy_core.go 182,
\* proxy_request_controller.go 272), and Timer B for INVITE: without a
\* response, and left to itself by the user, the transaction closes, leaves
\* the table, and the user hears of it exactly once.
NoResponseCloses ==
    []((\A p \in Packets : pc[p] = "idle") /\ user \notin DestroySteps)
        => <>(closed /\ ~inTable /\ informed = 1)

\* The transaction gives up exactly 64 * T1 after the request, or after the
\* last provisional response to a non-INVITE request, however often it
\* retransmitted: the remaining time that each turn of the select carries over
\* adds up (transaction.go 199-221, 314-335).
GivesUpInTime == Err = "timeout" => elapsed = GiveUp

\* A failure is never left unacknowledged: once Completed, the ACK is out
\* (transaction.go 166-194, 274-287, 352-366).
FailureIsAcked ==
    invite /\ IsFailure(FinalRes) /\ ctl \in {"completed", "exit"} => acks = "sent"

\* A transaction that timed out tells its user, who will "Send Error to UAC"
\* (proxy_core.go 185-187, transaction.go 109-119).
TimeoutIsReported == (Err = "timeout") ~> (informed > 0)

================================================================================

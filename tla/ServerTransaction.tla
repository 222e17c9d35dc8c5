--------------------------- MODULE ServerTransaction ---------------------------
(***************************************************************************)
(* One server transaction of src/sip/transaction.go: the goroutine that    *)
(* runs its Controller, the goroutine that created and registered it       *)
(* (requestHandler), the packet goroutines that look it up and run Handle, *)
(* and the transaction-user goroutines that run WriteMessage.              *)
(*                                                                         *)
(* They meet on the mutex Mu, which is not reentrant, and on the           *)
(* unbuffered channel TuChan: a sender is parked until the controller      *)
(* receives.  WriteMessage and Handle send while they hold Mu.             *)
(*                                                                         *)
(* The steps of a goroutine are cut where another goroutine can interfere: *)
(* at every Lock, Unlock, send and receive, and at the unlocked writes of  *)
(* State that a holder of Mu reads.  Timers G and H run in units of T1;    *)
(* the other timers fire at an arbitrary moment.                           *)
(***************************************************************************)
EXTENDS Integers, FiniteSets

CONSTANTS
    Packets,   \* goroutines of packetProcessing (one datagram each)
    Writers,   \* goroutines of the transaction user
    Codes,     \* status codes the transaction user may send
    T2,        \* the longest interval of Timer G, in units of T1
    GiveUp     \* TimerH, in units of T1

Procs == Packets \cup Writers
Free  == "free"                     \* Mu has no owner

ASSUME SetsAssumption == /\ Packets \cap Writers = {}
                         /\ Free \notin Procs
ASSUME CodesAssumption == Codes \subseteq 101..699
ASSUME TimersAssumption == T2 \in Nat \ {0} /\ GiveUp \in Nat \ {0}

(***************************************************************************)
(* Messages.  A response is its status code; Nil is no message at all.     *)
(***************************************************************************)
Nil     == 0
Ack     == 1                        \* an ACK request
Retrans == 2                        \* the request of the transaction, again
Trying  == 100

Msgs == Codes \cup {Nil, Ack, Retrans, Trying}

IsResponse(m)    == m >= 100
IsProvisional(m) == m > 100 /\ m < 200
Is2xx(m)         == m >= 200 /\ m < 300

\* transactionState, in the order the code compares them
StInit       == 0
StTrying     == 1
StProceeding == 3
StCompleted  == 4
StConfirmed  == 5
StTerminated == 6
StClosed     == 7

States == 0..7

VARIABLES
    invite,    \* t.Invite
    State,     \* t.State
    Mu,        \* owner of t.Mu
    closed,    \* TuChan and DelChan are closed (DestroyChanel closes both)
    ProvisionalRes, FinalRes,
    ctl,       \* where the Controller goroutine is
    cur,       \* the message the Controller holds
    timerG,    \* local timerG: the next retransmission; 0 out of scope
    timerH,    \* local timerH: what is left; 0 out of scope
    waited,    \* history: the intervals Completed has waited in full
    creator,   \* where the goroutine that created the transaction is
    table,     \* is the key in the server's table, and by whom
    pc, arg,   \* where each packet / user goroutine is, and its message
    sent,      \* the last response given to the transport
    panic      \* why the Go program died, "no" while it lives

vars == <<invite, State, Mu, closed, ProvisionalRes, FinalRes, ctl, cur,
          timerG, timerH, waited, creator, table, pc, arg, sent, panic>>

timers == <<timerG, timerH, waited>>

CtlPlaces == {"start", "first", "loop", "set100", "setProv", "setFinal",
              "completed", "confirmed", "trying", "proceeding", "record",
              "nicompleted", "term", "destroy", "delete", "exit"}

ProcPlaces == {"idle", "hlock", "wlock", "send", "unlock", "done"}

\* The types of the fields of the transaction (BaseTransaction, transaction.go
\* 51-60) and of the places of its goroutines; no timer runs for a
\* negative time.
TypeOK ==
    /\ invite \in BOOLEAN
    /\ State \in States
    /\ Mu \in Procs \cup {Free}
    /\ closed \in BOOLEAN
    /\ ProvisionalRes \in Msgs
    /\ FinalRes \in Msgs
    /\ ctl \in CtlPlaces
    /\ cur \in Msgs
    /\ timerG \in Nat
    /\ timerH \in Nat
    /\ waited \in Nat
    /\ creator \in {"add", "registered", "destroy", "delete", "dropped"}
    /\ table \in {"absent", "self", "other"}
    /\ pc \in [Procs -> ProcPlaces]
    /\ arg \in [Procs -> Msgs]
    /\ sent \in Msgs
    /\ panic \in {"no", "sendOnClosed", "closeOfClosed"}

--------------------------------------------------------------------------------
(***************************************************************************)
(* The decisions of the code, one operator each.                           *)
(***************************************************************************)

\* A bug that forgets to look at the state before it sends.
MayWriteAlways(s) == s <= StClosed

\* WriteMessage sends unless the transaction is Terminated or Closed.
MayWrite(s) == s < StTerminated

\* A bug that answers any later response again instead of dropping it.
CompletedSendsAgain(m) ==
    CASE m = Ack        -> "confirmed"
      [] IsResponse(m)  -> "setFinal"
      [] OTHER          -> "completed"

\* inviteControllerCompleted: an ACK confirms, anything else is dropped.
CompletedNext(m) == IF m = Ack THEN "confirmed" ELSE "completed"

\* inviteController, the select before the first response.
FirstNext(m) ==
    CASE ~IsResponse(m)          -> "destroy"
      [] IsProvisional(m)        -> "setProv"
      [] Is2xx(m)                -> "setFinal"
      [] m >= 300 /\ m < 700     -> "setFinal"
      [] OTHER                   -> "loop"

\* inviteController, the loop after the first response; the last branch is
\* "Missing way transaction": the controller returns.
LoopNext(m) ==
    CASE ~IsResponse(m)          -> "destroy"
      [] IsProvisional(m)        -> "setProv"
      [] Is2xx(m)                -> "setFinal"
      [] m >= 300 /\ m <= 600    -> "setFinal"
      [] OTHER                   -> "exit"

\* A bug that destroys the transaction when the channel is found closed.
ClosedDestroys == "destroy"

\* A closed DelChan, or nil from a closed TuChan: the controller returns.
ClosedNext == "exit"

\* nonInviteController(Proceeding): where a response of the user leads.
NonInviteNext(m, here) ==
    CASE IsProvisional(m)        -> "proceeding"
      [] m >= 200 /\ m < 700     -> "nicompleted"
      [] OTHER                   -> IF here = "trying" THEN "exit" ELSE here

\* Handle of a retransmitted request: the response it wants to send again.
Retransmission(final, prov) == IF final # Nil THEN final ELSE prov

\* Handle: an ACK is sent to the controller without a look at State; a
\* retransmitted request calls WriteMessage if there is a response to repeat.
HandleNext(m, again) ==
    IF m = Ack THEN "send" ELSE IF again # Nil THEN "wlock" ELSE "unlock"

--------------------------------------------------------------------------------
Init ==
    /\ invite \in BOOLEAN
    /\ State = StInit
    /\ Mu = Free
    /\ closed = FALSE
    /\ ProvisionalRes = Nil
    /\ FinalRes = Nil
    /\ ctl = "start"
    /\ cur = Nil
    /\ timerG = 0
    /\ timerH = 0
    /\ waited = 0
    /\ creator = "add"
    /\ table \in {"absent", "other"}
    /\ pc = [p \in Procs |-> "idle"]
    /\ arg = [p \in Procs |-> Nil]
    /\ sent = Nil
    /\ panic = "no"

\* A panic in any goroutine ends the whole program.
Alive == panic = "no"

\* The body of DestroyChanel, for a caller that finds Mu free.
DestroyChanel ==
    /\ Mu = Free
    /\ IF State = StClosed
       THEN UNCHANGED <<State, closed, panic>>
       ELSE /\ State' = StClosed
            /\ closed' = TRUE
            /\ panic' = IF closed THEN "closeOfClosed" ELSE panic

--------------------------------------------------------------------------------
(***************************************************************************)
(* The creating goroutine: AddServerTransaction, and Destroy of a          *)
(* transaction that turned out to be a duplicate.                          *)
(***************************************************************************)
creatorFrame == <<invite, Mu, ProvisionalRes, FinalRes, ctl, cur, timers,
                  pc, arg, sent>>

AddServerTransaction ==
    /\ Alive
    /\ creator = "add"
    /\ IF table = "other"
       THEN creator' = "destroy" /\ UNCHANGED table
       ELSE creator' = "registered" /\ table' = "self"
    /\ UNCHANGED <<State, closed, panic>>
    /\ UNCHANGED creatorFrame

CreatorDestroy ==
    /\ Alive
    /\ creator = "destroy"
    /\ DestroyChanel
    /\ creator' = "delete"
    /\ UNCHANGED table
    /\ UNCHANGED creatorFrame

\* DeleteServerTransaction deletes whatever the key maps to.
CreatorDelete ==
    /\ Alive
    /\ creator = "delete"
    /\ creator' = "dropped"
    /\ table' = "absent"
    /\ UNCHANGED <<State, closed, panic>>
    /\ UNCHANGED creatorFrame

--------------------------------------------------------------------------------
(***************************************************************************)
(* The Controller goroutine.                                               *)
(***************************************************************************)
othersFrame == <<invite, Mu, creator, pc, arg>>

CtlStart ==
    /\ Alive
    /\ ctl = "start"
    /\ State' = IF invite THEN StProceeding ELSE StTrying
    /\ ctl' = IF invite THEN "first" ELSE "trying"
    /\ UNCHANGED <<closed, ProvisionalRes, FinalRes, cur, timers, table, sent, panic>>
    /\ UNCHANGED othersFrame

Timer100Try ==
    /\ Alive
    /\ ctl = "first"
    /\ ctl' = "set100"
    /\ UNCHANGED <<State, closed, ProvisionalRes, FinalRes, cur, timers, table, sent, panic>>
    /\ UNCHANGED othersFrame

CtlSet100 ==
    /\ Alive
    /\ ctl = "set100"
    /\ Mu = Free
    /\ ProvisionalRes' = Trying
    /\ sent' = Trying
    /\ ctl' = "loop"
    /\ UNCHANGED <<State, closed, FinalRes, cur, timers, table, panic>>
    /\ UNCHANGED othersFrame

\* inviteController: 2xx terminates, 3xx-6xx wait for the ACK.
AfterFinal(m) == IF Is2xx(m) THEN "term" ELSE "completed"

CtlSetProv ==
    /\ Alive
    /\ ctl = "setProv"
    /\ Mu = Free
    /\ ProvisionalRes' = cur
    /\ sent' = cur
    /\ ctl' = "loop"
    /\ UNCHANGED <<State, closed, FinalRes, cur, timers, table, panic>>
    /\ UNCHANGED othersFrame

CtlSetFinal ==
    /\ Alive
    /\ ctl = "setFinal"
    /\ Mu = Free
    /\ FinalRes' = cur
    /\ sent' = cur
    /\ ctl' = AfterFinal(cur)
    /\ IF ctl' = "completed"
       THEN State' = StCompleted /\ timerG' = 1 /\ timerH' = GiveUp /\ waited' = 0
       ELSE UNCHANGED <<State, timers>>
    /\ UNCHANGED <<closed, ProvisionalRes, cur, table, panic>>
    /\ UNCHANGED othersFrame

\* The rendezvous on TuChan of goroutine p with the controller's select.
received == <<invite, Mu, closed, creator, table, arg, panic>>

CtlReceiveInvite(p) ==
    /\ Alive
    /\ ctl \in {"first", "loop", "completed", "confirmed"}
    /\ pc[p] = "send" /\ ~closed
    /\ pc' = [pc EXCEPT ![p] = "unlock"]
    /\ cur' = arg[p]
    /\ ctl' = CASE ctl = "first"     -> FirstNext(arg[p])
                [] ctl = "loop"      -> LoopNext(arg[p])
                [] ctl = "completed" -> CompletedNext(arg[p])
                [] ctl = "confirmed" -> "confirmed"
    /\ IF ctl = "completed" /\ ctl' = "confirmed"
       THEN State' = StConfirmed /\ timerG' = 0 /\ timerH' = 0 /\ waited' = 0
       ELSE UNCHANGED <<State, timers>>
    /\ UNCHANGED <<ProvisionalRes, FinalRes, sent>>
    /\ UNCHANGED received

\* The non-INVITE controller transmits a response ...
CtlReceiveNonInvite(p) ==
    /\ Alive
    /\ ctl \in {"trying", "proceeding"}
    /\ pc[p] = "send" /\ ~closed
    /\ pc' = [pc EXCEPT ![p] = "unlock"]
    /\ cur' = arg[p]
    /\ sent' = IF IsResponse(arg[p]) THEN arg[p] ELSE sent
    /\ ctl' = IF IsResponse(arg[p]) THEN "record" ELSE "destroy"
    /\ UNCHANGED <<State, ProvisionalRes, FinalRes, timers>>
    /\ UNCHANGED received

\* ... and records it afterwards, without Mu.
CtlRecordNonInvite ==
    /\ Alive
    /\ ctl = "record"
    /\ ctl' = NonInviteNext(cur, IF State = StTrying THEN "trying" ELSE "proceeding")
    /\ ProvisionalRes' = IF IsProvisional(cur) THEN cur ELSE ProvisionalRes
    /\ FinalRes' = IF ctl' = "nicompleted" THEN cur ELSE FinalRes
    /\ State' = CASE ctl' = "nicompleted" -> StCompleted
                  [] ctl' = "proceeding"  -> StProceeding
                  [] OTHER                -> State
    /\ UNCHANGED <<closed, cur, timers, table, sent, panic>>
    /\ UNCHANGED othersFrame

CtlClosed ==
    /\ Alive
    /\ ctl \in {"first", "loop", "completed", "confirmed",
                "trying", "proceeding", "nicompleted"}
    /\ closed
    /\ ctl' = ClosedNext
    /\ UNCHANGED <<State, closed, ProvisionalRes, FinalRes, cur, timers, table, sent, panic>>
    /\ UNCHANGED othersFrame

\* The intervals of Timer G double up to T2.
NextG(t) == IF 2 * t > T2 THEN T2 ELSE 2 * t

\* A bug: Timer G does not look at what is left of Timer H.
TimerGOverruns ==
    /\ Alive
    /\ ctl = "completed"
    /\ timerG' = NextG(timerG)
    /\ timerH' = timerH - timerG
    /\ waited' = waited + timerG
    /\ sent' = FinalRes
    /\ UNCHANGED <<State, closed, ProvisionalRes, FinalRes, ctl, cur, table, panic>>
    /\ UNCHANGED othersFrame

\* A bug: Timer H loses the next interval, not the last one.
TimerGTakesNext ==
    /\ Alive
    /\ ctl = "completed"
    /\ timerG <= timerH
    /\ timerG' = NextG(timerG)
    /\ timerH' = timerH - timerG'
    /\ waited' = waited + timerG
    /\ sent' = FinalRes
    /\ UNCHANGED <<State, closed, ProvisionalRes, FinalRes, ctl, cur, table, panic>>
    /\ UNCHANGED othersFrame

\* Retransmission of the final response until the ACK.
TimerG ==
    /\ Alive
    /\ ctl = "completed"
    /\ timerG <= timerH
    /\ timerG' = NextG(timerG)
    /\ timerH' = timerH - timerG
    /\ waited' = waited + timerG
    /\ sent' = FinalRes
    /\ UNCHANGED <<State, closed, ProvisionalRes, FinalRes, ctl, cur, table, panic>>
    /\ UNCHANGED othersFrame

\* No ACK came.
TimerH ==
    /\ Alive
    /\ ctl = "completed"
    /\ timerH <= timerG
    /\ ctl' = "term"
    /\ waited' = waited + timerH
    /\ timerG' = 0 /\ timerH' = 0
    /\ UNCHANGED <<State, closed, ProvisionalRes, FinalRes, cur, table, sent, panic>>
    /\ UNCHANGED othersFrame

\* A bug: no timer ends Completed of a non-INVITE transaction.
TimerIOnly ==
    /\ Alive
    /\ ctl = "confirmed"
    /\ ctl' = "term"
    /\ UNCHANGED <<State, closed, ProvisionalRes, FinalRes, cur, timers, table, sent, panic>>
    /\ UNCHANGED othersFrame

\* Timer I (ACK retransmissions absorbed) and Timer J.
TimerIJ ==
    /\ Alive
    /\ ctl \in {"confirmed", "nicompleted"}
    /\ ctl' = "term"
    /\ UNCHANGED <<State, closed, ProvisionalRes, FinalRes, cur, timers, table, sent, panic>>
    /\ UNCHANGED othersFrame

\* controllerTerminated writes State without Mu, then calls Destroy.
CtlTerminated ==
    /\ Alive
    /\ ctl = "term"
    /\ State' = StTerminated
    /\ ctl' = "destroy"
    /\ UNCHANGED <<closed, ProvisionalRes, FinalRes, cur, timers, table, sent, panic>>
    /\ UNCHANGED othersFrame

CtlDestroy ==
    /\ Alive
    /\ ctl = "destroy"
    /\ DestroyChanel
    /\ ctl' = "delete"
    /\ UNCHANGED <<ProvisionalRes, FinalRes, cur, timers, table, sent>>
    /\ UNCHANGED othersFrame

CtlDelete ==
    /\ Alive
    /\ ctl = "delete"
    /\ table' = "absent"
    /\ ctl' = "exit"
    /\ UNCHANGED <<State, closed, ProvisionalRes, FinalRes, cur, timers, sent, panic>>
    /\ UNCHANGED othersFrame

--------------------------------------------------------------------------------
(***************************************************************************)
(* The goroutines that call WriteMessage and Handle.                       *)
(***************************************************************************)
procFrame == <<invite, State, closed, ProvisionalRes, FinalRes, ctl, cur,
               timers, creator, table, sent>>

\* A goroutine of the user calls WriteMessage.  The proxy hands the pointer
\* of a transaction around only once it is registered, and a goroutine that
\* has written a final response writes no more.
WriteMessageCall(w, m) ==
    /\ Alive
    /\ pc[w] = "idle"
    /\ creator = "registered"
    /\ pc' = [pc EXCEPT ![w] = "wlock"]
    /\ arg' = [arg EXCEPT ![w] = m]
    /\ UNCHANGED <<Mu, panic>>
    /\ UNCHANGED procFrame

\* WriteMessage: Lock, then the test of State.  Handle calls it with Mu held.
WriteMessageLock(p) ==
    /\ Alive
    /\ pc[p] = "wlock"
    /\ Mu = Free
    /\ Mu' = p
    /\ pc' = [pc EXCEPT ![p] = IF MayWrite(State) THEN "send" ELSE "unlock"]
    /\ UNCHANGED <<arg, panic>>
    /\ UNCHANGED procFrame

\* packetProcessing finds the transaction and is about to call Handle.
LookupServerTransaction(p, m) ==
    /\ Alive
    /\ pc[p] = "idle"
    /\ table = "self"
    /\ m = Ack => invite            \* the key of an ACK has method INVITE
    /\ pc' = [pc EXCEPT ![p] = "hlock"]
    /\ arg' = [arg EXCEPT ![p] = m]
    /\ UNCHANGED <<Mu, panic>>
    /\ UNCHANGED procFrame

Handle(p) ==
    /\ Alive
    /\ pc[p] = "hlock"
    /\ Mu = Free
    /\ Mu' = p
    /\ pc' = [pc EXCEPT ![p] = HandleNext(arg[p], Retransmission(FinalRes, ProvisionalRes))]
    /\ arg' = [arg EXCEPT ![p] = IF pc'[p] = "wlock"
                                 THEN Retransmission(FinalRes, ProvisionalRes) ELSE @]
    /\ UNCHANGED panic
    /\ UNCHANGED procFrame

\* Go panics on a send on a closed channel.
SendOnClosed(p) ==
    /\ Alive
    /\ pc[p] = "send"
    /\ closed
    /\ panic' = "sendOnClosed"
    /\ UNCHANGED <<Mu, pc, arg>>
    /\ UNCHANGED procFrame

\* The deferred Unlock.
Return(p) ==
    /\ Alive
    /\ pc[p] = "unlock"
    /\ Mu' = Free
    /\ pc' = [pc EXCEPT ![p] = IF p \in Writers /\ arg[p] >= 200 THEN "done" ELSE "idle"]
    /\ UNCHANGED <<arg, panic>>
    /\ UNCHANGED procFrame

--------------------------------------------------------------------------------
Controller ==
    \/ CtlStart \/ Timer100Try \/ CtlSet100 \/ CtlSetProv \/ CtlSetFinal
    \/ \E p \in Procs : CtlReceiveInvite(p) \/ CtlReceiveNonInvite(p)
    \/ CtlRecordNonInvite
    \/ CtlClosed \/ TimerG \/ TimerH \/ TimerIJ \/ CtlTerminated \/ CtlDestroy \/ CtlDelete

Creator == AddServerTransaction \/ CreatorDestroy \/ CreatorDelete

Running(p) == WriteMessageLock(p) \/ Handle(p) \/ SendOnClosed(p) \/ Return(p)

Calls ==
    \/ \E w \in Writers, m \in Codes : WriteMessageCall(w, m)
    \/ \E p \in Packets, m \in {Ack, Retrans} : LookupServerTransaction(p, m)

Next ==
    \/ Controller
    \/ Creator
    \/ Calls
    \/ \E p \in Procs : Running(p)

Spec == Init /\ [][Next]_vars

(***************************************************************************)
(* Fairness: the Go runtime keeps running a goroutine that can run; a      *)
(* controller in a select that nobody sends to runs on when a timer fires. *)
(* No call or packet is ever owed.                                         *)
(***************************************************************************)
Fairness ==
    /\ WF_vars(Controller)
    /\ WF_vars(Creator)
    /\ \A p \in Procs : WF_vars(Running(p))

FairSpec == Spec /\ Fairness

--------------------------------------------------------------------------------
(***************************************************************************)
(* The inductive invariant behind the safety properties.                   *)
(***************************************************************************)

\* A goroutine inside WriteMessage or Handle owns Mu while it sends, and a
\* packet goroutine reaches the Lock of WriteMessage only as its owner.
MuInv ==
    /\ \A p \in Procs : pc[p] \in {"send", "unlock"} => Mu = p
    /\ \A p \in Packets : pc[p] = "wlock" => Mu = p

\* Nobody but creator and controller touches an unregistered transaction, and
\* until the creator drops a duplicate its channels are open.
UnregisteredInv ==
    /\ table = "self" => creator = "registered"
    /\ creator # "registered" =>
         /\ \A p \in Procs : pc[p] = "idle"
         /\ ctl \in {"start", "first", "set100", "loop", "trying", "exit"}
    /\ creator \in {"add", "destroy"} => ~closed

\* Of a registered transaction, only the controller closes the channels, as
\* its last act but one.
ClosedInv ==
    creator = "registered" /\ closed => State = StClosed /\ ctl \in {"delete", "exit"}

\* What each goroutine holds in its hand.
MessageInv ==
    /\ \A w \in Writers : pc[w] # "hlock" /\ (pc[w] # "idle" => arg[w] \in Codes)
    /\ \A p \in Packets : pc[p] = "send" => arg[p] = Ack
    /\ ctl = "setProv" => cur \in Codes /\ IsProvisional(cur)
    /\ ctl = "setFinal" => cur \in Codes
    /\ FinalRes \in Codes \cup {Nil}

\* A final response leaves the controller only where it sends no other.
SentInv ==
    /\ sent >= 200 => \/ FinalRes = sent /\ ctl \in {"completed", "confirmed",
                            "nicompleted", "term", "destroy", "delete", "exit"}
                      \/ ctl = "record"
    /\ ctl = "record" => cur \in Codes /\ sent = cur
    /\ ctl \in {"start", "first", "set100"} => sent = Nil

\* What Completed has waited and what is left of Timer H add up.
TimerInv ==
    ctl = "completed" => timerG > 0 /\ timerG <= T2 /\ waited + timerH = GiveUp

--------------------------------------------------------------------------------
(***************************************************************************)
(* Properties.                                                             *)
(***************************************************************************)

\* WriteMessage never runs into a panic of a send on a closed channel: the test
\* of State and the send happen under the Mu that DestroyChanel needs
\* (transaction.go 66-88).  Handle of an ACK has no such test.
WriteMessageNeverPanics ==
    \A w \in Writers : pc[w] = "send" => ~closed

\* The invariant that is proved inductive.
IInv ==
    /\ TypeOK
    /\ MuInv
    /\ UnregisteredInv
    /\ ClosedInv
    /\ MessageInv
    /\ SentInv
    /\ TimerInv
    /\ WriteMessageNeverPanics
    /\ panic # "closeOfClosed"

\* DelChan and TuChan are closed at most once, whoever destroys the
\* transaction, the controller or the creator of a duplicate (transaction.go
\* 77-88, proxy_request_controller.go 359-364).
ChannelsClosedOnce == panic # "closeOfClosed"

\* Once a final response went out, the transaction transmits nothing but that
\* same response: no provisional and no second final response of a racing
\* goroutine; and the 100 Trying of the timer never follows another response
\* (transaction.go 582-797).
FinalResponseStands ==
    [][/\ sent >= 200 => sent' = sent
       /\ sent # Nil => sent' # Trying]_sent

\* Timer H gives the ACK its full 64 * T1, however many retransmissions of the
\* final response and stray messages interrupt the wait: what each turn of the
\* select carries over adds up, and an interrupted interval is not charged
\* (transaction.go 582-616).
AckIsAwaited ==
    [][ctl = "completed" /\ ctl' = "term" => waited' = GiveUp]_vars

\* A transaction that transmitted a final response is destroyed and leaves
\* the table: Timer H, I or J, or at once after a 2xx (transaction.go
\* 546-551).  It is promised where one goroutine w alone uses the transaction:
\* a second one can hold Mu, waiting for a controller that waits for Mu.
FinalLeadsToDestroy ==
    \A w \in Writers :
        [](\A p \in Procs \ {w} : pc[p] = "idle")
            => ((sent >= 200) ~> (closed /\ table # "self"))

\* A goroutine never waits for a Mu it holds itself: the retransmission of a
\* response in Handle (transaction.go 526-544) must be able to proceed.
HandleCanRetransmit == \A p \in Procs : ~(pc[p] = "wlock" /\ Mu = p)

================================================================================

----------------------------- MODULE InviteProxying ----------------------------
(***************************************************************************)
(* One INVITE on its way through the proxy: the goroutines of              *)
(* src/proxy_request_controller.go, src/proxy_response_controller.go and   *)
(* src/proxy_core.go that race to answer it.  They are                     *)
(*   - the goroutine of inviteHandler (Main), which forwards the INVITE;   *)
(*   - a goroutine per response packet, which runs responseHandler inside  *)
(*     ClientTransaction.Handle, that is, under the Mu of the client       *)
(*     transaction, and forwards a redirected INVITE itself;               *)
(*   - a Timer C goroutine per client transaction;                         *)
(*   - the goroutine that destroys a client transaction and tells the user *)
(*     of its error (clientTransactionErrorHandler);                       *)
(*   - the goroutine of cancelHandler, and the CANCEL client transactions  *)
(*     that it and Timer C start;                                          *)
(*   - the controller of the server transaction, to which the others hand  *)
(*     over their responses.                                               *)
(* They share the response contexts, the Timer C channels, the call state  *)
(* and the two transaction tables.  Every access to one of these, each     *)
(* behind a mutex of its own, is a step.                                   *)
(*                                                                         *)
(* The transaction layers have modules of their own; here a client         *)
(* transaction hands responses over one at a time, and the server          *)
(* transaction is what its writers meet: WriteMessage locks Mu and waits,  *)
(* with Mu, for the controller to take the response (TuChan has no         *)
(* buffer), and the controller locks Mu to record what it took before it   *)
(* transmits it.  A writer that gets Mu in between parks for good.  Lock   *)
(* and rendezvous of a writer that does not park are one step: until the   *)
(* controller wants Mu, only writers do, and they wait for each other.     *)
(***************************************************************************)
EXTENDS ResponseContexts

CONSTANTS
    St,         \* key of the server transaction of the INVITE
    Packets,    \* goroutines that handle a response packet
    Scenarios   \* what callee and caller may send: [codes, cancels]

ASSUME StAssumption == StKeys = {St}

\* Responses of the callee: 100, 101-199, 2xx, 3xx, 400-600, 601-699.
AllCodes     == {"trying", "ringing", "ok", "moved", "fail", "refused"}
IsFailure(c) == c \in {"fail", "refused"}
IsFinal(c)   == c \in {"ok", "moved"} \/ IsFailure(c)

ASSUME ScenariosAssumption ==
    Scenarios \subseteq [codes : SUBSET AllCodes, cancels : BOOLEAN]

Main == "main"
Free == "free"
NoCt == "noct"

Launchers == Packets \cup {Main}             \* goroutines that forward an INVITE

ASSUME NamesAssumption == /\ {Main, Free} \cap Packets = {}
                          /\ NoCt \notin CtKeys

\* The two CANCEL client transactions there may be for one INVITE.
CancelOf == {"timerC", "uac"}

VARIABLES
    pc, job, code,   \* launchers: place, client transaction, response in hand
    call,            \* callStates: "none", "open", "closed" or "removed"
    sentRequest,     \* has the call state a SentRequest?
    scenario,        \* which responses may come, and may CANCEL come?
    ct,              \* state of each client transaction
    prov, err,       \* its ProvisionalRes # nil, its Err
    ctMu,            \* owner of its Mu
    ctTable,         \* client transactions in the table
    teardown,        \* where the goroutine that destroys it is
    tc,              \* where its Timer C goroutine is
    tcMap,           \* client transactions with channels in timerCHandler
    tcClosed,        \* those whose destroy channel is closed
    updClosed,       \* those whose update channel is closed
    cancel, target,  \* cancelHandler: place, client transaction in hand
    visited, gen,    \* its loop: what it has been through, of which map
    can,             \* the CANCEL client transactions
    stTable,         \* is the server transaction in the table?
    stCtl,           \* its controller: waiting, or with a response in hand
    stParked,        \* has a writer its Mu for good?
    answer,          \* the final response the server transaction transmitted
    errors,          \* final responses the proxy made up itself
    panic

callVars   == <<call, sentRequest, scenario>>
ctVars     == <<ct, prov, err, ctMu, ctTable>>
tcVars     == <<tc, tcMap, tcClosed, updClosed>>
cancelVars == <<cancel, target, visited, gen>>
stVars     == <<stTable, stCtl, stParked, answer, errors>>
goVars     == <<pc, job, code>>
proxyVars  == <<goVars, callVars, ctVars, teardown, tcVars, cancelVars, can, stVars, panic>>
vars       == <<ctxVars, proxyVars>>

Places == {"start", "route", "ctx", "table", "write", "callee", "timer",
           "error", "errorCall", "end",
           "idle", "lock", "send", "getCall", "getCtx", "lookup", "getTimer",
           "update", "remove", "record", "forward", "return"}

\* What the controller of the server transaction has in hand, before it has
\* locked Mu to record it; a failure is a failure.
InHand    == {"provisional", "ok", "fail", "error"}
Hand(m)   == CASE m = "ringing" -> "provisional"
               [] m = "refused" -> "fail"
               [] OTHER         -> m

\* The types of the shared state of the proxy core; the final answer of the
\* caller is a 2xx, a failure, or an error of the proxy, never a provisional
\* response or a redirection (proxy_response_controller.go 110-142).
TypeOK ==
    /\ CtxTypeOK
    /\ pc \in [Launchers -> Places]
    /\ job \in [Launchers -> CtKeys \cup {NoCt}]
    /\ code \in [Launchers -> AllCodes \cup {"nil"}]
    /\ call \in {"none", "open", "closed", "removed"}
    /\ sentRequest \in BOOLEAN
    /\ scenario \in Scenarios
    /\ ct \in [CtKeys -> {"none", "new", "calling", "proceeding", "completed",
                          "term", "dead"}]
    /\ prov \in [CtKeys -> BOOLEAN]
    /\ err \in [CtKeys -> {"nil", "timeout", "non2xx"}]
    /\ ctMu \in [CtKeys -> Packets \cup {Free}]
    /\ ctTable \subseteq CtKeys
    /\ teardown \in [CtKeys -> {"none", "getCtx", "getTimer", "lookup", "remove",
                                "answer", "errorCall", "delete", "end"}]
    /\ tc \in [CtKeys -> {"none", "run", "cancel", "close", "answer", "remove", "end"}]
    /\ tcMap \subseteq CtKeys
    /\ tcClosed \subseteq CtKeys
    /\ updClosed \subseteq CtKeys
    /\ cancel \in {"idle", "noMatch", "loop", "lookup", "end"}
    /\ target \in CtKeys \cup {NoCt}
    /\ visited \subseteq CtKeys
    /\ gen \in Nat
    /\ can \in [CtKeys -> [CancelOf -> {"none", "pending", "accepted", "close", "answer", "end"}]]
    /\ stTable \in BOOLEAN
    /\ stCtl \in {"trying", "proceeding", "answered", "lost"} \cup InHand
    /\ stParked \in BOOLEAN
    /\ answer \in {"nil", "ok", "fail", "error"}
    /\ errors \in Nat
    /\ panic \in {"no", "closeOfClosed", "sendOnClosed", "nilRequest", "nilTransaction"}

Init ==
    /\ CtxInit
    /\ pc = [g \in Launchers |-> IF g = Main THEN "start" ELSE "idle"]
    /\ job = [g \in Launchers |-> NoCt]
    /\ code = [g \in Launchers |-> "nil"]
    /\ call = "none"
    /\ sentRequest = FALSE
    /\ scenario \in Scenarios
    /\ ct = [c \in CtKeys |-> "none"]
    /\ prov = [c \in CtKeys |-> FALSE]
    /\ err = [c \in CtKeys |-> "nil"]
    /\ ctMu = [c \in CtKeys |-> Free]
    /\ ctTable = {}
    /\ teardown = [c \in CtKeys |-> "none"]
    /\ tc = [c \in CtKeys |-> "none"]
    /\ tcMap = {}
    /\ tcClosed = {}
    /\ updClosed = {}
    /\ cancel = "idle"
    /\ target = NoCt
    /\ visited = {}
    /\ gen = 0
    /\ can = [c \in CtKeys |-> [k \in CancelOf |-> "none"]]
    /\ stTable = TRUE
    /\ stCtl = "trying"
    /\ stParked = FALSE
    /\ answer = "nil"
    /\ errors = 0
    /\ panic = "no"

--------------------------------------------------------------------------------
(***************************************************************************)
(* Helpers.                                                                *)
(***************************************************************************)
Alive == panic = "no"

Go(g, to) == pc' = [pc EXCEPT ![g] = to]

\* WriteMessage on the server transaction, when it returns: the controller
\* takes the response.  Before the first response it takes any; after a
\* provisional one it ends at a status above 600; after a final one nothing
\* is transmitted any more, and once it is destroyed nothing is handed over.
HandOver(m) ==
    /\ ~stParked
    /\ \/ stCtl = "trying" /\ stCtl' = Hand(m)
       \/ stCtl = "proceeding" /\ m # "refused" /\ stCtl' = Hand(m)
       \/ stCtl = "proceeding" /\ m = "refused" /\ stCtl' = "lost"
       \/ stCtl = "answered" /\ UNCHANGED stCtl
    /\ UNCHANGED <<stTable, stParked, answer>>

WriteError        == HandOver("error") /\ errors' = errors + 1
WriteForwarded(c) == HandOver(c) /\ UNCHANGED errors

\* WriteMessage, when it never returns: the writer has Mu and waits for a
\* controller that waits for Mu, to record a response or to destroy the
\* transaction, or that has ended.
WriterParks ==
    /\ ~stParked
    /\ stTable
    /\ stCtl \notin {"trying", "proceeding"}
    /\ stParked' = TRUE
    /\ UNCHANGED <<stTable, stCtl, answer, errors>>

\* CallStates.Close of whatever callStates.Get returns.
CloseCall ==
    /\ call' = IF call = "open" THEN "closed" ELSE call
    /\ UNCHANGED <<sentRequest, scenario>>

--------------------------------------------------------------------------------
(***************************************************************************)
(* inviteHandler, and the part of forwardRedirection that is the same.     *)
(***************************************************************************)

\* requestHandler registered the server transaction; the call state is new.
HandleInvite ==
    /\ Alive
    /\ pc[Main] = "start"
    /\ call' = "open"
    /\ Go(Main, "route")
    /\ UNCHANGED <<ctxVars, job, code, sentRequest, scenario, ctVars, teardown, tcVars,
                   cancelVars, can, stVars, panic>>

\* generateForwardingRequest and inviteRouted: 483, 404, ... or go on.
RouteInvite ==
    /\ Alive
    /\ pc[Main] = "route"
    /\ Go(Main, "ctx") \/ Go(Main, "error")
    /\ UNCHANGED <<ctxVars, job, code, callVars, ctVars, teardown, tcVars,
                   cancelVars, can, stVars, panic>>

\* NewClientInviteTransaction with a fresh branch, and responseContexts.Add.
AddContext(g, c) ==
    /\ Alive
    /\ pc[g] = "ctx"
    /\ c \notin used
    /\ Add(St, c)
    /\ job' = [job EXCEPT ![g] = c]
    /\ ct' = [ct EXCEPT ![c] = "new"]
    /\ Go(g, "table")
    /\ UNCHANGED <<code, callVars, prov, err, ctMu, ctTable, teardown, tcVars,
                   cancelVars, can, stVars, panic>>

AddClientTransaction(g) ==
    /\ Alive
    /\ pc[g] = "table"
    /\ ctTable' = ctTable \cup {job[g]}
    /\ Go(g, "write")
    /\ UNCHANGED <<ctxVars, job, code, callVars, ct, prov, err, ctMu, teardown,
                   tcVars, cancelVars, can, stVars, panic>>

\* clientTxn.WriteMessage: the INVITE goes out.
WriteInvite(g) ==
    /\ Alive
    /\ pc[g] = "write"
    /\ ct' = [ct EXCEPT ![job[g]] = "calling"]
    /\ Go(g, "callee")
    /\ UNCHANGED <<ctxVars, job, code, callVars, prov, err, ctMu, ctTable, teardown,
                   tcVars, cancelVars, can, stVars, panic>>

\* A bug: the request is not kept.
RecordCalleeForgets(g) ==
    /\ Alive
    /\ pc[g] = "callee"
    /\ Go(g, "timer")
    /\ UNCHANGED <<ctxVars, job, code, callVars, ctVars, teardown, tcVars, cancelVars,
                   can, stVars, panic>>

\* info.RecordCallee does nothing on a closed call.
RecordCallee(g) ==
    /\ Alive
    /\ pc[g] = "callee"
    /\ sentRequest' = (sentRequest \/ call = "open")
    /\ Go(g, "timer")
    /\ UNCHANGED <<ctxVars, job, code, call, scenario, ctVars, teardown, tcVars,
                   cancelVars, can, stVars, panic>>

\* timerCHandler.Add and the new Timer C goroutine.
StartTimerC(g) ==
    /\ Alive
    /\ pc[g] = "timer"
    /\ tcMap' = tcMap \cup {job[g]}
    /\ tc' = [tc EXCEPT ![job[g]] = "run"]
    /\ Go(g, IF g = Main THEN "end" ELSE "return")
    /\ UNCHANGED <<ctxVars, job, code, callVars, ctVars, teardown, tcClosed,
                   updClosed, cancelVars, can, stVars, panic>>

\* makeErrorResponse: the response, then the call state.
ErrorResponse(g) ==
    /\ Alive
    /\ pc[g] = "error"
    /\ \/ WriteError /\ Go(g, "errorCall")
       \/ WriterParks /\ UNCHANGED pc
    /\ UNCHANGED <<ctxVars, job, code, callVars, ctVars, teardown, tcVars,
                   cancelVars, can, panic>>

ErrorCall(g) ==
    /\ Alive
    /\ pc[g] = "errorCall"
    /\ CloseCall
    /\ Go(g, IF g = Main THEN "end" ELSE "return")
    /\ UNCHANGED <<ctxVars, job, code, ctVars, teardown, tcVars, cancelVars, can,
                   stVars, panic>>

--------------------------------------------------------------------------------
(***************************************************************************)
(* A response packet.                                                      *)
(***************************************************************************)

\* packetProcessing: the table decides whether Handle or the core gets it.
ReceiveResponse(p, c, m) ==
    /\ Alive
    /\ pc[p] = "idle"
    /\ m \in scenario.codes
    /\ ct[c] \notin {"none", "new"}
    /\ job' = [job EXCEPT ![p] = c]
    /\ code' = [code EXCEPT ![p] = m]
    /\ Go(p, IF c \in ctTable THEN "lock" ELSE "getCall")
    /\ UNCHANGED <<ctxVars, callVars, ctVars, teardown, tcVars, cancelVars, can,
                   stVars, panic>>

\* ClientTransaction.Handle: Lock, and nothing more on a destroyed one.
HandleLock(p) ==
    /\ Alive
    /\ pc[p] = "lock"
    /\ ctMu[job[p]] = Free
    /\ IF ct[job[p]] = "dead"
       THEN Go(p, "idle") /\ UNCHANGED ctMu
       ELSE Go(p, "send") /\ ctMu' = [ctMu EXCEPT ![job[p]] = p]
    /\ UNCHANGED <<ctxVars, job, code, callVars, ct, prov, err, ctTable, teardown,
                   tcVars, cancelVars, can, stVars, panic>>

\* The controller takes the response; then HandleInTransaction.
HandleSend(p) ==
    LET c == job[p]
        m == code[p] IN
    /\ Alive
    /\ pc[p] = "send"
    /\ ct[c] \in {"calling", "proceeding", "completed"}
    /\ ct' = [ct EXCEPT ![c] =
                CASE @ = "completed"                -> "completed"
                  [] @ # "completed" /\ m = "ok"    -> "term"
                  [] @ # "completed" /\ ~IsFinal(m) -> "proceeding"
                  [] OTHER                          -> "completed"]
    /\ prov' = [prov EXCEPT ![c] = @ \/ (~IsFinal(m) /\ ct[c] # "completed")]
    /\ err' = [err EXCEPT ![c] =
                IF ct[c] = "calling" /\ (IsFailure(m) \/ m = "moved") THEN "non2xx" ELSE @]
    /\ Go(p, "getCall")
    /\ UNCHANGED <<ctxVars, job, code, callVars, ctMu, ctTable, teardown, tcVars,
                   cancelVars, can, stVars, panic>>

\* responseHandler: no call state, no context, no server transaction: ignore.
Guarded(p, from, ok, to) ==
    /\ Alive
    /\ pc[p] = from
    /\ Go(p, IF ok THEN to ELSE "return")
    /\ UNCHANGED <<ctxVars, job, code, callVars, ctVars, teardown, tcVars,
                   cancelVars, can, stVars, panic>>

GetCall(p)     == Guarded(p, "getCall", call \in {"open", "closed"}, "getCtx")
GetStFromCt(p) == Guarded(p, "getCtx", ctToSt[job[p]] # NoSt, "lookup")
LookupSt(p)    == Guarded(p, "lookup", stTable, "getTimer")

\* invaiteResponseHandler: Timer C is told, if its channels are there.
TellTimerC(p) ==
    LET c == job[p] IN
    /\ Alive
    /\ pc[p] = "getTimer"
    /\ \/ /\ code[p] = "trying"
          /\ Go(p, "return")
          /\ UNCHANGED <<tcClosed, updClosed, panic>>
       \/ /\ code[p] = "ringing"
          /\ Go(p, IF c \in tcMap THEN "update" ELSE "forward")
          /\ UNCHANGED <<tcClosed, updClosed, panic>>
       \/ /\ IsFinal(code[p])
          /\ tcClosed' = IF c \in tcMap THEN tcClosed \cup {c} ELSE tcClosed
          /\ updClosed' = IF c \in tcMap THEN updClosed \cup {c} ELSE updClosed
          /\ panic' = IF c \in tcMap /\ c \in tcClosed THEN "closeOfClosed" ELSE panic
          /\ Go(p, "remove")
    /\ UNCHANGED <<ctxVars, job, code, callVars, ctVars, teardown, tc, tcMap,
                   cancelVars, can, stVars>>

\* update <- true: a rendezvous with the Timer C goroutine in its select.
UpdateTimerC(p) ==
    LET c == job[p] IN
    /\ Alive
    /\ pc[p] = "update"
    /\ \/ /\ c \notin updClosed
          /\ tc[c] = "run"
          /\ Go(p, "forward")
          /\ UNCHANGED panic
       \/ /\ c \in updClosed
          /\ panic' = "sendOnClosed"
          /\ UNCHANGED pc
    /\ UNCHANGED <<ctxVars, job, code, callVars, ctVars, teardown, tcVars,
                   cancelVars, can, stVars>>

\* A bug: the context keeps the client transaction.
RemoveForgotten(p) ==
    /\ Alive
    /\ pc[p] = "remove"
    /\ Go(p, "record")
    /\ UNCHANGED <<ctxVars, job, code, callVars, ctVars, teardown, tcVars, cancelVars,
                   can, stVars, panic>>

\* A final response leaves the context; what Remove returns is not looked at.
RemoveContext(p) ==
    /\ Alive
    /\ pc[p] = "remove"
    /\ Remove(job[p])
    /\ Go(p, "record")
    /\ UNCHANGED <<job, code, callVars, ctVars, teardown, tcVars, cancelVars, can,
                   stVars, panic>>

\* 2xx is recorded, 3xx is followed, 4xx-6xx close the call.  To follow a 3xx
\* the handler clones SentRequest, which nobody may have recorded yet.
RecordFinal(p) ==
    /\ Alive
    /\ pc[p] = "record"
    /\ \/ /\ code[p] = "ok"
          /\ Go(p, "forward")
          /\ UNCHANGED <<callVars, panic>>
       \/ /\ IsFailure(code[p])
          /\ CloseCall
          /\ Go(p, "forward")
          /\ UNCHANGED panic
       \/ /\ code[p] = "moved"
          /\ \/ Go(p, "error") /\ UNCHANGED panic
             \/ sentRequest /\ Go(p, "ctx") /\ UNCHANGED panic
             \/ ~sentRequest /\ panic' = "nilRequest" /\ UNCHANGED pc
          /\ UNCHANGED callVars
    /\ UNCHANGED <<ctxVars, job, code, ctVars, teardown, tcVars, cancelVars, can,
                   stVars>>

\* forwardingResponse.
ForwardResponse(p) ==
    /\ Alive
    /\ pc[p] = "forward"
    /\ \/ WriteForwarded(code[p]) /\ Go(p, "return")
       \/ WriterParks /\ UNCHANGED pc
    /\ UNCHANGED <<ctxVars, job, code, callVars, ctVars, teardown, tcVars,
                   cancelVars, can, panic>>

\* The deferred Unlock of Handle.
HandleReturn(p) ==
    /\ Alive
    /\ pc[p] = "return"
    /\ ctMu' = [c \in CtKeys |-> IF ctMu[c] = p THEN Free ELSE ctMu[c]]
    /\ pc' = [pc EXCEPT ![p] = "idle"]
    /\ job' = [job EXCEPT ![p] = NoCt]
    /\ code' = [code EXCEPT ![p] = "nil"]
    /\ UNCHANGED <<ctxVars, callVars, ct, prov, err, ctTable, teardown, tcVars,
                   cancelVars, can, stVars, panic>>
--------------------------------------------------------------------------------
(***************************************************************************)
(* responseContextCloser(st, c): unbind, and answer if that was the last.  *)
(***************************************************************************)
\* A bug: whoever removes, or finds nothing left, answers.
CloserAlwaysAnswers(c) == TRUE

\* A bug: the context is closed and nobody answers.
CloserNeverAnswers(c) == FALSE

\* The closer answers if Remove says so.
CloserAnswers(c) == LastChild(c)

--------------------------------------------------------------------------------
(***************************************************************************)
(* The Timer C goroutine of client transaction c.                          *)
(***************************************************************************)
tcFrame == <<goVars, callVars, ctVars, teardown, tcClosed, updClosed, cancelVars, panic>>

\* fireTimerC: CANCEL if there was a provisional response, else 408.
FireTimerC(c) ==
    /\ Alive
    /\ tc[c] = "run"
    /\ tc' = [tc EXCEPT ![c] = IF prov[c] THEN "cancel" ELSE "close"]
    /\ UNCHANGED <<ctxVars, tcMap, can, stVars>>
    /\ UNCHANGED tcFrame

TimerCCancel(c) ==
    /\ Alive
    /\ tc[c] = "cancel"
    /\ tc' = [tc EXCEPT ![c] = "remove"]
    /\ can' = [can EXCEPT ![c]["timerC"] = "pending"]
    /\ UNCHANGED <<ctxVars, tcMap, stVars>>
    /\ UNCHANGED tcFrame

TimerCClose(c) ==
    /\ Alive
    /\ tc[c] = "close"
    /\ Remove(c)
    /\ tc' = [tc EXCEPT ![c] = IF CloserAnswers(c) THEN "answer" ELSE "remove"]
    /\ UNCHANGED <<tcMap, can, stVars>>
    /\ UNCHANGED tcFrame

TimerCAnswer(c) ==
    /\ Alive
    /\ tc[c] = "answer"
    /\ \/ WriteError /\ tc' = [tc EXCEPT ![c] = "remove"]
       \/ WriterParks /\ UNCHANGED tc
    /\ UNCHANGED <<ctxVars, tcMap, can>>
    /\ UNCHANGED tcFrame

\* The destroy channel is closed.
TimerCDestroyed(c) ==
    /\ Alive
    /\ tc[c] = "run"
    /\ c \in tcClosed
    /\ tc' = [tc EXCEPT ![c] = "remove"]
    /\ UNCHANGED <<ctxVars, tcMap, can, stVars>>
    /\ UNCHANGED tcFrame

\* timerCHandler.Remove, and the goroutine ends.
TimerCRemove(c) ==
    /\ Alive
    /\ tc[c] = "remove"
    /\ tcMap' = tcMap \ {c}
    /\ tc' = [tc EXCEPT ![c] = "end"]
    /\ UNCHANGED <<ctxVars, can, stVars>>
    /\ UNCHANGED tcFrame

--------------------------------------------------------------------------------
(***************************************************************************)
(* The client transaction c: its timers, its destruction, and              *)
(* clientTransactionErrorHandler.                                          *)
(***************************************************************************)
ctFrame == <<goVars, tc, tcMap, updClosed, cancelVars, can, prov, ctMu>>

TimerB(c) ==
    /\ Alive
    /\ ct[c] = "calling"
    /\ ct' = [ct EXCEPT ![c] = "term"]
    /\ err' = [err EXCEPT ![c] = "timeout"]
    /\ UNCHANGED <<ctxVars, callVars, ctTable, teardown, tcClosed, stVars, panic>>
    /\ UNCHANGED ctFrame

TimerD(c) ==
    /\ Alive
    /\ ct[c] = "completed"
    /\ ct' = [ct EXCEPT ![c] = "term"]
    /\ UNCHANGED <<ctxVars, callVars, err, ctTable, teardown, tcClosed, stVars, panic>>
    /\ UNCHANGED ctFrame

\* A bug: Destroy does not wait for the response that is being handled.
MuNotNeeded(c) == TRUE

\* Destroy needs the Mu that Handle holds while the core works.
MuFree(c) == ctMu[c] = Free

CtDestroy(c) ==
    /\ Alive
    /\ ct[c] = "term"
    /\ MuFree(c)
    /\ ct' = [ct EXCEPT ![c] = "dead"]
    /\ teardown' = [teardown EXCEPT ![c] = IF err[c] = "nil" THEN "delete" ELSE "getCtx"]
    /\ UNCHANGED <<ctxVars, callVars, err, ctTable, tcClosed, stVars, panic>>
    /\ UNCHANGED ctFrame

\* GetStFromCt: nothing to do, or stop Timer C.
ErrorGetCtx(c) ==
    /\ Alive
    /\ teardown[c] = "getCtx"
    /\ teardown' = [teardown EXCEPT ![c] = IF ctToSt[c] = NoSt THEN "delete" ELSE "getTimer"]
    /\ UNCHANGED <<ctxVars, callVars, ct, err, ctTable, tcClosed, stVars, panic>>
    /\ UNCHANGED ctFrame

ErrorStopTimerC(c) ==
    /\ Alive
    /\ teardown[c] = "getTimer"
    /\ teardown' = [teardown EXCEPT ![c] = "lookup"]
    /\ tcClosed' = IF c \in tcMap THEN tcClosed \cup {c} ELSE tcClosed
    /\ panic' = IF c \in tcMap /\ c \in tcClosed THEN "closeOfClosed" ELSE panic
    /\ UNCHANGED <<ctxVars, callVars, ct, err, ctTable, stVars>>
    /\ UNCHANGED ctFrame

\* The type assertion on a server transaction that is not found panics.
ErrorLookup(c) ==
    /\ Alive
    /\ teardown[c] = "lookup"
    /\ teardown' = [teardown EXCEPT ![c] = "remove"]
    /\ panic' = IF stTable THEN panic ELSE "nilTransaction"
    /\ UNCHANGED <<ctxVars, callVars, ct, err, ctTable, tcClosed, stVars>>
    /\ UNCHANGED ctFrame

ErrorRemove(c) ==
    /\ Alive
    /\ teardown[c] = "remove"
    /\ Remove(c)
    /\ teardown' = [teardown EXCEPT ![c] = IF LastChild(c) THEN "answer" ELSE "delete"]
    /\ UNCHANGED <<callVars, ct, err, ctTable, tcClosed, stVars, panic>>
    /\ UNCHANGED ctFrame

ErrorAnswer(c) ==
    /\ Alive
    /\ teardown[c] = "answer"
    /\ \/ WriteError /\ teardown' = [teardown EXCEPT ![c] = "errorCall"]
       \/ WriterParks /\ UNCHANGED teardown
    /\ UNCHANGED <<ctxVars, callVars, ct, err, ctTable, tcClosed, panic>>
    /\ UNCHANGED ctFrame

ErrorCloseCall(c) ==
    /\ Alive
    /\ teardown[c] = "errorCall"
    /\ CloseCall
    /\ teardown' = [teardown EXCEPT ![c] = "delete"]
    /\ UNCHANGED <<ctxVars, ct, err, ctTable, tcClosed, stVars, panic>>
    /\ UNCHANGED ctFrame

DeleteClientTransaction(c) ==
    /\ Alive
    /\ teardown[c] = "delete"
    /\ teardown' = [teardown EXCEPT ![c] = "end"]
    /\ ctTable' = ctTable \ {c}
    /\ UNCHANGED <<ctxVars, callVars, ct, err, tcClosed, stVars, panic>>
    /\ UNCHANGED ctFrame

--------------------------------------------------------------------------------
(***************************************************************************)
(* cancelHandler and the CANCEL client transactions.                       *)
(***************************************************************************)
cancelFrame == <<goVars, ctVars, teardown, tcVars>>

\* GetCtFromSt: 481 if there is no context, else 200 and the loop over it.
HandleCancel ==
    /\ Alive
    /\ scenario.cancels
    /\ cancel = "idle"
    /\ cancel' = IF St \in entries THEN "loop" ELSE "noMatch"
    /\ gen' = opened[St]
    /\ UNCHANGED <<ctxVars, callVars, target, visited, can, stVars, panic>>
    /\ UNCHANGED cancelFrame

\* makeErrorResponse of the 481 closes the call with that Call-ID.
CancelNoMatch ==
    /\ Alive
    /\ cancel = "noMatch"
    /\ CloseCall
    /\ cancel' = "end"
    /\ UNCHANGED <<ctxVars, target, visited, gen, can, stVars, panic>>
    /\ UNCHANGED cancelFrame

\* The loop runs over the live map, or over what is left of a dropped one.
CancelNextKey ==
    LET left == IF gen = opened[St] THEN stToCt[St] \ visited ELSE {} IN
    /\ Alive
    /\ cancel = "loop"
    /\ \/ \E c \in left : cancel' = "lookup" /\ target' = c
       \/ left = {} /\ cancel' = "end" /\ UNCHANGED target
    /\ UNCHANGED <<ctxVars, callVars, visited, gen, can, stVars, panic>>
    /\ UNCHANGED cancelFrame

\* Both lookups are asserted to be found; then the CANCEL goes out.
CancelOne ==
    /\ Alive
    /\ cancel = "lookup"
    /\ IF target \in ctTable /\ stTable
       THEN can' = [can EXCEPT ![target]["uac"] = "pending"] /\ UNCHANGED panic
       ELSE panic' = "nilTransaction" /\ UNCHANGED can
    /\ visited' = visited \cup {target}
    /\ cancel' = "loop"
    /\ UNCHANGED <<ctxVars, callVars, target, gen, stVars>>
    /\ UNCHANGED cancelFrame

canFrame == <<goVars, callVars, ctVars, teardown, tcVars, cancelVars, panic>>

\* The CANCEL is answered 2xx, or is refused or times out (error handler).
CancelOutcome(c, k) ==
    /\ Alive
    /\ can[c][k] = "pending"
    /\ \E o \in {"accepted", "close"} : can' = [can EXCEPT ![c][k] = o]
    /\ UNCHANGED <<ctxVars, stVars>>
    /\ UNCHANGED canFrame

CancelClose(c, k) ==
    /\ Alive
    /\ can[c][k] = "close"
    /\ Remove(c)
    /\ can' = [can EXCEPT ![c][k] = IF CloserAnswers(c) THEN "answer" ELSE "end"]
    /\ UNCHANGED stVars
    /\ UNCHANGED canFrame

CancelAnswer(c, k) ==
    /\ Alive
    /\ can[c][k] = "answer"
    /\ \/ WriteError /\ can' = [can EXCEPT ![c][k] = "end"]
       \/ WriterParks /\ UNCHANGED can
    /\ UNCHANGED ctxVars
    /\ UNCHANGED canFrame

--------------------------------------------------------------------------------
(***************************************************************************)
(* The controller of the server transaction.                               *)
(***************************************************************************)
stFrame == <<ctxVars, goVars, callVars, ctVars, teardown, tcVars, cancelVars, can,
             errors, panic>>

\* Nothing came for 200 ms: a 100 Trying of its own is in hand.
Timer100Try ==
    /\ Alive
    /\ stCtl = "trying"
    /\ stCtl' = "provisional"
    /\ UNCHANGED <<stTable, stParked, answer>>
    /\ UNCHANGED stFrame

\* Lock, record, Unlock, and the response goes out.
Transmit ==
    /\ Alive
    /\ stCtl \in InHand
    /\ ~stParked
    /\ IF stCtl = "provisional"
       THEN stCtl' = "proceeding" /\ UNCHANGED answer
       ELSE stCtl' = "answered" /\ answer' = stCtl
    /\ UNCHANGED <<stTable, stParked>>
    /\ UNCHANGED stFrame

ControllerStep == Timer100Try \/ Transmit

(***************************************************************************)
(* Time passes: an answered server transaction is destroyed, for which the *)
(* controller locks Mu, and a closed call state is removed.                *)
(***************************************************************************)
ServerTransactionEnds ==
    /\ Alive
    /\ stCtl = "answered" /\ stTable
    /\ ~stParked
    /\ stTable' = FALSE
    /\ UNCHANGED <<stCtl, stParked, answer>>
    /\ UNCHANGED stFrame

CallRemoved ==
    /\ Alive
    /\ call = "closed"
    /\ call' = "removed"
    /\ UNCHANGED <<ctxVars, goVars, sentRequest, scenario, ctVars, teardown, tcVars,
                   cancelVars, can, stVars, panic>>

--------------------------------------------------------------------------------
Launch(g) ==
    \/ \E c \in CtKeys : AddContext(g, c)
    \/ AddClientTransaction(g) \/ WriteInvite(g) \/ RecordCallee(g)
    \/ StartTimerC(g) \/ ErrorResponse(g) \/ ErrorCall(g)

MainStep == HandleInvite \/ RouteInvite \/ Launch(Main)

PacketStep(p) ==
    \/ HandleLock(p) \/ HandleSend(p) \/ GetCall(p) \/ GetStFromCt(p) \/ LookupSt(p)
    \/ TellTimerC(p) \/ UpdateTimerC(p) \/ RemoveContext(p) \/ RecordFinal(p)
    \/ ForwardResponse(p) \/ HandleReturn(p) \/ Launch(p)

TimerCStep(c) ==
    \/ FireTimerC(c) \/ TimerCCancel(c) \/ TimerCClose(c) \/ TimerCAnswer(c)
    \/ TimerCDestroyed(c) \/ TimerCRemove(c)

CtStep(c) ==
    \/ TimerB(c) \/ TimerD(c) \/ CtDestroy(c) \/ ErrorGetCtx(c) \/ ErrorStopTimerC(c)
    \/ ErrorLookup(c) \/ ErrorRemove(c) \/ ErrorAnswer(c) \/ ErrorCloseCall(c)
    \/ DeleteClientTransaction(c)

CanStep(c, k) == CancelOutcome(c, k) \/ CancelClose(c, k) \/ CancelAnswer(c, k)

CancelStep == CancelNoMatch \/ CancelNextKey \/ CancelOne

Next ==
    \/ MainStep
    \/ \E p \in Packets, c \in CtKeys, m \in AllCodes : ReceiveResponse(p, c, m)
    \/ \E p \in Packets : PacketStep(p)
    \/ \E c \in CtKeys : TimerCStep(c) \/ CtStep(c)
    \/ HandleCancel \/ CancelStep
    \/ \E c \in CtKeys, k \in CancelOf : CanStep(c, k)
    \/ ControllerStep \/ ServerTransactionEnds \/ CallRemoved

Spec == Init /\ [][Next]_vars

(***************************************************************************)
(* Fairness: runnable goroutines run and started timers fire.  No packet   *)
(* ever has to arrive.                                                     *)
(***************************************************************************)
Fairness ==
    /\ WF_vars(MainStep)
    /\ \A p \in Packets : WF_vars(PacketStep(p))
    /\ \A c \in CtKeys : WF_vars(TimerCStep(c)) /\ WF_vars(CtStep(c))
    /\ WF_vars(CancelStep) /\ WF_vars(ControllerStep)
    /\ \A c \in CtKeys, k \in CancelOf : WF_vars(CanStep(c, k))

FairSpec == Spec /\ Fairness

--------------------------------------------------------------------------------
(***************************************************************************)
(* Properties.                                                             *)
(***************************************************************************)

\* The channels of Timer C are closed once and never used after that, though
\* response handler and error handler both close them: the context decides
\* (proxy_response_controller.go 114-130, proxy_request_controller.go
\* 316-333).
TimerCChannelsSafe == panic \notin {"closeOfClosed", "sendOnClosed"}

\* The callee may redirect the call.
Redirects == "moved" \in scenario.codes

\* However Timer C, the CANCEL transactions and the error handler race, the
\* proxy makes up at most one final response itself (proxy_core.go 114-175,
\* proxy_request_controller.go 333-342).  Without redirection.
OneErrorAnswer == Redirects \/ errors <= 1

\* While a client transaction is bound to the server transaction, the latter
\* is in the table: the lookup of clientTransactionErrorHandler finds it
\* (proxy_request_controller.go 317-333).  Without redirection.
BoundServerTransactionExists ==
    Redirects \/ \A c \in CtKeys : ctToSt[c] # NoSt => stTable

\* The callee is silent: no response is on its way, and no CANCEL is accepted.
CalleeSilent ==
    /\ \A p \in Packets : pc[p] = "idle"
    /\ \A c \in CtKeys, k \in CancelOf : can[c][k] # "accepted"

\* The caller has its final response, or the server transaction cannot send
\* one: a writer has parked with its Mu, or a 6xx after a provisional
\* response has ended its controller (transaction.go 66-75, 621-709).
AnsweredOrStuck == answer # "nil" \/ stParked \/ stCtl = "lost"

\* If the callee falls silent, at once or after a provisional response, and
\* the caller does not cancel, the caller still gets a final response, from
\* Timer B, from Timer C, or from the unanswered CANCEL of Timer C
\* (proxy_core.go 160-223, proxy_request_controller.go 316-343).  What is not
\* answered was lost in the server transaction, in one of its two ways, and
\* never by the goroutines of the proxy that race for the context.
SilenceIsAnswered == <>[]CalleeSilent => <>AnsweredOrStuck

\* A failure that follows a provisional response reaches the caller, also
\* around the expiry of Timer C (proxy_response_controller.go 110-142), if
\* the server transaction can still send it.
FinalAfterRinging ==
    \A p \in Packets, c \in CtKeys :
        (pc[p] = "lock" /\ job[p] = c /\ code[p] = "fail" /\ prov[c]) ~> AnsweredOrStuck

\* The proxy never forks: whatever is redirected and whoever cancels, at most
\* one client transaction is bound to the server transaction
\* (proxy_response_controller.go 8-64, 124-142).
NeverForks == \A c, d \in CtKeys : {c, d} \subseteq stToCt[St] => c = d

\* A 3xx finds no SentRequest only if it outran the goroutine that sent the
\* INVITE and records the callee after that, or if the call was closed in
\* between (proxy_response_controller.go 8-23, proxy_request_controller.go
\* 97-102): once the callee of an open call is recorded, a redirection never
\* trips over a nil request.
RedirectionFindsRequest ==
    panic = "nilRequest" => pc[Main] = "callee" \/ call # "open"

\* A CANCEL that crosses the answer of the callee is handled: when the answer
\* is out, cancelHandler does not trip over a transaction that it asserts to
\* be found (proxy_request_controller.go 258-269).
CancelCrossingIsHandled == answer = "ok" /\ cancel = "loop" => panic # "nilTransaction"

================================================================================

-------------------------- MODULE InviteProxying_proofs ------------------------
(***************************************************************************)
(* The proxy core keeps to the protocol of the response contexts, for any  *)
(* number of packets, branches and scenarios; what is established of that  *)
(* protocol first therefore holds of the proxy.  The last part proves what *)
(* the proxy does with it: Timer C, redirection, answers.                  *)
(***************************************************************************)
EXTENDS InviteProxying, TLAPS

--------------------------------------------------------------------------------
(***************************************************************************)
(* The response contexts, for any number of transactions.                  *)
(***************************************************************************)
CtxInv == CtxTypeOK /\ MapsInverse /\ ReportedExactlyOnce

\* Adding a fresh client transaction keeps the maps inverse and the account of
\* open contexts (proxy_core.go 99-112).
LEMMA AddStep ==
  ASSUME CtxInv, NEW st \in StKeys, NEW c \in CtKeys \ used, Add(st, c)
  PROVE  CtxInv'
<1> USE NoStAssumption DEF CtxInv, Add
<1>1. CtxTypeOK'
  BY DEF CtxTypeOK
<1>2. ctToSt[c] = NoSt
  BY DEF MapsInverse, CtxTypeOK
<1>3. MapsInverse'
  BY <1>2 DEF MapsInverse, CtxTypeOK
<1>4. ReportedExactlyOnce'
  BY DEF ReportedExactlyOnce, CtxTypeOK
<1> QED
  BY <1>1, <1>3, <1>4

\* Removing a client transaction keeps the maps inverse and reports its server
\* transaction exactly when the last one goes (proxy_core.go 114-137).
LEMMA RemoveStep ==
  ASSUME CtxInv, NEW c \in CtKeys, Remove(c)
  PROVE  CtxInv'
<1>1. CASE ctToSt[c] = NoSt
  BY <1>1 DEF CtxInv, Remove, ctxVars, CtxTypeOK, MapsInverse, ReportedExactlyOnce
<1>2. CASE ctToSt[c] # NoSt
  <2> DEFINE s == ctToSt[c]
  <2>1. s \in StKeys
    BY <1>2 DEF CtxInv, CtxTypeOK
  <2>2. /\ ctToSt' = [ctToSt EXCEPT ![c] = NoSt]
        /\ stToCt' = [stToCt EXCEPT ![s] = @ \ {c}]
        /\ entries' = IF LastChild(c) THEN entries \ {s} ELSE entries
        /\ reported' = [reported EXCEPT ![s] = IF LastChild(c) THEN @ + 1 ELSE @]
        /\ UNCHANGED <<used, opened>>
    BY <1>2 DEF Remove
  <2>3. LastChild(c) <=> stToCt[s] \ {c} = {}
    BY <1>2 DEF LastChild
  <2>4. s \in entries
    BY <1>2, <2>1 DEF CtxInv, MapsInverse
  <2> HIDE DEF s
  <2>5. CtxTypeOK'
    BY <2>1, <2>2 DEF CtxInv, CtxTypeOK
  <2>6. MapsInverse'
    <3>1. s = ctToSt[c]
      BY DEF s
    <3> QED
      BY <2>1, <2>2, <2>3, <3>1, NoStAssumption DEF CtxInv, CtxTypeOK, MapsInverse
  <2>7. ReportedExactlyOnce'
    BY <2>1, <2>2, <2>4 DEF CtxInv, CtxTypeOK, ReportedExactlyOnce
  <2> QED
    BY <2>5, <2>6, <2>7 DEF CtxInv
<1> QED
  BY <1>1, <1>2

\* The invariant of the response contexts is inductive.
LEMMA CtxInvariance == CtxSpec => []CtxInv
<1>1. CtxInit => CtxInv
  BY NoStAssumption DEF CtxInit, CtxInv, CtxTypeOK, MapsInverse, ReportedExactlyOnce
<1>2. CtxInv /\ [CtxNext]_ctxVars => CtxInv'
  <2>1. CtxInv /\ UNCHANGED ctxVars => CtxInv'
    BY DEF CtxInv, CtxTypeOK, MapsInverse, ReportedExactlyOnce, ctxVars
  <2> QED
    BY <2>1, AddStep, RemoveStep DEF CtxNext
<1> QED
  BY <1>1, <1>2, PTL DEF CtxSpec

\* GetStFromCt and GetCtFromSt always agree, for any number of keys.
THEOREM ContextsInverse == CtxSpec => []MapsInverse
<1>1. CtxInv => MapsInverse
  BY DEF CtxInv
<1> QED
  BY CtxInvariance, <1>1, PTL

\* Exactly one of the racing removers of a context is told to answer.
THEOREM ContextsReported == CtxSpec => []ReportedExactlyOnce
<1>1. CtxInv => ReportedExactlyOnce
  BY DEF CtxInv
<1> QED
  BY CtxInvariance, <1>1, PTL

--------------------------------------------------------------------------------
(***************************************************************************)
(* The proxy core.                                                         *)
(***************************************************************************)

\* What Remove is called with: a goroutine that handles a response has a
\* client transaction in hand.
JobInv ==
    /\ pc \in [Launchers -> Places]
    /\ job \in [Launchers -> CtKeys \cup {NoCt}]
    /\ \A p \in Packets : pc[p] # "idle" => job[p] \in CtKeys

--------------------------------------------------------------------------------
\* Add is given a branch that was never used (proxy_request_controller.go
\* 84-102, proxy_response_controller.go 30-45).
LEMMA LaunchKeepsProtocol ==
  ASSUME NEW g \in Launchers, Launch(g)
  PROVE  CtxNext \/ UNCHANGED ctxVars
<1>1. ASSUME NEW c \in CtKeys, AddContext(g, c)
      PROVE  CtxNext
  BY <1>1, StAssumption DEF AddContext, CtxNext
<1> QED
  BY <1>1 DEF Launch, AddClientTransaction, WriteInvite, RecordCallee,
              StartTimerC, ErrorResponse, ErrorCall

\* The goroutine of a response packet removes what it holds
\* (proxy_response_controller.go 110-142).
LEMMA PacketKeepsProtocol ==
  ASSUME JobInv, NEW p \in Packets, PacketStep(p)
  PROVE  CtxNext \/ UNCHANGED ctxVars
<1>1. CASE Launch(p)
  BY <1>1, LaunchKeepsProtocol DEF Launchers
<1>2. CASE RemoveContext(p)
  BY <1>2 DEF RemoveContext, JobInv, CtxNext
<1> QED
  BY <1>1, <1>2 DEF PacketStep, HandleLock, HandleSend, Guarded, GetCall,
      GetStFromCt, LookupSt, TellTimerC, UpdateTimerC, RecordFinal,
      ForwardResponse, HandleReturn

\* Timer C, the error handler and the CANCEL transactions remove their own
\* client transaction (proxy_core.go 160-223, proxy_request_controller.go
\* 316-343).
LEMMA TransactionKeepsProtocol ==
  ASSUME NEW c \in CtKeys,
         TimerCStep(c) \/ CtStep(c) \/ \E k \in CancelOf : CanStep(c, k)
  PROVE  CtxNext \/ UNCHANGED ctxVars
<1>1. CASE TimerCStep(c)
  BY <1>1 DEF TimerCStep, FireTimerC, TimerCCancel, TimerCClose, TimerCAnswer,
      TimerCDestroyed, TimerCRemove, CtxNext
<1>2. CASE CtStep(c)
  BY <1>2 DEF CtStep, TimerB, TimerD, CtDestroy, ErrorGetCtx, ErrorStopTimerC,
      ErrorLookup, ErrorRemove, ErrorAnswer, ErrorCloseCall,
      DeleteClientTransaction, CtxNext
<1>3. ASSUME NEW k \in CancelOf, CanStep(c, k)
      PROVE  CtxNext \/ UNCHANGED ctxVars
  BY <1>3 DEF CanStep, CancelOutcome, CancelClose, CancelAnswer, CtxNext
<1> QED
  BY <1>1, <1>2, <1>3

\* Every step of the proxy is a step of the response contexts, or none.
LEMMA StepKeepsProtocol ==
  ASSUME JobInv, [Next]_vars
  PROVE  [CtxNext]_ctxVars
<1>1. CASE UNCHANGED vars
  BY <1>1 DEF vars
<1>2. CASE MainStep
  <2>1. Main \in Launchers
    BY DEF Launchers
  <2> QED
    BY <1>2, <2>1, LaunchKeepsProtocol DEF MainStep, HandleInvite, RouteInvite
<1>3. ASSUME NEW p \in Packets, NEW c \in CtKeys, NEW m \in AllCodes,
             ReceiveResponse(p, c, m)
      PROVE  UNCHANGED ctxVars
  BY <1>3 DEF ReceiveResponse
<1>4. CASE HandleCancel \/ CancelStep \/ ControllerStep \/ ServerTransactionEnds
             \/ CallRemoved
  BY <1>4 DEF HandleCancel, CancelStep, CancelNoMatch, CancelNextKey, CancelOne,
      ControllerStep, Timer100Try, Transmit, ServerTransactionEnds, CallRemoved, stFrame
<1> QED
  BY <1>1, <1>2, <1>3, <1>4, PacketKeepsProtocol, TransactionKeepsProtocol
  DEF Next

--------------------------------------------------------------------------------
\* A packet goroutine has a client transaction in hand until it is idle again.
LEMMA JobInvariance ==
  ASSUME JobInv, [Next]_vars
  PROVE  JobInv'
<1> USE DEF JobInv
<1>0. Main \in Launchers /\ Packets \subseteq Launchers /\ Main \notin Packets
  BY NamesAssumption DEF Launchers
<1>1. ASSUME NEW g \in Launchers, Launch(g)
      PROVE  JobInv'
  <2>1. ASSUME NEW c \in CtKeys, AddContext(g, c)
        PROVE  JobInv'
    BY <1>0, <2>1 DEF AddContext, Go, Places
  <2>2. ASSUME UNCHANGED job, pc[g] # "idle", NEW to \in Places, Go(g, to)
        PROVE  JobInv'
    BY <1>0, <2>2 DEF Go
  <2>3. CASE AddClientTransaction(g)
    BY <2>2, <2>3 DEF AddClientTransaction, Places
  <2>4. CASE WriteInvite(g)
    BY <2>2, <2>4 DEF WriteInvite, Places
  <2>5. CASE RecordCallee(g)
    BY <2>2, <2>5 DEF RecordCallee, Places
  <2>6. CASE StartTimerC(g)
    BY <2>2, <2>6 DEF StartTimerC, Places
  <2>7. CASE ErrorResponse(g)
    <3>1. CASE UNCHANGED pc
      BY <2>7, <3>1 DEF ErrorResponse
    <3> QED
      BY <2>2, <2>7, <3>1 DEF ErrorResponse, Places
  <2>8. CASE ErrorCall(g)
    BY <2>2, <2>8 DEF ErrorCall, Places
  <2> QED
    BY <1>1, <2>1, <2>3, <2>4, <2>5, <2>6, <2>7, <2>8 DEF Launch
<1>2. CASE MainStep
  <2>1. CASE HandleInvite
    BY <1>0, <2>1 DEF HandleInvite, Go, Places
  <2>2. CASE RouteInvite
    BY <1>0, <2>2 DEF RouteInvite, Go, Places
  <2> QED
    BY <1>0, <1>1, <1>2, <2>1, <2>2 DEF MainStep
<1>3. ASSUME NEW p \in Packets, NEW c \in CtKeys, NEW m \in AllCodes,
             ReceiveResponse(p, c, m)
      PROVE  JobInv'
  BY <1>0, <1>3 DEF ReceiveResponse, Go, Places
<1>4. ASSUME NEW p \in Packets, PacketStep(p)
      PROVE  JobInv'
  <2>1. ASSUME UNCHANGED job, pc[p] # "idle", NEW to \in Places, Go(p, to)
        PROVE  JobInv'
    BY <1>0, <2>1 DEF Go
  <2>2. CASE HandleLock(p)
    BY <2>1, <2>2 DEF HandleLock, Places
  <2>3. CASE HandleSend(p)
    BY <2>1, <2>3 DEF HandleSend, Places
  <2>4. CASE GetCall(p) \/ GetStFromCt(p) \/ LookupSt(p)
    BY <2>1, <2>4 DEF GetCall, GetStFromCt, LookupSt, Guarded, Places
  <2>5. CASE TellTimerC(p)
    BY <2>1, <2>5 DEF TellTimerC, Places
  <2>6. CASE UpdateTimerC(p)
    <3>1. CASE UNCHANGED pc
      BY <2>6, <3>1 DEF UpdateTimerC
    <3> QED
      BY <2>1, <2>6, <3>1 DEF UpdateTimerC, Places
  <2>7. CASE RemoveContext(p)
    BY <2>1, <2>7 DEF RemoveContext, Places
  <2>8. CASE RecordFinal(p)
    <3>1. CASE UNCHANGED pc
      BY <2>8, <3>1 DEF RecordFinal
    <3> QED
      BY <2>1, <2>8, <3>1 DEF RecordFinal, Places
  <2>9. CASE ForwardResponse(p)
    <3>1. CASE UNCHANGED pc
      BY <2>9, <3>1 DEF ForwardResponse
    <3> QED
      BY <2>1, <2>9, <3>1 DEF ForwardResponse, Places
  <2>10. CASE HandleReturn(p)
    BY <1>0, <2>10 DEF HandleReturn, Places
  <2> QED
    BY <1>0, <1>1, <1>4, <2>2, <2>3, <2>4, <2>5, <2>6, <2>7, <2>8, <2>9, <2>10
    DEF PacketStep
<1>5. ASSUME UNCHANGED goVars
      PROVE  JobInv'
  BY <1>5 DEF goVars
<1>6. ASSUME NEW c \in CtKeys, TimerCStep(c) \/ CtStep(c)
      PROVE  UNCHANGED goVars
  <2>1. CASE TimerCStep(c)
    BY <2>1 DEF TimerCStep, FireTimerC, TimerCCancel, TimerCClose, TimerCAnswer,
        TimerCDestroyed, TimerCRemove, tcFrame
  <2>2. CASE CtStep(c)
    BY <2>2 DEF CtStep, TimerB, TimerD, CtDestroy, ErrorGetCtx, ErrorStopTimerC,
        ErrorLookup, ErrorRemove, ErrorAnswer, ErrorCloseCall,
        DeleteClientTransaction, ctFrame
  <2> QED
    BY <1>6, <2>1, <2>2
<1>7. ASSUME NEW c \in CtKeys, NEW k \in CancelOf, CanStep(c, k)
      PROVE  UNCHANGED goVars
  BY <1>7 DEF CanStep, CancelOutcome, CancelClose, CancelAnswer, canFrame
<1>8. CASE HandleCancel \/ CancelStep \/ ControllerStep \/ ServerTransactionEnds
             \/ CallRemoved
  <2>1. UNCHANGED goVars
    BY <1>8 DEF HandleCancel, CancelStep, CancelNoMatch, CancelNextKey, CancelOne,
        ControllerStep, Timer100Try, Transmit, ServerTransactionEnds, CallRemoved,
        cancelFrame, stFrame
  <2> QED
    BY <1>5, <2>1
<1>9. CASE UNCHANGED vars
  BY <1>5, <1>9 DEF vars, proxyVars
<1> HIDE DEF JobInv
<1> QED
  BY <1>2, <1>3, <1>4, <1>5, <1>6, <1>7, <1>8, <1>9 DEF Next

--------------------------------------------------------------------------------
\* Whatever the goroutines of the proxy do, and in whatever order, the response
\* contexts see nothing but Add of fresh branches and Remove
\* (proxy_core.go 79-137).
LEMMA ProxyFollowsContexts == Spec => CtxSpec
<1>1. Init => CtxInit /\ JobInv
  BY NamesAssumption DEF Init, JobInv, Launchers, Places
<1>2. JobInv /\ [Next]_vars => JobInv' /\ [CtxNext]_ctxVars
  BY JobInvariance, StepKeepsProtocol
<1> QED
  BY <1>1, <1>2, PTL DEF Spec, CtxSpec

\* In the running proxy GetStFromCt and GetCtFromSt agree
\* (proxy_core.go 85-137).
THEOREM ProxyMapsInverse == Spec => []MapsInverse
  BY ProxyFollowsContexts, ContextsInverse, PTL

\* In the running proxy exactly one of the goroutines that race to close a
\* context is told to answer (proxy_core.go 114-137).
THEOREM ProxyReportsOnce == Spec => []ReportedExactlyOnce
  BY ProxyFollowsContexts, ContextsReported, PTL

--------------------------------------------------------------------------------
(***************************************************************************)
(* The inductive invariant of the proxy core, in layers.                   *)
(***************************************************************************)

MainPlaces == {"start", "route", "ctx", "table", "write", "callee", "timer",
               "error", "errorCall", "end"}

PacketPlaces == Places \ {"start", "route", "end"}

\* Where Main has opened no client transaction, and where it has not sent the
\* INVITE yet.
Unopened == {"start", "route", "ctx", "error", "errorCall"}
Unsent   == Unopened \cup {"table", "write"}

\* Where a launcher has a new client transaction in hand.
Launching == {"table", "write", "callee", "timer"}

\* What exists belongs to a branch that was generated, and a response is only
\* handled once the INVITE is out.
OriginInv ==
    /\ pc[Main] \in MainPlaces
    /\ pc[Main] \in Unopened => used = {}
    /\ pc[Main] \in Unsent => \A c \in CtKeys : ct[c] \in {"none", "new"}
    /\ pc[Main] \in Unsent => \A p \in Packets : pc[p] = "idle"
    /\ pc[Main] \in Launching => job[Main] \in used
    /\ \A p \in Packets : /\ pc[p] \in PacketPlaces
                          /\ pc[p] # "idle" => job[p] \in used /\ code[p] \in scenario.codes
                          /\ pc[p] = "update" => code[p] = "ringing"
                          /\ pc[p] = "forward" => code[p] # "moved"
    /\ \A c \in CtKeys \ used : /\ ct[c] = "none"
                                /\ teardown[c] = "none"
                                /\ tc[c] = "none"
                                /\ c \notin tcClosed \cup updClosed
                                /\ \A k \in CancelOf : can[c][k] = "none"
    /\ cancel = "lookup" => target \in used

\* A client transaction is launched by one goroutine.
LaunchInv ==
    /\ \A g \in Launchers : pc[g] \in {"table", "write"} => ct[job[g]] = "new"
    /\ \A g \in Launchers : pc[g] = "write" => job[g] \in ctTable
    /\ \A g, h \in Launchers :
          pc[g] \in Launching /\ pc[h] \in Launching /\ job[g] = job[h] => g = h
    /\ \A c \in CtKeys : \/ c \in ctTable
                         \/ ct[c] \in {"none", "new"}
                         \/ teardown[c] = "end"
    /\ \A c \in CtKeys : ct[c] = "dead" <=> teardown[c] # "none"

\* Where a packet goroutine works on the response it carries.
Handling == {"getCall", "getCtx", "lookup", "getTimer", "update", "remove",
             "record", "ctx"}

\* A response is handled under the Mu of its client transaction, or after the
\* client transaction has left the table.
LockInv ==
    /\ \A p \in Packets : pc[p] = "send" => ctMu[job[p]] = p
    /\ \A p \in Packets :
          pc[p] \in Handling => ctMu[job[p]] = p \/ teardown[job[p]] = "end"
    /\ \A p \in Packets, c \in CtKeys :
          ctMu[c] = p => /\ pc[p] \notin {"idle", "lock"}
                         /\ pc[p] \in Handling \cup {"send"} => job[p] = c
    /\ \A c \in CtKeys : ct[c] = "dead" => ctMu[c] = Free

Bound(c) == ctToSt[c] # NoSt

\* No response of c will ever reach Timer C or the context again.
Settled(c) == ~Bound(c) \/ call = "removed" \/ ~stTable

\* A final response of c is being handled.
Busy(c) ==
    \E p \in Packets :
        /\ ctMu[c] = p
        /\ job[p] = c
        /\ pc[p] \in {"getCall", "getCtx", "lookup", "getTimer", "remove"}
        /\ IsFinal(code[p])

\* When a client transaction has gone, its context is closed, or nobody asks
\* for it any more.
SettledInv ==
    /\ call = "none" => pc[Main] = "start"
    /\ \A c \in CtKeys : err[c] = "timeout" => ct[c] \in {"term", "dead"}
    /\ \A c \in CtKeys :
          ct[c] \in {"completed", "term"} /\ err[c] # "timeout" => Settled(c) \/ Busy(c)
    /\ \A c \in CtKeys :
          teardown[c] \in {"answer", "errorCall", "delete", "end"} => Settled(c)
    /\ \A p \in Packets : pc[p] \in Handling /\ teardown[job[p]] = "end" =>
          /\ pc[p] = "getCtx" => ~Bound(job[p]) \/ ~stTable
          /\ pc[p] = "lookup" => ~stTable
          /\ pc[p] \notin {"getTimer", "update", "remove", "record", "ctx"}

\* Whoever closes the channels of Timer C closes the context next, and nobody
\* else is about to use them.
ChannelInv ==
    /\ \A c \in tcClosed \cup updClosed :
          \/ ~Bound(c)
          \/ teardown[c] \in {"lookup", "remove"}
          \/ \E p \in Packets : pc[p] = "remove" /\ job[p] = c /\ ctMu[c] = p
    /\ \A p \in Packets :
          pc[p] \in {"lookup", "getTimer", "update"} /\ ctMu[job[p]] = p
             => job[p] \notin tcClosed \cup updClosed
    /\ \A c \in CtKeys : teardown[c] = "getTimer" => c \notin tcClosed
    /\ TimerCChannelsSafe

\* The right to have a client transaction bound: c has it, or the goroutine
\* that is handling a response of c.
Late == {"lookup", "getTimer", "update", "remove", "record", "ctx"}

Carries(c) ==
    \/ Bound(c)
    \/ \E p \in Packets : pc[p] \in Late /\ job[p] = c /\ ctMu[c] = p

ForkInv ==
    /\ \A c, d \in CtKeys : Carries(c) /\ Carries(d) => c = d
    /\ \A p \in Packets : pc[p] \in {"record", "ctx"} => ~Bound(job[p])

\* The callee of an open call is recorded by the time Timer C is started.
RequestInv ==
    /\ pc[Main] \in {"timer", "end"} => sentRequest \/ call # "open"
    /\ RedirectionFindsRequest

\* Who owes an answer for c: Timer C, the error handler or a CANCEL.
Owners == {"timer", "error"} \cup CancelOf

Owes(o, c) ==
    \/ o = "timer" /\ tc[c] = "answer"
    \/ o = "error" /\ teardown[c] = "answer"
    \/ o \in CancelOf /\ can[c][o] = "answer"

\* The context is closed for good.
Done == pc[Main] \notin {"start", "route", "ctx"} /\ \A c \in CtKeys : ~Bound(c)

\* A final response is on its way to the caller.
FinalSent == stCtl \in {"ok", "fail", "error", "answered"}

\* Without redirection there is one client transaction, its context is closed
\* once, and whoever closed it is the only one to answer.
AnswerInv ==
    Redirects \/
    /\ \A p \in Packets : pc[p] \notin Launching \cup {"ctx", "error", "errorCall"}
    /\ \A c, d \in used : c = d
    /\ pc[Main] \in {"start", "route", "ctx", "error"} => errors = 0
    /\ \A o, q \in Owners, c, d \in CtKeys : Owes(o, c) /\ Owes(q, d) => o = q /\ c = d
    /\ errors \in {0, 1}
    /\ errors = 1 => \A o \in Owners, c \in CtKeys : ~Owes(o, c)
    /\ \A o \in Owners, c \in CtKeys : Owes(o, c) => Done
    /\ errors = 1 \/ FinalSent => Done
    /\ \A p \in Packets : pc[p] \in {"record", "forward"} /\ IsFinal(code[p]) => Done
    /\ ~stTable => stCtl = "answered"

--------------------------------------------------------------------------------
(***************************************************************************)
(* Every step keeps every layer.                                           *)
(***************************************************************************)
\* The types are kept; a redirection is never forwarded as the final answer.
LEMMA TypeStep ==
  ASSUME CtxInv, TypeOK, OriginInv, [Next]_vars
  PROVE  TypeOK'
<1> USE NamesAssumption, StAssumption, NoStAssumption
    DEF TypeOK, CtxInv, CtxTypeOK, Places, Alive, AllCodes, CancelOf, ctxVars, goVars,
        callVars, ctVars, tcVars, cancelVars, stVars, InHand
<1>0. Main \in Launchers /\ Packets \subseteq Launchers /\ Main \notin Packets
  BY NamesAssumption DEF Launchers
<1>a. /\ \A g \in Launchers : pc[g] \in Launching => job[g] \in CtKeys
      /\ \A p \in Packets : pc[p] # "idle" => job[p] \in CtKeys
      /\ \A p \in Packets : pc[p] = "forward" => code[p] # "moved"
      /\ cancel = "lookup" => target \in CtKeys
  BY DEF OriginInv, Launching, Launchers
<1>b. WriteError \/ WriterParks =>
         /\ stTable' \in BOOLEAN /\ stParked' \in BOOLEAN /\ errors' \in Nat
         /\ stCtl' \in {"trying", "proceeding", "answered", "lost"} \cup InHand
         /\ answer' \in {"nil", "ok", "fail", "error"}
  <2>1. Hand("error") = "error"
    BY DEF Hand
  <2>2. errors \in Nat => errors + 1 \in Nat
    OBVIOUS
  <2>3. WriteError => errors' \in Nat
    BY <2>2 DEF WriteError
  <2> QED
    BY <2>1, <2>3 DEF WriteError, HandOver, WriterParks
<1>1. ASSUME NEW g \in Launchers, NEW c \in CtKeys, AddContext(g, c)
      PROVE  TypeOK'
  BY <1>0, <1>a, <1>1 DEF AddContext, Add, Go
<1>2. ASSUME NEW g \in Launchers, AddClientTransaction(g)
      PROVE  TypeOK'
  BY <1>0, <1>a, <1>2 DEF Launching, AddClientTransaction, Go
<1>3. ASSUME NEW g \in Launchers, WriteInvite(g)
      PROVE  TypeOK'
  BY <1>0, <1>a, <1>3 DEF Launching, WriteInvite, Go
<1>4. ASSUME NEW g \in Launchers, RecordCallee(g)
      PROVE  TypeOK'
  BY <1>0, <1>a, <1>4 DEF Launching, RecordCallee, Go
<1>5. ASSUME NEW g \in Launchers, StartTimerC(g)
      PROVE  TypeOK'
  BY <1>0, <1>a, <1>5 DEF Launching, StartTimerC, Go
<1>6. ASSUME NEW g \in Launchers, ErrorResponse(g)
      PROVE  TypeOK'
  BY <1>0, <1>a, <1>b, <1>6 DEF ErrorResponse, Go
<1>7. ASSUME NEW g \in Launchers, ErrorCall(g)
      PROVE  TypeOK'
  BY <1>0, <1>a, <1>7 DEF ErrorCall, CloseCall, Go
<1>8. CASE HandleInvite
  BY <1>0, <1>a, <1>8 DEF HandleInvite, Go
<1>9. CASE RouteInvite
  <2>1. pc' \in [Launchers -> Places]
    BY <1>0, <1>9 DEF RouteInvite, Go
  <2> QED
    BY <2>1, <1>9 DEF RouteInvite
<1>10. ASSUME NEW p \in Packets, NEW c \in CtKeys, NEW m \in AllCodes, ReceiveResponse(p, c, m)
      PROVE  TypeOK'
  BY <1>0, <1>a, <1>10 DEF ReceiveResponse, Go
<1>11. ASSUME NEW p \in Packets, HandleLock(p)
      PROVE  TypeOK'
  <2>1. pc' \in [Launchers -> Places] /\ ctMu' \in [CtKeys -> Packets \cup {Free}]
    BY <1>0, <1>a, <1>11 DEF HandleLock, Go
  <2> QED
    BY <2>1, <1>11 DEF HandleLock
<1>12. ASSUME NEW p \in Packets, HandleSend(p)
      PROVE  TypeOK'
  BY <1>0, <1>a, <1>12 DEF HandleSend, Go
<1>13. ASSUME NEW p \in Packets, GetCall(p)
      PROVE  TypeOK'
  BY <1>0, <1>a, <1>13 DEF GetCall, Guarded, Go
<1>14. ASSUME NEW p \in Packets, GetStFromCt(p)
      PROVE  TypeOK'
  BY <1>0, <1>a, <1>14 DEF GetStFromCt, Guarded, Go
<1>15. ASSUME NEW p \in Packets, LookupSt(p)
      PROVE  TypeOK'
  BY <1>0, <1>a, <1>15 DEF LookupSt, Guarded, Go
<1>16. ASSUME NEW p \in Packets, TellTimerC(p)
      PROVE  TypeOK'
  <2>a. PICK to \in {"return", "update", "forward", "remove"} : Go(p, to)
    BY <1>16 DEF TellTimerC
  <2>1. pc' \in [Launchers -> Places]
    BY <1>0, <2>a DEF Go
  <2>2. tcClosed' \cup updClosed' \subseteq CtKeys /\ panic' \in {panic, "closeOfClosed"}
    BY <1>a, <1>16 DEF TellTimerC
  <2> QED
    BY <2>1, <2>2, <1>16 DEF TellTimerC
<1>17. ASSUME NEW p \in Packets, UpdateTimerC(p)
      PROVE  TypeOK'
  BY <1>0, <1>a, <1>17 DEF UpdateTimerC, Go
<1>18. ASSUME NEW p \in Packets, RemoveContext(p)
      PROVE  TypeOK'
  BY <1>0, <1>a, <1>18 DEF RemoveContext, Remove, LastChild, Go
<1>19. ASSUME NEW p \in Packets, RecordFinal(p)
      PROVE  TypeOK'
  BY <1>0, <1>a, <1>19 DEF RecordFinal, CloseCall, Go
<1>20. ASSUME NEW p \in Packets, ForwardResponse(p)
      PROVE  TypeOK'
  <2>1. code[p] \in {"trying", "ringing", "ok", "fail", "refused"}
    BY <1>0, <1>a, <1>20, ScenariosAssumption DEF ForwardResponse, OriginInv
  <2>2. WriteForwarded(code[p]) =>
           /\ stTable' \in BOOLEAN /\ stParked' \in BOOLEAN /\ errors' \in Nat
           /\ stCtl' \in {"trying", "proceeding", "answered", "lost"} \cup InHand
           /\ answer' \in {"nil", "ok", "fail", "error"}
    <3>1. Hand(code[p]) \in {"trying", "provisional", "ok", "fail"}
      BY <2>1 DEF Hand
    <3> QED
      BY <3>1 DEF WriteForwarded, HandOver
  <2>3. pc' \in [Launchers -> Places]
    BY <1>0, <1>20 DEF ForwardResponse, Go
  <2> QED
    BY <1>b, <1>20, <2>2, <2>3 DEF ForwardResponse
<1>21. ASSUME NEW p \in Packets, HandleReturn(p)
      PROVE  TypeOK'
  BY <1>0, <1>a, <1>21 DEF HandleReturn
<1>22. ASSUME NEW c \in CtKeys, FireTimerC(c)
      PROVE  TypeOK'
  BY <1>0, <1>a, <1>22 DEF FireTimerC, tcFrame
<1>23. ASSUME NEW c \in CtKeys, TimerCCancel(c)
      PROVE  TypeOK'
  BY <1>0, <1>a, <1>23 DEF TimerCCancel, tcFrame
<1>24. ASSUME NEW c \in CtKeys, TimerCClose(c)
      PROVE  TypeOK'
  BY <1>0, <1>a, <1>24 DEF TimerCClose, tcFrame, Remove, CloserAnswers, LastChild
<1>25. ASSUME NEW c \in CtKeys, TimerCAnswer(c)
      PROVE  TypeOK'
  BY <1>0, <1>a, <1>b, <1>25 DEF TimerCAnswer, tcFrame
<1>26. ASSUME NEW c \in CtKeys, TimerCDestroyed(c)
      PROVE  TypeOK'
  BY <1>0, <1>a, <1>26 DEF TimerCDestroyed, tcFrame
<1>27. ASSUME NEW c \in CtKeys, TimerCRemove(c)
      PROVE  TypeOK'
  BY <1>0, <1>a, <1>27 DEF TimerCRemove, tcFrame
<1>28. ASSUME NEW c \in CtKeys, TimerB(c)
      PROVE  TypeOK'
  BY <1>0, <1>a, <1>28 DEF TimerB, ctFrame
<1>29. ASSUME NEW c \in CtKeys, TimerD(c)
      PROVE  TypeOK'
  BY <1>0, <1>a, <1>29 DEF TimerD, ctFrame
<1>30. ASSUME NEW c \in CtKeys, CtDestroy(c)
      PROVE  TypeOK'
  BY <1>0, <1>a, <1>30 DEF CtDestroy, ctFrame, MuFree
<1>31. ASSUME NEW c \in CtKeys, ErrorGetCtx(c)
      PROVE  TypeOK'
  BY <1>0, <1>a, <1>31 DEF ErrorGetCtx, ctFrame
<1>32. ASSUME NEW c \in CtKeys, ErrorStopTimerC(c)
      PROVE  TypeOK'
  BY <1>0, <1>a, <1>32 DEF ErrorStopTimerC, ctFrame
<1>33. ASSUME NEW c \in CtKeys, ErrorLookup(c)
      PROVE  TypeOK'
  BY <1>0, <1>a, <1>33 DEF ErrorLookup, ctFrame
<1>34. ASSUME NEW c \in CtKeys, ErrorRemove(c)
      PROVE  TypeOK'
  <2>1. CtxTypeOK'
    BY <1>34 DEF ErrorRemove, Remove, LastChild
  <2>2. teardown' \in [CtKeys -> {"none", "getCtx", "getTimer", "lookup", "remove",
                                  "answer", "errorCall", "delete", "end"}]
    BY <1>34 DEF ErrorRemove
  <2> QED
    BY <1>34, <2>1, <2>2 DEF ErrorRemove, ctFrame
<1>35. ASSUME NEW c \in CtKeys, ErrorAnswer(c)
      PROVE  TypeOK'
  BY <1>0, <1>a, <1>b, <1>35 DEF ErrorAnswer, ctFrame
<1>36. ASSUME NEW c \in CtKeys, ErrorCloseCall(c)
      PROVE  TypeOK'
  BY <1>0, <1>a, <1>36 DEF ErrorCloseCall, ctFrame, CloseCall
<1>37. ASSUME NEW c \in CtKeys, DeleteClientTransaction(c)
      PROVE  TypeOK'
  BY <1>0, <1>a, <1>37 DEF DeleteClientTransaction, ctFrame
<1>38. CASE HandleCancel
  BY <1>0, <1>a, <1>38 DEF HandleCancel, cancelFrame
<1>39. CASE CancelNoMatch
  BY <1>0, <1>a, <1>39 DEF CancelNoMatch, cancelFrame, CloseCall
<1>40. CASE CancelNextKey
  BY <1>0, <1>a, <1>40 DEF CancelNextKey, cancelFrame
<1>41. CASE CancelOne
  <2>1. can' \in [CtKeys -> [CancelOf -> {"none", "pending", "accepted", "close", "answer", "end"}]]
    <3>1. CASE UNCHANGED can
      BY <3>1
    <3>2. CASE can' = [can EXCEPT ![target]["uac"] = "pending"]
      BY <1>a, <1>41, <3>2 DEF CancelOne
    <3> QED
      BY <1>41, <3>1, <3>2 DEF CancelOne
  <2>2. visited' \subseteq CtKeys /\ panic' \in {panic, "nilTransaction"}
    BY <1>a, <1>41 DEF CancelOne
  <2> QED
    BY <2>1, <2>2, <1>41 DEF CancelOne, cancelFrame
<1>42. ASSUME NEW c \in CtKeys, NEW k \in CancelOf, CancelOutcome(c, k)
      PROVE  TypeOK'
  BY <1>0, <1>a, <1>42 DEF CancelOutcome, canFrame
<1>43. ASSUME NEW c \in CtKeys, NEW k \in CancelOf, CancelClose(c, k)
      PROVE  TypeOK'
  <2>1. CtxTypeOK'
    BY <1>43 DEF CancelClose, Remove, LastChild
  <2>2. can' \in [CtKeys -> [CancelOf -> {"none", "pending", "accepted", "close", "answer", "end"}]]
    BY <1>43 DEF CancelClose
  <2>3. /\ UNCHANGED <<pc, job, code, call, sentRequest, scenario, ct, prov, err, ctMu, ctTable>>
        /\ UNCHANGED <<teardown, tc, tcMap, tcClosed, updClosed, cancel, target, visited, gen>>
        /\ UNCHANGED <<stTable, stCtl, stParked, answer, errors, panic>>
    BY <1>43 DEF CancelClose, canFrame
  <2> QED
    BY <2>1, <2>2, <2>3
<1>44. ASSUME NEW c \in CtKeys, NEW k \in CancelOf, CancelAnswer(c, k)
      PROVE  TypeOK'
  <2>1. can' \in [CtKeys -> [CancelOf -> {"none", "pending", "accepted", "close", "answer", "end"}]]
    <3>1. CASE UNCHANGED can
      BY <3>1
    <3>2. CASE can' = [can EXCEPT ![c][k] = "end"]
      BY <3>2
    <3> QED
      BY <1>44, <3>1, <3>2 DEF CancelAnswer
  <2> QED
    BY <1>b, <1>44, <2>1 DEF CancelAnswer, canFrame
<1>45. CASE ServerTransactionEnds \/ ControllerStep
  <2>1. /\ stTable' \in BOOLEAN /\ stParked' \in BOOLEAN
        /\ stCtl' \in {"trying", "proceeding", "answered", "lost"} \cup InHand
        /\ answer' \in {"nil", "ok", "fail", "error"}
    BY <1>45 DEF ServerTransactionEnds, ControllerStep, Timer100Try, Transmit
  <2>2. UNCHANGED stFrame
    BY <1>45 DEF ServerTransactionEnds, ControllerStep, Timer100Try, Transmit
  <2> QED
    BY <2>1, <2>2 DEF stFrame
<1>46. CASE CallRemoved
  BY <1>0, <1>a, <1>46 DEF CallRemoved
<1>47. CASE UNCHANGED vars
  BY <1>47 DEF vars, proxyVars
<1> HIDE DEF TypeOK, CtxInv, CtxTypeOK, Places, Alive, AllCodes, CancelOf, ctxVars, goVars,
        callVars, ctVars, tcVars, cancelVars, stVars, InHand
<1> QED
  BY <1>0, <1>a, <1>1, <1>2, <1>3, <1>4, <1>5, <1>6, <1>7, <1>8, <1>9, <1>10, <1>11, <1>12,
  <1>13, <1>14, <1>15, <1>16, <1>17, <1>18, <1>19, <1>20, <1>21, <1>22, <1>23, <1>24,
  <1>25, <1>26, <1>27, <1>28, <1>29, <1>30, <1>31, <1>32, <1>33, <1>34, <1>35, <1>36,
  <1>37, <1>38, <1>39, <1>40, <1>41, <1>42, <1>43, <1>44, <1>45, <1>46, <1>47 DEF Next,
  MainStep, Launch, PacketStep, TimerCStep, CtStep, CancelStep, CanStep

\* Where things come from.
LEMMA OriginStep ==
  ASSUME CtxInv, TypeOK, TypeOK', OriginInv, [Next]_vars
  PROVE  OriginInv'
<1> USE NamesAssumption, StAssumption, NoStAssumption, ScenariosAssumption
    DEF TypeOK, CtxInv, CtxTypeOK, MapsInverse, OriginInv, MainPlaces, PacketPlaces,
        Unopened, Unsent, Launching, Launchers, Places, Alive, AllCodes, CancelOf, ctxVars,
        goVars, callVars, ctVars, tcVars, cancelVars, stVars
<1>0. Main \in Launchers /\ Packets \subseteq Launchers /\ Main \notin Packets
  BY NamesAssumption DEF Launchers
<1>1. ASSUME UNCHANGED <<pc, job, code, scenario, used, ct, teardown, tc,
                          tcClosed, updClosed, can, cancel, target>>
      PROVE  OriginInv'
  BY <1>1
<1>2. ASSUME NEW g \in Launchers, NEW c \in CtKeys, AddContext(g, c)
      PROVE  OriginInv'
  BY <1>0, <1>2 DEF AddContext, Add, Go
<1>3. ASSUME NEW g \in Launchers, AddClientTransaction(g)
      PROVE  OriginInv'
  BY <1>0, <1>3 DEF AddClientTransaction, Go
<1>4. ASSUME NEW g \in Launchers, WriteInvite(g)
      PROVE  OriginInv'
  BY <1>0, <1>4 DEF WriteInvite, Go
<1>5. ASSUME NEW g \in Launchers, RecordCallee(g)
      PROVE  OriginInv'
  BY <1>0, <1>5 DEF RecordCallee, Go
<1>6. ASSUME NEW g \in Launchers, StartTimerC(g)
      PROVE  OriginInv'
  BY <1>0, <1>6 DEF StartTimerC, Go
<1>7. ASSUME NEW g \in Launchers, ErrorResponse(g)
      PROVE  OriginInv'
  BY <1>0, <1>7 DEF ErrorResponse, Go
<1>8. ASSUME NEW g \in Launchers, ErrorCall(g)
      PROVE  OriginInv'
  BY <1>0, <1>8 DEF ErrorCall, CloseCall, Go
<1>9. CASE HandleInvite
  BY <1>0, <1>9 DEF HandleInvite, Go
<1>10. CASE RouteInvite
  BY <1>0, <1>10 DEF RouteInvite, Go
<1>11. ASSUME NEW p \in Packets, NEW c \in CtKeys, NEW m \in AllCodes,
             ReceiveResponse(p, c, m)
      PROVE  OriginInv'
  BY <1>0, <1>11 DEF ReceiveResponse, Go
<1>12. ASSUME NEW p \in Packets, HandleLock(p)
      PROVE  OriginInv'
  BY <1>0, <1>12 DEF HandleLock, Go
<1>13. ASSUME NEW p \in Packets, HandleSend(p)
      PROVE  OriginInv'
  BY <1>0, <1>13 DEF HandleSend, Go
<1>14. ASSUME NEW p \in Packets, GetCall(p)
      PROVE  OriginInv'
  BY <1>0, <1>14 DEF GetCall, Guarded, Go
<1>15. ASSUME NEW p \in Packets, GetStFromCt(p)
      PROVE  OriginInv'
  BY <1>0, <1>15 DEF GetStFromCt, Guarded, Go
<1>16. ASSUME NEW p \in Packets, LookupSt(p)
      PROVE  OriginInv'
  BY <1>0, <1>16 DEF LookupSt, Guarded, Go
<1>17. ASSUME NEW p \in Packets, TellTimerC(p)
      PROVE  OriginInv'
  BY <1>0, <1>17 DEF TellTimerC, Go
<1>18. ASSUME NEW p \in Packets, UpdateTimerC(p)
      PROVE  OriginInv'
  BY <1>0, <1>18 DEF UpdateTimerC, Go
<1>19. ASSUME NEW p \in Packets, RemoveContext(p)
      PROVE  OriginInv'
  BY <1>0, <1>19 DEF RemoveContext, Remove, LastChild, Go
<1>20. ASSUME NEW p \in Packets, RecordFinal(p)
      PROVE  OriginInv'
  BY <1>0, <1>20 DEF RecordFinal, IsFailure, CloseCall, Go
<1>21. ASSUME NEW p \in Packets, ForwardResponse(p)
      PROVE  OriginInv'
  BY <1>0, <1>21 DEF ForwardResponse, Go
<1>22. ASSUME NEW p \in Packets, HandleReturn(p)
      PROVE  OriginInv'
  BY <1>0, <1>22 DEF HandleReturn
<1>23. ASSUME NEW c \in CtKeys, FireTimerC(c)
      PROVE  OriginInv'
  BY <1>0, <1>23 DEF FireTimerC, tcFrame
<1>24. ASSUME NEW c \in CtKeys, TimerCCancel(c)
      PROVE  OriginInv'
  BY <1>0, <1>24 DEF TimerCCancel, tcFrame
<1>25. ASSUME NEW c \in CtKeys, TimerCClose(c)
      PROVE  OriginInv'
  BY <1>0, <1>25 DEF TimerCClose, tcFrame, Remove, CloserAnswers, LastChild
<1>26. ASSUME NEW c \in CtKeys, TimerCAnswer(c)
      PROVE  OriginInv'
  BY <1>0, <1>26 DEF TimerCAnswer, tcFrame
<1>27. ASSUME NEW c \in CtKeys, TimerCDestroyed(c)
      PROVE  OriginInv'
  BY <1>0, <1>27 DEF TimerCDestroyed, tcFrame
<1>28. ASSUME NEW c \in CtKeys, TimerCRemove(c)
      PROVE  OriginInv'
  BY <1>0, <1>28 DEF TimerCRemove, tcFrame
<1>29. ASSUME NEW c \in CtKeys, TimerB(c)
      PROVE  OriginInv'
  BY <1>0, <1>29 DEF TimerB, ctFrame
<1>30. ASSUME NEW c \in CtKeys, TimerD(c)
      PROVE  OriginInv'
  BY <1>0, <1>30 DEF TimerD, ctFrame
<1>31. ASSUME NEW c \in CtKeys, CtDestroy(c)
      PROVE  OriginInv'
  BY <1>0, <1>31 DEF CtDestroy, ctFrame, MuFree
<1>32. ASSUME NEW c \in CtKeys, ErrorGetCtx(c)
      PROVE  OriginInv'
  BY <1>0, <1>32 DEF ErrorGetCtx, ctFrame
<1>33. ASSUME NEW c \in CtKeys, ErrorStopTimerC(c)
      PROVE  OriginInv'
  BY <1>0, <1>33 DEF ErrorStopTimerC, ctFrame
<1>34. ASSUME NEW c \in CtKeys, ErrorLookup(c)
      PROVE  OriginInv'
  BY <1>0, <1>34 DEF ErrorLookup, ctFrame
<1>35. ASSUME NEW c \in CtKeys, ErrorRemove(c)
      PROVE  OriginInv'
  BY <1>0, <1>35 DEF ErrorRemove, ctFrame, Remove, LastChild
<1>36. ASSUME NEW c \in CtKeys, ErrorAnswer(c)
      PROVE  OriginInv'
  BY <1>0, <1>36 DEF ErrorAnswer, ctFrame
<1>37. ASSUME NEW c \in CtKeys, ErrorCloseCall(c)
      PROVE  OriginInv'
  BY <1>0, <1>37 DEF ErrorCloseCall, ctFrame, CloseCall
<1>38. ASSUME NEW c \in CtKeys, DeleteClientTransaction(c)
      PROVE  OriginInv'
  BY <1>0, <1>38 DEF DeleteClientTransaction, ctFrame
<1>39. CASE HandleCancel
  BY <1>0, <1>39 DEF HandleCancel, cancelFrame
<1>40. CASE CancelNoMatch
  BY <1>0, <1>40 DEF CancelNoMatch, cancelFrame, CloseCall
<1>41. CASE CancelNextKey
  BY <1>0, <1>41 DEF CancelNextKey, cancelFrame
<1>42. CASE CancelOne
  BY <1>0, <1>42 DEF CancelOne, cancelFrame
<1>43. ASSUME NEW c \in CtKeys, NEW k \in CancelOf, CancelOutcome(c, k)
      PROVE  OriginInv'
  BY <1>0, <1>43 DEF CancelOutcome, canFrame
<1>44. ASSUME NEW c \in CtKeys, NEW k \in CancelOf, CancelClose(c, k)
      PROVE  OriginInv'
  BY <1>0, <1>44 DEF CancelClose, canFrame, Remove, CloserAnswers, LastChild
<1>45. ASSUME NEW c \in CtKeys, NEW k \in CancelOf, CancelAnswer(c, k)
      PROVE  OriginInv'
  <2>1. CASE UNCHANGED can
    BY <1>1, <1>45, <2>1 DEF CancelAnswer, canFrame
  <2>2. CASE can' = [can EXCEPT ![c][k] = "end"]
    BY <1>45, <2>2 DEF CancelAnswer, canFrame
  <2> QED
    BY <1>45, <2>1, <2>2 DEF CancelAnswer
<1>46. CASE ServerTransactionEnds \/ ControllerStep \/ CallRemoved
  BY <1>1, <1>46 DEF ServerTransactionEnds, ControllerStep,
     Timer100Try, Transmit, stFrame, CallRemoved
<1>47. CASE UNCHANGED vars
  BY <1>1, <1>47 DEF vars, proxyVars
<1> HIDE DEF TypeOK, CtxInv, CtxTypeOK, MapsInverse, OriginInv, MainPlaces,
        PacketPlaces, Unopened, Unsent, Launching, Launchers, Places, Alive, AllCodes,
        CancelOf, ctxVars, goVars, callVars, ctVars, tcVars, cancelVars, stVars
<1> QED
  BY <1>0, <1>2, <1>3, <1>4, <1>5, <1>6, <1>7, <1>8, <1>9, <1>10, <1>11, <1>12, <1>13,
     <1>14, <1>15, <1>16, <1>17, <1>18, <1>19, <1>20, <1>21, <1>22, <1>23, <1>24, <1>25,
     <1>26, <1>27, <1>28, <1>29, <1>30, <1>31, <1>32, <1>33, <1>34, <1>35, <1>36, <1>37,
     <1>38, <1>39, <1>40, <1>41, <1>42, <1>43, <1>44, <1>45, <1>46, <1>47 DEF Next,
     MainStep, Launch, PacketStep, TimerCStep, CtStep, CancelStep, CanStep

\* A client transaction is written and registered once.
LEMMA LaunchStep ==
  ASSUME CtxInv, TypeOK, TypeOK', OriginInv, LaunchInv, [Next]_vars
  PROVE  LaunchInv'
<1> USE NamesAssumption, StAssumption, NoStAssumption
    DEF TypeOK, CtxInv, CtxTypeOK, MapsInverse, OriginInv, MainPlaces, PacketPlaces,
        Unopened, Unsent, Launching, Launchers, Places, Alive, AllCodes, IsFinal, IsFailure, CancelOf,
        LaunchInv, ctxVars, goVars, callVars, ctVars, tcVars, cancelVars, stVars
<1>0. Main \in Launchers /\ Packets \subseteq Launchers /\ Main \notin Packets
  BY NamesAssumption DEF Launchers
<1>1. ASSUME UNCHANGED <<pc, job, ct, ctTable, teardown, used>>
      PROVE  LaunchInv'
  BY <1>1
<1>2. ASSUME NEW g \in Launchers, NEW c \in CtKeys, AddContext(g, c)
      PROVE  LaunchInv'
  BY <1>0, <1>2 DEF AddContext, Add, Go
<1>3. ASSUME NEW g \in Launchers, AddClientTransaction(g)
      PROVE  LaunchInv'
  BY <1>0, <1>3 DEF AddClientTransaction, Go
<1>4. ASSUME NEW g \in Launchers, WriteInvite(g)
      PROVE  LaunchInv'
  BY <1>0, <1>4 DEF WriteInvite, Go
<1>5. ASSUME NEW g \in Launchers, RecordCallee(g)
      PROVE  LaunchInv'
  BY <1>0, <1>5 DEF RecordCallee, Go
<1>6. ASSUME NEW g \in Launchers, StartTimerC(g)
      PROVE  LaunchInv'
  BY <1>0, <1>6 DEF StartTimerC, Go
<1>7. ASSUME NEW g \in Launchers, ErrorResponse(g)
      PROVE  LaunchInv'
  BY <1>0, <1>7 DEF ErrorResponse, Go
<1>8. ASSUME NEW g \in Launchers, ErrorCall(g)
      PROVE  LaunchInv'
  BY <1>0, <1>8 DEF ErrorCall, CloseCall, Go
<1>9. CASE HandleInvite
  BY <1>0, <1>9 DEF HandleInvite, Go
<1>10. CASE RouteInvite
  BY <1>0, <1>10 DEF RouteInvite, Go
<1>11. ASSUME NEW p \in Packets, NEW c \in CtKeys, NEW m \in AllCodes,
             ReceiveResponse(p, c, m)
      PROVE  LaunchInv'
  BY <1>0, <1>11 DEF ReceiveResponse, Go
<1>12. ASSUME NEW p \in Packets, HandleLock(p)
      PROVE  LaunchInv'
  BY <1>0, <1>12 DEF HandleLock, Go
<1>13. ASSUME NEW p \in Packets, HandleSend(p)
      PROVE  LaunchInv'
  BY <1>0, <1>13 DEF HandleSend, Go
<1>14. ASSUME NEW p \in Packets, GetCall(p)
      PROVE  LaunchInv'
  BY <1>0, <1>14 DEF GetCall, Guarded, Go
<1>15. ASSUME NEW p \in Packets, GetStFromCt(p)
      PROVE  LaunchInv'
  BY <1>0, <1>15 DEF GetStFromCt, Guarded, Go
<1>16. ASSUME NEW p \in Packets, LookupSt(p)
      PROVE  LaunchInv'
  BY <1>0, <1>16 DEF LookupSt, Guarded, Go
<1>17. ASSUME NEW p \in Packets, TellTimerC(p)
      PROVE  LaunchInv'
  BY <1>0, <1>17 DEF TellTimerC, Go
<1>18. ASSUME NEW p \in Packets, UpdateTimerC(p)
      PROVE  LaunchInv'
  BY <1>0, <1>18 DEF UpdateTimerC, Go
<1>19. ASSUME NEW p \in Packets, RemoveContext(p)
      PROVE  LaunchInv'
  BY <1>0, <1>19 DEF RemoveContext, Remove, LastChild, Go
<1>20. ASSUME NEW p \in Packets, RecordFinal(p)
      PROVE  LaunchInv'
  BY <1>0, <1>20 DEF RecordFinal, CloseCall, Go
<1>21. ASSUME NEW p \in Packets, ForwardResponse(p)
      PROVE  LaunchInv'
  BY <1>0, <1>21 DEF ForwardResponse, Go
<1>22. ASSUME NEW p \in Packets, HandleReturn(p)
      PROVE  LaunchInv'
  BY <1>0, <1>22 DEF HandleReturn
<1>23. ASSUME NEW c \in CtKeys,
             FireTimerC(c) \/ TimerCCancel(c) \/ TimerCClose(c) \/ TimerCAnswer(c) \/
             TimerCDestroyed(c) \/ TimerCRemove(c)
      PROVE  LaunchInv'
  BY <1>1, <1>23 DEF FireTimerC, tcFrame, TimerCCancel, TimerCClose, TimerCAnswer, TimerCDestroyed, TimerCRemove, Remove
<1>24. ASSUME NEW c \in CtKeys, TimerB(c)
      PROVE  LaunchInv'
  BY <1>0, <1>24 DEF TimerB, ctFrame
<1>25. ASSUME NEW c \in CtKeys, TimerD(c)
      PROVE  LaunchInv'
  BY <1>0, <1>25 DEF TimerD, ctFrame
<1>26. ASSUME NEW c \in CtKeys, CtDestroy(c)
      PROVE  LaunchInv'
  BY <1>0, <1>26 DEF CtDestroy, ctFrame, MuFree
<1>27. ASSUME NEW c \in CtKeys, ErrorGetCtx(c)
      PROVE  LaunchInv'
  BY <1>0, <1>27 DEF ErrorGetCtx, ctFrame
<1>28. ASSUME NEW c \in CtKeys, ErrorStopTimerC(c)
      PROVE  LaunchInv'
  BY <1>0, <1>28 DEF ErrorStopTimerC, ctFrame
<1>29. ASSUME NEW c \in CtKeys, ErrorLookup(c)
      PROVE  LaunchInv'
  BY <1>0, <1>29 DEF ErrorLookup, ctFrame
<1>30. ASSUME NEW c \in CtKeys, ErrorRemove(c)
      PROVE  LaunchInv'
  BY <1>0, <1>30 DEF ErrorRemove, ctFrame, Remove, LastChild
<1>31. ASSUME NEW c \in CtKeys, ErrorAnswer(c)
      PROVE  LaunchInv'
  BY <1>0, <1>31 DEF ErrorAnswer, ctFrame
<1>32. ASSUME NEW c \in CtKeys, ErrorCloseCall(c)
      PROVE  LaunchInv'
  BY <1>0, <1>32 DEF ErrorCloseCall, ctFrame, CloseCall
<1>33. ASSUME NEW c \in CtKeys, DeleteClientTransaction(c)
      PROVE  LaunchInv'
  BY <1>0, <1>33 DEF DeleteClientTransaction, ctFrame
<1>34. CASE HandleCancel \/ CancelNoMatch \/ CancelNextKey \/ CancelOne \/
             ServerTransactionEnds \/ ControllerStep \/ CallRemoved
  BY <1>1, <1>34 DEF HandleCancel, cancelFrame, CancelNoMatch, CloseCall,
     CancelNextKey, CancelOne, ServerTransactionEnds, ControllerStep,
     Timer100Try, Transmit, stFrame, CallRemoved
<1>35. ASSUME NEW c \in CtKeys, NEW k \in CancelOf,
             CancelOutcome(c, k) \/ CancelClose(c, k) \/ CancelAnswer(c, k)
      PROVE  LaunchInv'
  BY <1>1, <1>35 DEF CancelOutcome, canFrame, CancelClose, CancelAnswer,
     Remove
<1>36. CASE UNCHANGED vars
  BY <1>1, <1>36 DEF vars, proxyVars
<1> HIDE DEF TypeOK, CtxInv, CtxTypeOK, MapsInverse, OriginInv, MainPlaces,
        PacketPlaces, Unopened, Unsent, Launching, Launchers, Places, Alive, AllCodes, IsFinal, IsFailure,
        CancelOf, LaunchInv, ctxVars, goVars, callVars, ctVars, tcVars, cancelVars, stVars
<1> QED
  BY <1>0, <1>2, <1>3, <1>4, <1>5, <1>6, <1>7, <1>8, <1>9, <1>10, <1>11, <1>12, <1>13,
     <1>14, <1>15, <1>16, <1>17, <1>18, <1>19, <1>20, <1>21, <1>22, <1>23, <1>24, <1>25,
     <1>26, <1>27, <1>28, <1>29, <1>30, <1>31, <1>32, <1>33, <1>34, <1>35, <1>36 DEF Next,
     MainStep, Launch, PacketStep, TimerCStep, CtStep, CancelStep, CanStep

\* Responses are handled under Mu, or after the end of the client transaction.
LEMMA LockStep ==
  ASSUME CtxInv, TypeOK, TypeOK', OriginInv, LaunchInv, LockInv, [Next]_vars
  PROVE  LockInv'
<1> USE NamesAssumption, StAssumption, NoStAssumption
    DEF TypeOK, CtxInv, CtxTypeOK, MapsInverse, OriginInv, MainPlaces, PacketPlaces,
        Unopened, Unsent, Launching, Launchers, Places, Alive, AllCodes, IsFinal, IsFailure, CancelOf,
        LaunchInv, LockInv, Handling, ctxVars, goVars, callVars, ctVars, tcVars,
        cancelVars, stVars
<1>0. Main \in Launchers /\ Packets \subseteq Launchers /\ Main \notin Packets
  BY NamesAssumption DEF Launchers
<1>1. ASSUME UNCHANGED <<pc, job, ctMu, ct, teardown>>
      PROVE  LockInv'
  BY <1>1
<1>2. ASSUME NEW g \in Launchers, NEW c \in CtKeys, AddContext(g, c)
      PROVE  LockInv'
  BY <1>0, <1>2 DEF AddContext, Add, Go
<1>3. ASSUME NEW g \in Launchers, AddClientTransaction(g)
      PROVE  LockInv'
  BY <1>0, <1>3 DEF AddClientTransaction, Go
<1>4. ASSUME NEW g \in Launchers, WriteInvite(g)
      PROVE  LockInv'
  BY <1>0, <1>4 DEF WriteInvite, Go
<1>5. ASSUME NEW g \in Launchers, RecordCallee(g)
      PROVE  LockInv'
  BY <1>0, <1>5 DEF RecordCallee, Go
<1>6. ASSUME NEW g \in Launchers, StartTimerC(g)
      PROVE  LockInv'
  BY <1>0, <1>6 DEF StartTimerC, Go
<1>7. ASSUME NEW g \in Launchers, ErrorResponse(g)
      PROVE  LockInv'
  BY <1>0, <1>7 DEF ErrorResponse, Go
<1>8. ASSUME NEW g \in Launchers, ErrorCall(g)
      PROVE  LockInv'
  BY <1>0, <1>8 DEF ErrorCall, CloseCall, Go
<1>9. CASE HandleInvite
  BY <1>0, <1>9 DEF HandleInvite, Go
<1>10. CASE RouteInvite
  BY <1>0, <1>10 DEF RouteInvite, Go
<1>11. ASSUME NEW p \in Packets, NEW c \in CtKeys, NEW m \in AllCodes,
             ReceiveResponse(p, c, m)
      PROVE  LockInv'
  BY <1>0, <1>11 DEF ReceiveResponse, Go
<1>12. ASSUME NEW p \in Packets, HandleLock(p)
      PROVE  LockInv'
  BY <1>0, <1>12 DEF HandleLock, Go
<1>13. ASSUME NEW p \in Packets, HandleSend(p)
      PROVE  LockInv'
  BY <1>0, <1>13 DEF HandleSend, Go
<1>14. ASSUME NEW p \in Packets, GetCall(p)
      PROVE  LockInv'
  BY <1>0, <1>14 DEF GetCall, Guarded, Go
<1>15. ASSUME NEW p \in Packets, GetStFromCt(p)
      PROVE  LockInv'
  BY <1>0, <1>15 DEF GetStFromCt, Guarded, Go
<1>16. ASSUME NEW p \in Packets, LookupSt(p)
      PROVE  LockInv'
  BY <1>0, <1>16 DEF LookupSt, Guarded, Go
<1>17. ASSUME NEW p \in Packets, TellTimerC(p)
      PROVE  LockInv'
  BY <1>0, <1>17 DEF TellTimerC, Go
<1>18. ASSUME NEW p \in Packets, UpdateTimerC(p)
      PROVE  LockInv'
  BY <1>0, <1>18 DEF UpdateTimerC, Go
<1>19. ASSUME NEW p \in Packets, RemoveContext(p)
      PROVE  LockInv'
  BY <1>0, <1>19 DEF RemoveContext, Remove, LastChild, Go
<1>20. ASSUME NEW p \in Packets, RecordFinal(p)
      PROVE  LockInv'
  BY <1>0, <1>20 DEF RecordFinal, CloseCall, Go
<1>21. ASSUME NEW p \in Packets, ForwardResponse(p)
      PROVE  LockInv'
  BY <1>0, <1>21 DEF ForwardResponse, Go
<1>22. ASSUME NEW p \in Packets, HandleReturn(p)
      PROVE  LockInv'
  BY <1>0, <1>22 DEF HandleReturn
<1>23. ASSUME NEW c \in CtKeys,
             FireTimerC(c) \/ TimerCCancel(c) \/ TimerCClose(c) \/ TimerCAnswer(c) \/
             TimerCDestroyed(c) \/ TimerCRemove(c)
      PROVE  LockInv'
  BY <1>1, <1>23 DEF FireTimerC, tcFrame, TimerCCancel, TimerCClose, TimerCAnswer, TimerCDestroyed, TimerCRemove
<1>24. ASSUME NEW c \in CtKeys, TimerB(c)
      PROVE  LockInv'
  BY <1>0, <1>24 DEF TimerB, ctFrame
<1>25. ASSUME NEW c \in CtKeys, TimerD(c)
      PROVE  LockInv'
  BY <1>0, <1>25 DEF TimerD, ctFrame
<1>26. ASSUME NEW c \in CtKeys, CtDestroy(c)
      PROVE  LockInv'
  BY <1>0, <1>26 DEF CtDestroy, ctFrame, MuFree
<1>27. ASSUME NEW c \in CtKeys, ErrorGetCtx(c)
      PROVE  LockInv'
  BY <1>0, <1>27 DEF ErrorGetCtx, ctFrame
<1>28. ASSUME NEW c \in CtKeys, ErrorStopTimerC(c)
      PROVE  LockInv'
  BY <1>0, <1>28 DEF ErrorStopTimerC, ctFrame
<1>29. ASSUME NEW c \in CtKeys, ErrorLookup(c)
      PROVE  LockInv'
  BY <1>0, <1>29 DEF ErrorLookup, ctFrame
<1>30. ASSUME NEW c \in CtKeys, ErrorRemove(c)
      PROVE  LockInv'
  BY <1>0, <1>30 DEF ErrorRemove, ctFrame, Remove, LastChild
<1>31. ASSUME NEW c \in CtKeys, ErrorAnswer(c)
      PROVE  LockInv'
  BY <1>0, <1>31 DEF ErrorAnswer, ctFrame
<1>32. ASSUME NEW c \in CtKeys, ErrorCloseCall(c)
      PROVE  LockInv'
  BY <1>0, <1>32 DEF ErrorCloseCall, ctFrame, CloseCall
<1>33. ASSUME NEW c \in CtKeys, DeleteClientTransaction(c)
      PROVE  LockInv'
  BY <1>0, <1>33 DEF DeleteClientTransaction, ctFrame
<1>34. CASE HandleCancel \/ CancelNoMatch \/ CancelNextKey \/ CancelOne \/
             ServerTransactionEnds \/ ControllerStep \/ CallRemoved
  BY <1>1, <1>34 DEF HandleCancel, cancelFrame, CancelNoMatch, CloseCall,
     CancelNextKey, CancelOne, ServerTransactionEnds, ControllerStep,
     Timer100Try, Transmit, stFrame, CallRemoved
<1>35. ASSUME NEW c \in CtKeys, NEW k \in CancelOf,
             CancelOutcome(c, k) \/ CancelClose(c, k) \/ CancelAnswer(c, k)
      PROVE  LockInv'
  BY <1>1, <1>35 DEF CancelOutcome, canFrame, CancelClose, CancelAnswer
<1>36. CASE UNCHANGED vars
  BY <1>1, <1>36 DEF vars, proxyVars
<1> HIDE DEF TypeOK, CtxInv, CtxTypeOK, MapsInverse, OriginInv, MainPlaces,
        PacketPlaces, Unopened, Unsent, Launching, Launchers, Places, Alive, AllCodes, IsFinal, IsFailure,
        CancelOf, LaunchInv, LockInv, Handling, ctxVars, goVars, callVars, ctVars, tcVars,
        cancelVars, stVars
<1> QED
  BY <1>0, <1>2, <1>3, <1>4, <1>5, <1>6, <1>7, <1>8, <1>9, <1>10, <1>11, <1>12, <1>13,
     <1>14, <1>15, <1>16, <1>17, <1>18, <1>19, <1>20, <1>21, <1>22, <1>23, <1>24, <1>25,
     <1>26, <1>27, <1>28, <1>29, <1>30, <1>31, <1>32, <1>33, <1>34, <1>35, <1>36 DEF Next,
     MainStep, Launch, PacketStep, TimerCStep, CtStep, CancelStep, CanStep

\* A client transaction that has gone is settled.
LEMMA SettledStep ==
  ASSUME CtxInv, TypeOK, TypeOK', OriginInv, LaunchInv, LockInv, SettledInv,
         [Next]_vars
  PROVE  SettledInv'
<1> USE NamesAssumption, StAssumption, NoStAssumption
    DEF TypeOK, CtxInv, CtxTypeOK, MapsInverse, OriginInv, MainPlaces, PacketPlaces,
        Unopened, Unsent, Launching, Launchers, Places, Alive, AllCodes, IsFinal, IsFailure, CancelOf,
        LaunchInv, LockInv, Handling, SettledInv, Bound, Settled, Busy, ctxVars, goVars,
        callVars, ctVars, tcVars, cancelVars, stVars
<1>0. Main \in Launchers /\ Packets \subseteq Launchers /\ Main \notin Packets
  BY NamesAssumption DEF Launchers
<1>a. /\ WriteError \/ WriterParks => stTable' = stTable
      /\ \A m \in AllCodes \cup {"nil"} : WriteForwarded(m) => stTable' = stTable
  BY DEF WriteError, WriteForwarded, HandOver, WriterParks
<1>1. ASSUME UNCHANGED <<call, pc, job, code, ctMu, err, ct, ctToSt, stTable,
                          teardown>>
      PROVE  SettledInv'
  BY <1>1
<1>2. ASSUME NEW g \in Launchers, NEW c \in CtKeys, AddContext(g, c)
      PROVE  SettledInv'
  BY <1>0, <1>2 DEF AddContext, Add, Go
<1>3. ASSUME NEW g \in Launchers, AddClientTransaction(g)
      PROVE  SettledInv'
  BY <1>0, <1>3 DEF AddClientTransaction, Go
<1>4. ASSUME NEW g \in Launchers, WriteInvite(g)
      PROVE  SettledInv'
  BY <1>0, <1>4 DEF WriteInvite, Go
<1>5. ASSUME NEW g \in Launchers, RecordCallee(g)
      PROVE  SettledInv'
  BY <1>0, <1>5 DEF RecordCallee, Go
<1>6. ASSUME NEW g \in Launchers, StartTimerC(g)
      PROVE  SettledInv'
  BY <1>0, <1>6 DEF StartTimerC, Go
<1>7. ASSUME NEW g \in Launchers, ErrorResponse(g)
      PROVE  SettledInv'
  BY <1>0, <1>a, <1>7 DEF ErrorResponse, Go
<1>8. ASSUME NEW g \in Launchers, ErrorCall(g)
      PROVE  SettledInv'
  BY <1>0, <1>8 DEF ErrorCall, CloseCall, Go
<1>9. CASE HandleInvite
  BY <1>0, <1>9 DEF HandleInvite, Go
<1>10. CASE RouteInvite
  BY <1>0, <1>10 DEF RouteInvite, Go
<1>11. ASSUME NEW p \in Packets, NEW c \in CtKeys, NEW m \in AllCodes,
             ReceiveResponse(p, c, m)
      PROVE  SettledInv'
  BY <1>0, <1>11 DEF ReceiveResponse, Go
<1>12. ASSUME NEW p \in Packets, HandleLock(p)
      PROVE  SettledInv'
  <2>1. CASE ct[job[p]] = "dead"
    <3>1. /\ pc[p] = "lock" /\ pc'[p] = "idle" /\ \A q \in Launchers \ {p} : pc'[q] = pc[q]
          /\ UNCHANGED <<call, job, code, ctMu, err, ct, ctToSt, stTable, teardown>>
      BY <1>0, <1>12, <2>1 DEF HandleLock, Go
    <3>2. \A c \in CtKeys : (Busy(c) => Busy(c)') /\ (Settled(c) <=> Settled(c)')
      BY <3>1
    <3>3. \A q \in Packets : pc'[q] \in Handling => pc'[q] = pc[q]
      BY <3>1
    <3> QED
      BY <1>0, <3>1, <3>2, <3>3
  <2>2. CASE ct[job[p]] # "dead"
    BY <1>0, <1>12, <2>2 DEF HandleLock, Go
  <2> QED
    BY <2>1, <2>2
<1>13. ASSUME NEW p \in Packets, HandleSend(p)
      PROVE  SettledInv'
  BY <1>0, <1>13 DEF HandleSend, Go
<1>14. ASSUME NEW p \in Packets, GetCall(p)
      PROVE  SettledInv'
  BY <1>0, <1>14 DEF GetCall, Guarded, Go
<1>15. ASSUME NEW p \in Packets, GetStFromCt(p)
      PROVE  SettledInv'
  BY <1>0, <1>15 DEF GetStFromCt, Guarded, Go
<1>16. ASSUME NEW p \in Packets, LookupSt(p)
      PROVE  SettledInv'
  BY <1>0, <1>16 DEF LookupSt, Guarded, Go
<1>17. ASSUME NEW p \in Packets, TellTimerC(p)
      PROVE  SettledInv'
  <2>1. /\ pc[p] = "getTimer"
        /\ \E to \in {"return", "update", "forward", "remove"} : Go(p, to)
        /\ IsFinal(code[p]) => Go(p, "remove")
    BY <1>17 DEF TellTimerC
  <2>2. UNCHANGED <<ctxVars, job, code, callVars, ctVars, teardown, stVars>>
    BY <1>17 DEF TellTimerC
  <2> QED
    BY <1>0, <2>1, <2>2 DEF Go
<1>18. ASSUME NEW p \in Packets, UpdateTimerC(p)
      PROVE  SettledInv'
  <2>1. CASE UNCHANGED pc
    BY <1>1, <2>1, <1>18 DEF UpdateTimerC
  <2>2. CASE Go(p, "forward")
    BY <1>0, <2>2, <1>18 DEF UpdateTimerC, Go
  <2> QED
    BY <2>1, <2>2, <1>18 DEF UpdateTimerC
<1>19. ASSUME NEW p \in Packets, RemoveContext(p)
      PROVE  SettledInv'
  BY <1>0, <1>19 DEF RemoveContext, Remove, LastChild, Go
<1>20. ASSUME NEW p \in Packets, RecordFinal(p)
      PROVE  SettledInv'
  BY <1>0, <1>20 DEF RecordFinal, CloseCall, Go
<1>21. ASSUME NEW p \in Packets, ForwardResponse(p)
      PROVE  SettledInv'
  <2>1. stTable' = stTable
    BY <1>0, <1>a, <1>21 DEF ForwardResponse
  <2>2. CASE UNCHANGED pc
    BY <1>1, <1>21, <2>1, <2>2 DEF ForwardResponse
  <2>3. CASE Go(p, "return")
    BY <1>0, <1>21, <2>1, <2>3 DEF ForwardResponse, Go
  <2> QED
    BY <1>21, <2>2, <2>3 DEF ForwardResponse
<1>22. ASSUME NEW p \in Packets, HandleReturn(p)
      PROVE  SettledInv'
  BY <1>0, <1>22 DEF HandleReturn
<1>23. ASSUME NEW c \in CtKeys,
             FireTimerC(c) \/ TimerCCancel(c) \/ TimerCAnswer(c) \/ TimerCDestroyed(c)
             \/ TimerCRemove(c)
      PROVE  SettledInv'
  BY <1>1, <1>a, <1>23 DEF FireTimerC, tcFrame, TimerCCancel, TimerCAnswer,
     TimerCDestroyed, TimerCRemove
<1>24. ASSUME NEW c \in CtKeys, TimerCClose(c)
      PROVE  SettledInv'
  BY <1>0, <1>24 DEF TimerCClose, tcFrame, Remove, CloserAnswers, LastChild
<1>25. ASSUME NEW c \in CtKeys, TimerB(c)
      PROVE  SettledInv'
  BY <1>0, <1>25 DEF TimerB, ctFrame
<1>26. ASSUME NEW c \in CtKeys, TimerD(c)
      PROVE  SettledInv'
  BY <1>0, <1>26 DEF TimerD, ctFrame
<1>27. ASSUME NEW c \in CtKeys, CtDestroy(c)
      PROVE  SettledInv'
  BY <1>0, <1>27 DEF CtDestroy, ctFrame, MuFree
<1>28. ASSUME NEW c \in CtKeys, ErrorGetCtx(c)
      PROVE  SettledInv'
  BY <1>0, <1>28 DEF ErrorGetCtx, ctFrame
<1>29. ASSUME NEW c \in CtKeys, ErrorStopTimerC(c)
      PROVE  SettledInv'
  BY <1>0, <1>29 DEF ErrorStopTimerC, ctFrame
<1>30. ASSUME NEW c \in CtKeys, ErrorLookup(c)
      PROVE  SettledInv'
  BY <1>0, <1>30 DEF ErrorLookup, ctFrame
<1>31. ASSUME NEW c \in CtKeys, ErrorRemove(c)
      PROVE  SettledInv'
  BY <1>0, <1>31 DEF ErrorRemove, ctFrame, Remove, LastChild
<1>32. ASSUME NEW c \in CtKeys, ErrorAnswer(c)
      PROVE  SettledInv'
  BY <1>0, <1>a, <1>32 DEF ErrorAnswer, ctFrame
<1>33. ASSUME NEW c \in CtKeys, ErrorCloseCall(c)
      PROVE  SettledInv'
  BY <1>0, <1>33 DEF ErrorCloseCall, ctFrame, CloseCall
<1>34. ASSUME NEW c \in CtKeys, DeleteClientTransaction(c)
      PROVE  SettledInv'
  BY <1>0, <1>34 DEF DeleteClientTransaction, ctFrame
<1>35. CASE HandleCancel \/ CancelNextKey \/ CancelOne
  BY <1>1, <1>35 DEF HandleCancel, cancelFrame, CancelNextKey, CancelOne
<1>36. CASE CancelNoMatch
  BY <1>0, <1>36 DEF CancelNoMatch, cancelFrame, CloseCall
<1>37. ASSUME NEW c \in CtKeys, NEW k \in CancelOf,
             CancelOutcome(c, k) \/ CancelAnswer(c, k)
      PROVE  SettledInv'
  BY <1>1, <1>a, <1>37 DEF CancelOutcome, canFrame, CancelAnswer
<1>38. ASSUME NEW c \in CtKeys, NEW k \in CancelOf, CancelClose(c, k)
      PROVE  SettledInv'
  BY <1>0, <1>38 DEF CancelClose, canFrame, Remove, CloserAnswers, LastChild
<1>39. CASE ServerTransactionEnds \/ ControllerStep
  BY <1>0, <1>39 DEF ServerTransactionEnds, ControllerStep, Timer100Try, Transmit, stFrame
<1>40. CASE CallRemoved
  BY <1>0, <1>40 DEF CallRemoved
<1>41. CASE UNCHANGED vars
  BY <1>1, <1>41 DEF vars, proxyVars
<1> HIDE DEF TypeOK, CtxInv, CtxTypeOK, MapsInverse, OriginInv, MainPlaces,
        PacketPlaces, Unopened, Unsent, Launching, Launchers, Places, Alive, AllCodes, IsFinal, IsFailure,
        CancelOf, LaunchInv, LockInv, Handling, SettledInv, Bound, Settled, Busy, ctxVars,
        goVars, callVars, ctVars, tcVars, cancelVars, stVars
<1> QED
  BY <1>0, <1>2, <1>3, <1>4, <1>5, <1>6, <1>7, <1>8, <1>9, <1>10, <1>11, <1>12, <1>13,
     <1>14, <1>15, <1>16, <1>17, <1>18, <1>19, <1>20, <1>21, <1>22, <1>23, <1>24, <1>25,
     <1>26, <1>27, <1>28, <1>29, <1>30, <1>31, <1>32, <1>33, <1>34, <1>35, <1>36, <1>37,
     <1>38, <1>39, <1>40, <1>41 DEF Next, MainStep, Launch, PacketStep, TimerCStep,
     CtStep, CancelStep, CanStep

\* The channels of Timer C are closed by one goroutine.
LEMMA ChannelStep ==
  ASSUME CtxInv, TypeOK, TypeOK', OriginInv, LaunchInv, LockInv, SettledInv,
         ChannelInv, [Next]_vars
  PROVE  ChannelInv'
<1> USE NamesAssumption, StAssumption, NoStAssumption
    DEF TypeOK, CtxInv, CtxTypeOK, MapsInverse, OriginInv, MainPlaces, PacketPlaces,
        Unopened, Unsent, Launching, Launchers, Places, Alive, AllCodes, IsFinal, IsFailure, CancelOf,
        LaunchInv, LockInv, Handling, SettledInv, Bound, Settled, ChannelInv,
        TimerCChannelsSafe, ctxVars, goVars, callVars, ctVars, tcVars, cancelVars, stVars
<1>0. Main \in Launchers /\ Packets \subseteq Launchers /\ Main \notin Packets
  BY NamesAssumption DEF Launchers
<1>1. ASSUME UNCHANGED <<tcClosed, updClosed, ctToSt, teardown, pc, job, ctMu,
                          panic>>
      PROVE  ChannelInv'
  BY <1>1
<1>2. ASSUME NEW g \in Launchers, NEW c \in CtKeys, AddContext(g, c)
      PROVE  ChannelInv'
  BY <1>0, <1>2 DEF AddContext, Add, Go
<1>3. ASSUME NEW g \in Launchers, AddClientTransaction(g)
      PROVE  ChannelInv'
  BY <1>0, <1>3 DEF AddClientTransaction, Go
<1>4. ASSUME NEW g \in Launchers, WriteInvite(g)
      PROVE  ChannelInv'
  BY <1>0, <1>4 DEF WriteInvite, Go
<1>5. ASSUME NEW g \in Launchers, RecordCallee(g)
      PROVE  ChannelInv'
  BY <1>0, <1>5 DEF RecordCallee, Go
<1>6. ASSUME NEW g \in Launchers, StartTimerC(g)
      PROVE  ChannelInv'
  BY <1>0, <1>6 DEF StartTimerC, Go
<1>7. ASSUME NEW g \in Launchers, ErrorResponse(g)
      PROVE  ChannelInv'
  BY <1>0, <1>7 DEF ErrorResponse, Go
<1>8. ASSUME NEW g \in Launchers, ErrorCall(g)
      PROVE  ChannelInv'
  BY <1>0, <1>8 DEF ErrorCall, CloseCall, Go
<1>9. CASE HandleInvite
  BY <1>0, <1>9 DEF HandleInvite, Go
<1>10. CASE RouteInvite
  BY <1>0, <1>10 DEF RouteInvite, Go
<1>11. ASSUME NEW p \in Packets, NEW c \in CtKeys, NEW m \in AllCodes,
             ReceiveResponse(p, c, m)
      PROVE  ChannelInv'
  BY <1>0, <1>11 DEF ReceiveResponse, Go
<1>12. ASSUME NEW p \in Packets, HandleLock(p)
      PROVE  ChannelInv'
  BY <1>0, <1>12 DEF HandleLock, Go
<1>13. ASSUME NEW p \in Packets, HandleSend(p)
      PROVE  ChannelInv'
  BY <1>0, <1>13 DEF HandleSend, Go
<1>14. ASSUME NEW p \in Packets, GetCall(p)
      PROVE  ChannelInv'
  BY <1>0, <1>14 DEF GetCall, Guarded, Go
<1>15. ASSUME NEW p \in Packets, GetStFromCt(p)
      PROVE  ChannelInv'
  BY <1>0, <1>15 DEF GetStFromCt, Guarded, Go
<1>16. ASSUME NEW p \in Packets, LookupSt(p)
      PROVE  ChannelInv'
  BY <1>0, <1>16 DEF LookupSt, Guarded, Go
<1>17. ASSUME NEW p \in Packets, TellTimerC(p)
      PROVE  ChannelInv'
  BY <1>0, <1>17 DEF TellTimerC, Go
<1>18. ASSUME NEW p \in Packets, UpdateTimerC(p)
      PROVE  ChannelInv'
  BY <1>0, <1>18 DEF UpdateTimerC, Go
<1>19. ASSUME NEW p \in Packets, RemoveContext(p)
      PROVE  ChannelInv'
  BY <1>0, <1>19 DEF RemoveContext, Remove, LastChild, Go
<1>20. ASSUME NEW p \in Packets, RecordFinal(p)
      PROVE  ChannelInv'
  BY <1>0, <1>20 DEF RecordFinal, CloseCall, Go
<1>21. ASSUME NEW p \in Packets, ForwardResponse(p)
      PROVE  ChannelInv'
  BY <1>0, <1>21 DEF ForwardResponse, Go
<1>22. ASSUME NEW p \in Packets, HandleReturn(p)
      PROVE  ChannelInv'
  BY <1>0, <1>22 DEF HandleReturn
<1>23. ASSUME NEW c \in CtKeys,
             FireTimerC(c) \/ TimerCCancel(c) \/ TimerCAnswer(c) \/ TimerCDestroyed(c)
             \/ TimerCRemove(c) \/ TimerB(c) \/ TimerD(c)
      PROVE  ChannelInv'
  BY <1>1, <1>23 DEF FireTimerC, tcFrame, TimerCCancel, TimerCAnswer,
     TimerCDestroyed, TimerCRemove, TimerB, ctFrame, TimerD
<1>24. ASSUME NEW c \in CtKeys, TimerCClose(c)
      PROVE  ChannelInv'
  BY <1>0, <1>24 DEF TimerCClose, tcFrame, Remove, CloserAnswers, LastChild
<1>25. ASSUME NEW c \in CtKeys, CtDestroy(c)
      PROVE  ChannelInv'
  BY <1>0, <1>25 DEF CtDestroy, ctFrame, MuFree
<1>26. ASSUME NEW c \in CtKeys, ErrorGetCtx(c)
      PROVE  ChannelInv'
  BY <1>0, <1>26 DEF ErrorGetCtx, ctFrame
<1>27. ASSUME NEW c \in CtKeys, ErrorStopTimerC(c)
      PROVE  ChannelInv'
  BY <1>0, <1>27 DEF ErrorStopTimerC, ctFrame
<1>28. ASSUME NEW c \in CtKeys, ErrorLookup(c)
      PROVE  ChannelInv'
  BY <1>0, <1>28 DEF ErrorLookup, ctFrame
<1>29. ASSUME NEW c \in CtKeys, ErrorRemove(c)
      PROVE  ChannelInv'
  BY <1>0, <1>29 DEF ErrorRemove, ctFrame, Remove, LastChild
<1>30. ASSUME NEW c \in CtKeys, ErrorAnswer(c)
      PROVE  ChannelInv'
  BY <1>0, <1>30 DEF ErrorAnswer, ctFrame
<1>31. ASSUME NEW c \in CtKeys, ErrorCloseCall(c)
      PROVE  ChannelInv'
  BY <1>0, <1>31 DEF ErrorCloseCall, ctFrame, CloseCall
<1>32. ASSUME NEW c \in CtKeys, DeleteClientTransaction(c)
      PROVE  ChannelInv'
  BY <1>0, <1>32 DEF DeleteClientTransaction, ctFrame
<1>33. CASE HandleCancel \/ CancelNoMatch \/ CancelNextKey \/ ServerTransactionEnds \/
             ControllerStep \/ CallRemoved
  BY <1>1, <1>33 DEF HandleCancel, cancelFrame, CancelNoMatch, CloseCall,
     CancelNextKey, ServerTransactionEnds, ControllerStep,
     Timer100Try, Transmit, stFrame, CallRemoved
<1>34. CASE CancelOne
  BY <1>0, <1>34 DEF CancelOne, cancelFrame
<1>35. ASSUME NEW c \in CtKeys, NEW k \in CancelOf,
             CancelOutcome(c, k) \/ CancelAnswer(c, k)
      PROVE  ChannelInv'
  BY <1>1, <1>35 DEF CancelOutcome, canFrame, CancelAnswer
<1>36. ASSUME NEW c \in CtKeys, NEW k \in CancelOf, CancelClose(c, k)
      PROVE  ChannelInv'
  BY <1>0, <1>36 DEF CancelClose, canFrame, Remove, CloserAnswers, LastChild
<1>37. CASE UNCHANGED vars
  BY <1>1, <1>37 DEF vars, proxyVars
<1> HIDE DEF TypeOK, CtxInv, CtxTypeOK, MapsInverse, OriginInv, MainPlaces,
        PacketPlaces, Unopened, Unsent, Launching, Launchers, Places, Alive, AllCodes, IsFinal, IsFailure,
        CancelOf, LaunchInv, LockInv, Handling, SettledInv, Bound, Settled, ChannelInv,
        TimerCChannelsSafe, ctxVars, goVars, callVars, ctVars, tcVars, cancelVars, stVars
<1> QED
  BY <1>0, <1>2, <1>3, <1>4, <1>5, <1>6, <1>7, <1>8, <1>9, <1>10, <1>11, <1>12, <1>13,
     <1>14, <1>15, <1>16, <1>17, <1>18, <1>19, <1>20, <1>21, <1>22, <1>23, <1>24, <1>25,
     <1>26, <1>27, <1>28, <1>29, <1>30, <1>31, <1>32, <1>33, <1>34, <1>35, <1>36, <1>37
     DEF Next, MainStep, Launch, PacketStep, TimerCStep, CtStep, CancelStep, CanStep

\* The right to have a client transaction bound is passed on, never doubled.
LEMMA ForkStep ==
  ASSUME CtxInv, TypeOK, TypeOK', OriginInv, LaunchInv, LockInv, SettledInv, ForkInv,
         [Next]_vars
  PROVE  ForkInv'
<1> USE NamesAssumption, StAssumption, NoStAssumption
    DEF TypeOK, CtxInv, CtxTypeOK, MapsInverse, OriginInv, MainPlaces, PacketPlaces,
        Unopened, Unsent, Launching, Launchers, Places, Alive, AllCodes, IsFinal, IsFailure, CancelOf,
        LaunchInv, LockInv, Handling, SettledInv, Bound, Settled, ForkInv, Carries, Late,
        ctxVars, goVars, callVars, ctVars, tcVars, cancelVars, stVars
<1>0. Main \in Launchers /\ Packets \subseteq Launchers /\ Main \notin Packets
  BY NamesAssumption DEF Launchers
<1>1. ASSUME UNCHANGED <<ctToSt, pc, job, ctMu>>
      PROVE  ForkInv'
  BY <1>1
<1>2. ASSUME NEW g \in Launchers, NEW c \in CtKeys, AddContext(g, c)
      PROVE  ForkInv'
  BY <1>0, <1>2 DEF AddContext, Add, Go
<1>3. ASSUME NEW g \in Launchers, AddClientTransaction(g)
      PROVE  ForkInv'
  BY <1>0, <1>3 DEF AddClientTransaction, Go
<1>4. ASSUME NEW g \in Launchers, WriteInvite(g)
      PROVE  ForkInv'
  BY <1>0, <1>4 DEF WriteInvite, Go
<1>5. ASSUME NEW g \in Launchers, RecordCallee(g)
      PROVE  ForkInv'
  BY <1>0, <1>5 DEF RecordCallee, Go
<1>6. ASSUME NEW g \in Launchers, StartTimerC(g)
      PROVE  ForkInv'
  BY <1>0, <1>6 DEF StartTimerC, Go
<1>7. ASSUME NEW g \in Launchers, ErrorResponse(g)
      PROVE  ForkInv'
  BY <1>0, <1>7 DEF ErrorResponse, Go
<1>8. ASSUME NEW g \in Launchers, ErrorCall(g)
      PROVE  ForkInv'
  BY <1>0, <1>8 DEF ErrorCall, CloseCall, Go
<1>9. CASE HandleInvite
  BY <1>0, <1>9 DEF HandleInvite, Go
<1>10. CASE RouteInvite
  BY <1>0, <1>10 DEF RouteInvite, Go
<1>11. ASSUME NEW p \in Packets, NEW c \in CtKeys, NEW m \in AllCodes,
             ReceiveResponse(p, c, m)
      PROVE  ForkInv'
  BY <1>0, <1>11 DEF ReceiveResponse, Go
<1>12. ASSUME NEW p \in Packets, HandleLock(p)
      PROVE  ForkInv'
  <2>1. CASE ct[job[p]] = "dead"
    BY <1>0, <2>1, <1>12 DEF HandleLock, Go
  <2>2. CASE ct[job[p]] # "dead"
    BY <1>0, <2>2, <1>12 DEF HandleLock, Go
  <2> QED
    BY <2>1, <2>2
<1>13. ASSUME NEW p \in Packets, HandleSend(p)
      PROVE  ForkInv'
  BY <1>0, <1>13 DEF HandleSend, Go
<1>14. ASSUME NEW p \in Packets, GetCall(p)
      PROVE  ForkInv'
  BY <1>0, <1>14 DEF GetCall, Guarded, Go
<1>15. ASSUME NEW p \in Packets, GetStFromCt(p)
      PROVE  ForkInv'
  BY <1>0, <1>15 DEF GetStFromCt, Guarded, Go
<1>16. ASSUME NEW p \in Packets, LookupSt(p)
      PROVE  ForkInv'
  BY <1>0, <1>16 DEF LookupSt, Guarded, Go
<1>17. ASSUME NEW p \in Packets, TellTimerC(p)
      PROVE  ForkInv'
  BY <1>0, <1>17 DEF TellTimerC, Go
<1>18. ASSUME NEW p \in Packets, UpdateTimerC(p)
      PROVE  ForkInv'
  BY <1>0, <1>18 DEF UpdateTimerC, Go
<1>19. ASSUME NEW p \in Packets, RemoveContext(p)
      PROVE  ForkInv'
  BY <1>0, <1>19 DEF RemoveContext, Remove, LastChild, Go
<1>20. ASSUME NEW p \in Packets, RecordFinal(p)
      PROVE  ForkInv'
  <2>1. pc[p] = "record" /\ UNCHANGED <<ctxVars, job, ctVars>>
    BY <1>20 DEF RecordFinal
  <2>2. CASE UNCHANGED pc
    BY <1>1, <2>1, <2>2
  <2>3. ASSUME NEW to \in {"forward", "error", "ctx"}, Go(p, to)
        PROVE  ForkInv'
    BY <1>0, <2>1, <2>3 DEF Go
  <2> QED
    BY <1>20, <2>2, <2>3 DEF RecordFinal
<1>21. ASSUME NEW p \in Packets, ForwardResponse(p)
      PROVE  ForkInv'
  BY <1>0, <1>21 DEF ForwardResponse, Go
<1>22. ASSUME NEW p \in Packets, HandleReturn(p)
      PROVE  ForkInv'
  BY <1>0, <1>22 DEF HandleReturn
<1>23. ASSUME NEW c \in CtKeys,
             FireTimerC(c) \/ TimerCCancel(c) \/ TimerCAnswer(c) \/ TimerCDestroyed(c)
             \/ TimerCRemove(c) \/ TimerB(c) \/ TimerD(c) \/ CtDestroy(c) \/
             ErrorGetCtx(c) \/ ErrorStopTimerC(c) \/ ErrorLookup(c) \/ ErrorAnswer(c)
             \/ ErrorCloseCall(c) \/ DeleteClientTransaction(c)
      PROVE  ForkInv'
  BY <1>1, <1>23 DEF FireTimerC, tcFrame, TimerCCancel, TimerCAnswer,
     TimerCDestroyed, TimerCRemove, TimerB, ctFrame, TimerD, CtDestroy, ErrorGetCtx,
     ErrorStopTimerC, ErrorLookup, ErrorAnswer, ErrorCloseCall, CloseCall,
     DeleteClientTransaction
<1>24. ASSUME NEW c \in CtKeys, TimerCClose(c)
      PROVE  ForkInv'
  BY <1>0, <1>24 DEF TimerCClose, tcFrame, Remove, CloserAnswers, LastChild
<1>25. ASSUME NEW c \in CtKeys, ErrorRemove(c)
      PROVE  ForkInv'
  BY <1>0, <1>25 DEF ErrorRemove, ctFrame, Remove, LastChild
<1>26. CASE HandleCancel \/ CancelNoMatch \/ CancelNextKey \/ CancelOne \/
             ServerTransactionEnds \/ ControllerStep \/ CallRemoved
  BY <1>1, <1>26 DEF HandleCancel, cancelFrame, CancelNoMatch, CloseCall,
     CancelNextKey, CancelOne, ServerTransactionEnds, ControllerStep,
     Timer100Try, Transmit, stFrame, CallRemoved
<1>27. ASSUME NEW c \in CtKeys, NEW k \in CancelOf,
             CancelOutcome(c, k) \/ CancelAnswer(c, k)
      PROVE  ForkInv'
  BY <1>1, <1>27 DEF CancelOutcome, canFrame, CancelAnswer
<1>28. ASSUME NEW c \in CtKeys, NEW k \in CancelOf, CancelClose(c, k)
      PROVE  ForkInv'
  BY <1>0, <1>28 DEF CancelClose, canFrame, Remove, CloserAnswers, LastChild
<1>29. CASE UNCHANGED vars
  BY <1>1, <1>29 DEF vars, proxyVars
<1> HIDE DEF TypeOK, CtxInv, CtxTypeOK, MapsInverse, OriginInv, MainPlaces,
        PacketPlaces, Unopened, Unsent, Launching, Launchers, Places, Alive, AllCodes, IsFinal, IsFailure,
        CancelOf, LaunchInv, LockInv, Handling, SettledInv, Bound, Settled, ForkInv, Carries,
        Late, ctxVars, goVars, callVars, ctVars, tcVars, cancelVars, stVars
<1> QED
  BY <1>0, <1>2, <1>3, <1>4, <1>5, <1>6, <1>7, <1>8, <1>9, <1>10, <1>11, <1>12, <1>13,
     <1>14, <1>15, <1>16, <1>17, <1>18, <1>19, <1>20, <1>21, <1>22, <1>23, <1>24, <1>25,
     <1>26, <1>27, <1>28, <1>29 DEF Next, MainStep, Launch, PacketStep, TimerCStep,
     CtStep, CancelStep, CanStep

\* The callee is recorded in time.
LEMMA RequestStep ==
  ASSUME TypeOK, TypeOK', OriginInv, SettledInv, RequestInv, [Next]_vars
  PROVE  RequestInv'
<1> USE NamesAssumption
    DEF TypeOK, OriginInv, MainPlaces, Unopened, Unsent, Launchers, RequestInv,
        RedirectionFindsRequest, SettledInv, Alive, ctxVars, goVars, callVars, ctVars,
        tcVars, cancelVars, stVars
<1>0. Main \in Launchers /\ Packets \subseteq Launchers /\ Main \notin Packets
  BY NamesAssumption DEF Launchers
<1>1. ASSUME UNCHANGED <<pc, sentRequest, call, panic>>
      PROVE  RequestInv'
  BY <1>1
<1>2. ASSUME NEW g \in Launchers, NEW c \in CtKeys, AddContext(g, c)
      PROVE  RequestInv'
  BY <1>0, <1>2 DEF AddContext, Add, Go
<1>3. ASSUME NEW g \in Launchers, AddClientTransaction(g)
      PROVE  RequestInv'
  BY <1>0, <1>3 DEF AddClientTransaction, Go
<1>4. ASSUME NEW g \in Launchers, WriteInvite(g)
      PROVE  RequestInv'
  BY <1>0, <1>4 DEF WriteInvite, Go
<1>5. ASSUME NEW g \in Launchers, RecordCallee(g)
      PROVE  RequestInv'
  BY <1>0, <1>5 DEF RecordCallee, Go
<1>6. ASSUME NEW g \in Launchers, StartTimerC(g)
      PROVE  RequestInv'
  BY <1>0, <1>6 DEF StartTimerC, Go
<1>7. ASSUME NEW g \in Launchers, ErrorResponse(g)
      PROVE  RequestInv'
  BY <1>0, <1>7 DEF ErrorResponse, Go
<1>8. ASSUME NEW g \in Launchers, ErrorCall(g)
      PROVE  RequestInv'
  BY <1>0, <1>8 DEF ErrorCall, CloseCall, Go
<1>9. CASE HandleInvite
  BY <1>0, <1>9 DEF HandleInvite, Go
<1>10. CASE RouteInvite
  BY <1>0, <1>10 DEF RouteInvite, Go
<1>11. ASSUME NEW p \in Packets, NEW c \in CtKeys, NEW m \in AllCodes,
             ReceiveResponse(p, c, m)
      PROVE  RequestInv'
  BY <1>0, <1>11 DEF ReceiveResponse, Go
<1>12. ASSUME NEW p \in Packets, HandleLock(p)
      PROVE  RequestInv'
  BY <1>0, <1>12 DEF HandleLock, Go
<1>13. ASSUME NEW p \in Packets, HandleSend(p)
      PROVE  RequestInv'
  BY <1>0, <1>13 DEF HandleSend, Go
<1>14. ASSUME NEW p \in Packets, GetCall(p)
      PROVE  RequestInv'
  BY <1>0, <1>14 DEF GetCall, Guarded, Go
<1>15. ASSUME NEW p \in Packets, GetStFromCt(p)
      PROVE  RequestInv'
  BY <1>0, <1>15 DEF GetStFromCt, Guarded, Go
<1>16. ASSUME NEW p \in Packets, LookupSt(p)
      PROVE  RequestInv'
  BY <1>0, <1>16 DEF LookupSt, Guarded, Go
<1>17. ASSUME NEW p \in Packets, TellTimerC(p)
      PROVE  RequestInv'
  BY <1>0, <1>17 DEF TellTimerC, Go
<1>18. ASSUME NEW p \in Packets, UpdateTimerC(p)
      PROVE  RequestInv'
  BY <1>0, <1>18 DEF UpdateTimerC, Go
<1>19. ASSUME NEW p \in Packets, RemoveContext(p)
      PROVE  RequestInv'
  BY <1>0, <1>19 DEF RemoveContext, Remove, LastChild, Go
<1>20. ASSUME NEW p \in Packets, RecordFinal(p)
      PROVE  RequestInv'
  BY <1>0, <1>20 DEF RecordFinal, CloseCall, Go
<1>21. ASSUME NEW p \in Packets, ForwardResponse(p)
      PROVE  RequestInv'
  BY <1>0, <1>21 DEF ForwardResponse, Go
<1>22. ASSUME NEW p \in Packets, HandleReturn(p)
      PROVE  RequestInv'
  BY <1>0, <1>22 DEF HandleReturn
<1>23. ASSUME NEW c \in CtKeys,
             FireTimerC(c) \/ TimerCCancel(c) \/ TimerCClose(c) \/ TimerCAnswer(c) \/
             TimerCDestroyed(c) \/ TimerCRemove(c) \/ TimerB(c) \/ TimerD(c) \/
             CtDestroy(c) \/ ErrorGetCtx(c) \/ ErrorRemove(c) \/ ErrorAnswer(c) \/
             DeleteClientTransaction(c)
      PROVE  RequestInv'
  BY <1>1, <1>23 DEF FireTimerC, tcFrame, TimerCCancel, TimerCClose, TimerCAnswer, TimerCDestroyed, TimerCRemove, TimerB, ctFrame, TimerD, CtDestroy,
     ErrorGetCtx, ErrorRemove, ErrorAnswer, DeleteClientTransaction
<1>24. ASSUME NEW c \in CtKeys, ErrorStopTimerC(c)
      PROVE  RequestInv'
  BY <1>0, <1>24 DEF ErrorStopTimerC, ctFrame
<1>25. ASSUME NEW c \in CtKeys, ErrorLookup(c)
      PROVE  RequestInv'
  BY <1>0, <1>25 DEF ErrorLookup, ctFrame
<1>26. ASSUME NEW c \in CtKeys, ErrorCloseCall(c)
      PROVE  RequestInv'
  BY <1>0, <1>26 DEF ErrorCloseCall, ctFrame, CloseCall
<1>27. CASE HandleCancel \/ CancelNextKey \/ ServerTransactionEnds \/ ControllerStep
  BY <1>1, <1>27 DEF HandleCancel, cancelFrame, CancelNextKey, ServerTransactionEnds,
     ControllerStep, Timer100Try, Transmit, stFrame
<1>28. CASE CancelNoMatch
  BY <1>0, <1>28 DEF CancelNoMatch, cancelFrame, CloseCall
<1>29. CASE CancelOne
  BY <1>0, <1>29 DEF CancelOne, cancelFrame
<1>30. ASSUME NEW c \in CtKeys, NEW k \in CancelOf,
             CancelOutcome(c, k) \/ CancelClose(c, k) \/ CancelAnswer(c, k)
      PROVE  RequestInv'
  BY <1>1, <1>30 DEF CancelOutcome, canFrame, CancelClose, CancelAnswer
<1>31. CASE CallRemoved
  BY <1>0, <1>31 DEF CallRemoved
<1>32. CASE UNCHANGED vars
  BY <1>1, <1>32 DEF vars, proxyVars
<1> HIDE DEF TypeOK, OriginInv, MainPlaces, Unopened, Unsent, Launchers, RequestInv,
        RedirectionFindsRequest, SettledInv, Alive, ctxVars, goVars, callVars, ctVars, tcVars,
        cancelVars, stVars
<1> QED
  BY <1>0, <1>2, <1>3, <1>4, <1>5, <1>6, <1>7, <1>8, <1>9, <1>10, <1>11, <1>12, <1>13,
     <1>14, <1>15, <1>16, <1>17, <1>18, <1>19, <1>20, <1>21, <1>22, <1>23, <1>24, <1>25,
     <1>26, <1>27, <1>28, <1>29, <1>30, <1>31, <1>32 DEF Next, MainStep, Launch,
     PacketStep, TimerCStep, CtStep, CancelStep, CanStep

\* Without redirection, every step keeps the account of who owes an answer.
LEMMA AnswerStep ==
  ASSUME CtxInv, TypeOK, TypeOK', OriginInv, AnswerInv, [Next]_vars
  PROVE  AnswerInv'
<1> USE DEF ctxVars, goVars, callVars, ctVars, tcVars, cancelVars, stVars
<1>0. Main \in Launchers /\ Packets \subseteq Launchers /\ Main \notin Packets
  BY NamesAssumption DEF Launchers
<1>1. /\ \A c \in CtKeys : Bound(c) => c \in used
      /\ pc[Main] \in Unopened => used = {}
      /\ \A o \in Owners, c \in CtKeys : Owes(o, c) => c \in used
  BY DEF CtxInv, MapsInverse, OriginInv, Bound, Owes, Owners, CancelOf
\* A step that nobody notices.
<1>2. ASSUME UNCHANGED <<pc, code, scenario, used, stTable, stCtl, errors>>,
             \A c \in CtKeys : Bound(c)' => Bound(c),
             \A o \in Owners, c \in CtKeys : Owes(o, c)' => Owes(o, c)
      PROVE  AnswerInv'
  BY <1>2 DEF AnswerInv, FinalSent, Done, Redirects
\* A packet goroutine goes on.
<1>3. ASSUME NEW p \in Packets, NEW to \in {"idle", "lock", "send", "return", "getCall",
                 "getCtx", "lookup", "getTimer", "update", "remove", "forward"},
             Go(p, to), to = "forward" => ~IsFinal(code[p]),
             \A q \in Packets \ {p} : code'[q] = code[q],
             UNCHANGED code \/ to # "forward",
             UNCHANGED <<ctxVars, scenario, teardown, tc, can, stVars>>
      PROVE  AnswerInv'
  <2>1. /\ \A c \in CtKeys : Bound(c)' <=> Bound(c)
        /\ \A o \in Owners, c \in CtKeys : Owes(o, c)' <=> Owes(o, c)
    BY <1>3 DEF Bound, Owes
  <2>2. /\ pc'[Main] = pc[Main] /\ pc'[p] = to
        /\ \A q \in Packets \ {p} : pc'[q] = pc[q]
    BY <1>0, <1>3 DEF Go, TypeOK
  <2> QED
    BY <1>3, <2>1, <2>2 DEF AnswerInv, FinalSent, Done, Redirects, Launching
\* Remove(c) by a goroutine o that answers if it took the last one away.
<1>4. ASSUME NEW o \in Owners, NEW c \in CtKeys, Remove(c),
             UNCHANGED <<pc, code, scenario, stVars>>,
             \A q \in Owners, d \in CtKeys :
                Owes(q, d)' => Owes(q, d) \/ (LastChild(c) /\ q = o /\ d = c)
      PROVE  AnswerInv'
  <2>1. used' = used /\ \A d \in CtKeys : Bound(d)' => Bound(d)
    BY <1>4, StAssumption DEF Remove, Bound, CtxInv, CtxTypeOK
  <2>2. CASE ~LastChild(c)
    BY <1>2, <1>4, <2>1, <2>2
  <2>3. CASE LastChild(c)
    <3>1. Bound(c) /\ \A d \in CtKeys : ~Bound(d)'
      BY <1>4, <2>3, StAssumption DEF LastChild, Remove, Bound, CtxInv, CtxTypeOK, MapsInverse
    <3>2. pc[Main] \notin Unopened /\ ~Done
      BY <1>1, <3>1 DEF Done
    <3>3. Done'
      BY <1>4, <3>1, <3>2 DEF Done, Unopened
    <3>4. \A q \in Owners, d \in CtKeys : ~Redirects /\ Owes(q, d)' => q = o /\ d = c
      BY <1>4, <3>2 DEF AnswerInv
    <3> QED
      BY <1>4, <2>1, <3>2, <3>3, <3>4 DEF AnswerInv, Redirects, Unopened
  <2> QED
    BY <2>2, <2>3
\* The goroutine o that owes an answer for c gives it.
<1>5. ASSUME NEW o \in Owners, NEW c \in CtKeys, Owes(o, c), ~Owes(o, c)', WriteError,
             \A q \in Owners, d \in CtKeys : Owes(q, d)' => Owes(q, d),
             UNCHANGED <<ctxVars, pc, code, scenario>>
      PROVE  AnswerInv'
  <2>1. Done <=> Done'
    BY <1>5 DEF Done, Bound
  <2>2. pc[Main] \notin Unopened
    BY <1>1, <1>5
  <2>3. errors = 0 => errors' = 1
    BY <1>5 DEF WriteError
  <2>4. stTable' = stTable /\ (stCtl = "answered" => stCtl' = stCtl)
    BY <1>5 DEF WriteError, HandOver
  <2> QED
    BY <1>5, <2>1, <2>2, <2>3, <2>4 DEF AnswerInv, Redirects, Unopened
\* The steps of Main that concern it: without redirection nobody else launches.
<1>6. ASSUME NEW g \in Launchers, Launch(g)
      PROVE  AnswerInv'
  <2>1. CASE Redirects
    <3>1. scenario' = scenario
      BY <1>6 DEF Launch, AddContext, AddClientTransaction, WriteInvite, RecordCallee,
                  StartTimerC, ErrorResponse, ErrorCall, CloseCall
    <3> QED
      BY <2>1, <3>1 DEF AnswerInv, Redirects
  <2>2. CASE ~Redirects
    <3>1. g = Main
      BY <1>6, <2>2 DEF AnswerInv, Launchers, Launch, AddContext, AddClientTransaction,
          WriteInvite, RecordCallee, StartTimerC, ErrorResponse, ErrorCall, Launching
    <3>2. ASSUME NEW to \in Places, Go(Main, to)
          PROVE  pc'[Main] = to /\ \A p \in Packets : pc'[p] = pc[p]
      BY <1>0, <3>2 DEF Go, TypeOK
    <3>3. ASSUME NEW c \in CtKeys, AddContext(Main, c)
          PROVE  AnswerInv'
      <4>1. /\ used = {} /\ used' = {c} /\ ~Done
            /\ \A o \in Owners, d \in CtKeys : Owes(o, d)' <=> Owes(o, d)
        BY <1>1, <3>3 DEF AddContext, Add, Unopened, Done, Owes
      <4>2. pc'[Main] = "table" /\ \A p \in Packets : pc'[p] = pc[p]
        BY <3>2, <3>3 DEF AddContext, Places
      <4>3. UNCHANGED <<code, scenario, stVars>>
        BY <3>3 DEF AddContext
      <4> QED
        BY <2>2, <4>1, <4>2, <4>3 DEF AnswerInv, FinalSent, Redirects
    <3>4. ASSUME NEW to \in Places \ {"start", "route", "ctx", "error"}, Go(Main, to),
                 UNCHANGED <<ctxVars, code, scenario, stVars>>,
                 \A o \in Owners, d \in CtKeys : Owes(o, d)' => Owes(o, d)
          PROVE  AnswerInv'
      <4>1. Done => Done'
        BY <3>2, <3>4 DEF Done, Bound
      <4> QED
        BY <3>2, <3>4, <4>1 DEF AnswerInv, FinalSent, Redirects
    <3>5. CASE AddClientTransaction(Main) \/ WriteInvite(Main) \/ RecordCallee(Main)
                 \/ ErrorCall(Main)
      BY <3>4, <3>5 DEF AddClientTransaction, WriteInvite, RecordCallee, ErrorCall,
          CloseCall, Places, Owes
    <3>6. CASE StartTimerC(Main)
      <4>1. \A o \in Owners, d \in CtKeys : Owes(o, d)' => Owes(o, d)
        BY <3>6 DEF StartTimerC, Owes, TypeOK
      <4> QED
        BY <3>4, <3>6, <4>1 DEF StartTimerC, Places
    <3>a. CASE ErrorResponse(Main) /\ WriterParks /\ UNCHANGED pc
      BY <1>2, <3>a DEF ErrorResponse, WriterParks, Owes, Bound
    <3>7. CASE ErrorResponse(Main) /\ WriteError /\ Go(Main, "errorCall")
      <4>1. used = {} /\ errors = 0 /\ pc[Main] = "error"
        BY <1>1, <2>2, <3>7 DEF ErrorResponse, Unopened, AnswerInv
      <4>2. pc'[Main] = "errorCall" /\ \A p \in Packets : pc'[p] = pc[p]
        BY <3>2, <3>7 DEF ErrorResponse, Places
      <4>3. errors' = 1 /\ UNCHANGED <<ctxVars, code, scenario, stTable>>
            /\ (stCtl = "answered" => stCtl' = stCtl)
        BY <3>7, <4>1 DEF ErrorResponse, WriteError, HandOver
      <4>4. \A o \in Owners, d \in CtKeys : ~Owes(o, d)' /\ ~Bound(d)'
        BY <1>1, <3>7, <4>1, <4>3 DEF ErrorResponse, Owes, Bound
      <4>5. Done'
        BY <4>2, <4>4 DEF Done, Owners
      <4> QED
        BY <2>2, <4>1, <4>2, <4>3, <4>4, <4>5 DEF AnswerInv, Redirects
    <3> QED
      BY <1>6, <3>1, <3>3, <3>5, <3>6, <3>7, <3>a DEF Launch, ErrorResponse
  <2> QED
    BY <2>1, <2>2
<1>7. CASE HandleInvite \/ RouteInvite
  <2>1. pc[Main] \in {"start", "route"} /\ \E to \in {"route", "ctx", "error"} : Go(Main, to)
    BY <1>7 DEF HandleInvite, RouteInvite
  <2>2. UNCHANGED <<ctxVars, code, scenario, teardown, tc, can, stVars>>
    BY <1>7 DEF HandleInvite, RouteInvite
  <2>3. pc'[Main] \in {"route", "ctx", "error"} /\ \A p \in Packets : pc'[p] = pc[p]
    BY <1>0, <2>1 DEF Go, TypeOK
  <2>4. \A o \in Owners, d \in CtKeys : (Owes(o, d)' <=> Owes(o, d)) /\ ~Done
    BY <2>1, <2>2 DEF Owes, Done
  <2>5. ~Done
    BY <2>1 DEF Done
  <2> QED
    BY <2>1, <2>2, <2>3, <2>4, <2>5 DEF AnswerInv, FinalSent, Redirects
<1>8. ASSUME NEW p \in Packets, NEW c \in CtKeys, NEW m \in AllCodes,
             ReceiveResponse(p, c, m)
      PROVE  AnswerInv'
  BY <1>0, <1>3, <1>8 DEF ReceiveResponse, TypeOK
<1>9. ASSUME NEW p \in Packets, HandleLock(p) \/ HandleSend(p) \/ GetCall(p)
                \/ GetStFromCt(p) \/ LookupSt(p)
      PROVE  AnswerInv'
  BY <1>3, <1>9 DEF HandleLock, HandleSend, GetCall, GetStFromCt, LookupSt, Guarded
<1>10. ASSUME NEW p \in Packets, TellTimerC(p)
       PROVE  AnswerInv'
  <2>1. \E to \in {"return", "update", "remove", "forward"} :
           Go(p, to) /\ (to = "forward" => ~IsFinal(code[p]))
    BY <1>10 DEF TellTimerC, IsFinal, IsFailure
  <2> QED
    BY <1>3, <1>10, <2>1 DEF TellTimerC
<1>11. ASSUME NEW p \in Packets, UpdateTimerC(p)
       PROVE  AnswerInv'
  <2>1. ~IsFinal(code[p])
    BY <1>11 DEF UpdateTimerC, OriginInv, IsFinal, IsFailure
  <2>2. CASE UNCHANGED pc
    BY <1>2, <1>11, <2>2 DEF UpdateTimerC, Owes, Bound
  <2> QED
    BY <1>3, <1>11, <2>1, <2>2 DEF UpdateTimerC
<1>12. ASSUME NEW p \in Packets, RemoveContext(p)
       PROVE  AnswerInv'
  <2>1. job[p] \in used /\ used \subseteq CtKeys /\ pc[p] = "remove"
    BY <1>12 DEF RemoveContext, OriginInv, CtxInv, CtxTypeOK
  <2>2. UNCHANGED <<code, scenario, teardown, tc, can, stVars, used>>
    BY <1>12 DEF RemoveContext, Remove
  <2>3. pc'[Main] = pc[Main] /\ pc'[p] = "record" /\ \A q \in Packets \ {p} : pc'[q] = pc[q]
    BY <1>0, <1>12 DEF RemoveContext, Go, TypeOK
  <2>4. \A d \in CtKeys : (Bound(d)' => Bound(d)) /\ (d = job[p] => ~Bound(d)')
    BY <1>12, <2>1 DEF RemoveContext, Remove, Bound, CtxInv, CtxTypeOK
  <2>5. ~Redirects => Done'
    BY <1>1, <2>1, <2>3, <2>4 DEF Done, AnswerInv, Unopened
  <2>6. \A o \in Owners, c \in CtKeys : Owes(o, c)' <=> Owes(o, c)
    BY <2>2 DEF Owes
  <2> QED
    BY <2>1, <2>2, <2>3, <2>5, <2>6 DEF AnswerInv, Redirects, Launching
<1>13. ASSUME NEW p \in Packets, RecordFinal(p)
       PROVE  AnswerInv'
  <2>1. UNCHANGED <<ctxVars, job, code, scenario, teardown, tc, can, stVars>>
    BY <1>13 DEF RecordFinal, CloseCall
  <2>2. CASE UNCHANGED pc
    BY <1>2, <2>1, <2>2 DEF Owes, Bound
  <2>3. CASE Redirects
    BY <2>1, <2>3 DEF AnswerInv, Redirects
  <2>4. CASE ~Redirects /\ ~UNCHANGED pc
    <3>1. code[p] \in scenario.codes /\ pc[p] = "record"
      BY <1>13 DEF RecordFinal, OriginInv
    <3>2. Go(p, "forward")
      BY <1>13, <2>4, <3>1 DEF RecordFinal, Redirects
    <3>3. pc'[Main] = pc[Main] /\ pc'[p] = "forward" /\ \A q \in Packets \ {p} : pc'[q] = pc[q]
      BY <1>0, <3>2 DEF Go, TypeOK
    <3>4. /\ Done <=> Done'
          /\ \A o \in Owners, c \in CtKeys : Owes(o, c)' <=> Owes(o, c)
      BY <2>1, <3>3 DEF Owes, Done, Bound
    <3> QED
      BY <2>1, <3>1, <3>3, <3>4 DEF AnswerInv, FinalSent, Redirects, Launching
  <2> QED
    BY <2>2, <2>3, <2>4
<1>14. ASSUME NEW p \in Packets, ForwardResponse(p)
       PROVE  AnswerInv'
  <2>1. pc[p] = "forward" /\ UNCHANGED <<ctxVars, code, scenario, teardown, tc, can>>
    BY <1>14 DEF ForwardResponse
  <2>2. CASE WriterParks /\ UNCHANGED pc
    BY <1>2, <2>1, <2>2 DEF WriterParks, Owes, Bound
  <2>3. CASE WriteForwarded(code[p]) /\ Go(p, "return")
    <3>1. /\ UNCHANGED <<stTable, errors>>
          /\ stCtl = "answered" => stCtl' = stCtl
      BY <2>3 DEF WriteForwarded, HandOver
    <3>2. FinalSent' => FinalSent \/ IsFinal(code[p])
      <4>1. code[p] \in AllCodes \cup {"nil"}
        BY <1>0 DEF TypeOK
      <4>2. Hand(code[p]) \in {"ok", "fail", "error", "answered"} => IsFinal(code[p])
        BY <4>1 DEF Hand, AllCodes, IsFinal, IsFailure
      <4> QED
        BY <2>3, <4>1, <4>2 DEF WriteForwarded, HandOver, FinalSent
    <3>3. pc'[Main] = pc[Main] /\ pc'[p] = "return" /\ \A q \in Packets \ {p} : pc'[q] = pc[q]
      BY <1>0, <2>3 DEF Go, TypeOK
    <3>4. /\ Done <=> Done'
          /\ \A o \in Owners, c \in CtKeys : Owes(o, c)' <=> Owes(o, c)
      BY <2>1, <3>3 DEF Owes, Done, Bound
    <3> QED
      BY <2>1, <3>1, <3>2, <3>3, <3>4 DEF AnswerInv, Redirects, Launching
  <2> QED
    BY <1>14, <2>2, <2>3 DEF ForwardResponse
<1>15. ASSUME NEW p \in Packets, HandleReturn(p)
       PROVE  AnswerInv'
  BY <1>0, <1>3, <1>15 DEF HandleReturn, Go, TypeOK
<1>16. ASSUME NEW c \in CtKeys, TimerCStep(c)
       PROVE  AnswerInv'
  <2> USE DEF tcFrame
  <2>1. CASE FireTimerC(c) \/ TimerCCancel(c) \/ TimerCDestroyed(c) \/ TimerCRemove(c)
    <3>1. \A o \in Owners, d \in CtKeys : Owes(o, d)' => Owes(o, d)
      BY <2>1 DEF FireTimerC, TimerCCancel, TimerCDestroyed, TimerCRemove, Owes, TypeOK
    <3>2. UNCHANGED <<ctxVars, pc, code, scenario, stVars>>
      BY <2>1 DEF FireTimerC, TimerCCancel, TimerCDestroyed, TimerCRemove
    <3> QED
      BY <1>2, <3>1, <3>2 DEF Bound
  <2>2. CASE TimerCClose(c)
    <3>1. \A q \in Owners, d \in CtKeys :
             Owes(q, d)' => Owes(q, d) \/ (LastChild(c) /\ q = "timer" /\ d = c)
      BY <2>2 DEF TimerCClose, CloserAnswers, Owes, TypeOK, Owners, CancelOf
    <3> QED
      BY <1>4, <2>2, <3>1 DEF TimerCClose, Owners
  <2>4. CASE TimerCAnswer(c) /\ WriterParks /\ UNCHANGED tc
    BY <1>2, <2>4 DEF TimerCAnswer, WriterParks, Owes, Bound
  <2>3. CASE TimerCAnswer(c) /\ WriteError /\ tc' = [tc EXCEPT ![c] = "remove"]
    <3>1. /\ Owes("timer", c) /\ ~Owes("timer", c)'
          /\ \A q \in Owners, d \in CtKeys : Owes(q, d)' => Owes(q, d)
      BY <2>3 DEF TimerCAnswer, Owes, TypeOK, Owners, CancelOf
    <3> QED
      BY <1>5, <2>3, <3>1 DEF TimerCAnswer, Owners
  <2> QED
    BY <1>16, <2>1, <2>2, <2>3, <2>4 DEF TimerCStep, TimerCAnswer
<1>17. ASSUME NEW c \in CtKeys, CtStep(c)
       PROVE  AnswerInv'
  <2> USE DEF ctFrame
  <2>1. CASE TimerB(c) \/ TimerD(c) \/ CtDestroy(c) \/ ErrorGetCtx(c) \/ ErrorStopTimerC(c)
               \/ ErrorLookup(c) \/ ErrorCloseCall(c) \/ DeleteClientTransaction(c)
    <3>1. \A o \in Owners, d \in CtKeys : Owes(o, d)' => Owes(o, d)
      BY <2>1 DEF TimerB, TimerD, CtDestroy, ErrorGetCtx, ErrorStopTimerC, ErrorLookup,
          ErrorCloseCall, DeleteClientTransaction, Owes, TypeOK
    <3>2. UNCHANGED <<ctxVars, pc, code, scenario, stVars>>
      BY <2>1 DEF TimerB, TimerD, CtDestroy, ErrorGetCtx, ErrorStopTimerC, ErrorLookup,
          ErrorCloseCall, CloseCall, DeleteClientTransaction
    <3> QED
      BY <1>2, <3>1, <3>2 DEF Bound
  <2>2. CASE ErrorRemove(c)
    <3>1. \A q \in Owners, d \in CtKeys :
             Owes(q, d)' => Owes(q, d) \/ (LastChild(c) /\ q = "error" /\ d = c)
      BY <2>2 DEF ErrorRemove, Owes, TypeOK, Owners, CancelOf
    <3> QED
      BY <1>4, <2>2, <3>1 DEF ErrorRemove, Owners
  <2>4. CASE ErrorAnswer(c) /\ WriterParks /\ UNCHANGED teardown
    BY <1>2, <2>4 DEF ErrorAnswer, WriterParks, Owes, Bound
  <2>3. CASE ErrorAnswer(c) /\ WriteError /\ teardown' = [teardown EXCEPT ![c] = "errorCall"]
    <3>1. /\ Owes("error", c) /\ ~Owes("error", c)'
          /\ \A q \in Owners, d \in CtKeys : Owes(q, d)' => Owes(q, d)
      BY <2>3 DEF ErrorAnswer, Owes, TypeOK, Owners, CancelOf
    <3> QED
      BY <1>5, <2>3, <3>1 DEF ErrorAnswer, Owners
  <2> QED
    BY <1>17, <2>1, <2>2, <2>3, <2>4 DEF CtStep, ErrorAnswer
<1>18. CASE HandleCancel \/ CancelStep
  <2> USE DEF cancelFrame
  <2>1. CASE HandleCancel \/ CancelNoMatch \/ CancelNextKey
    BY <1>2, <2>1 DEF HandleCancel, CancelNoMatch, CancelNextKey, CloseCall, Owes, Bound
  <2>2. CASE CancelOne
    <3>1. \A d \in CtKeys, k \in CancelOf : can'[d][k] = "answer" => can[d][k] = "answer"
      <4>1. CASE can' = [can EXCEPT ![target]["uac"] = "pending"]
        BY <4>1 DEF TypeOK, CancelOf
      <4> QED
        BY <2>2, <4>1 DEF CancelOne
    <3>2. \A o \in Owners, d \in CtKeys : Owes(o, d)' => Owes(o, d)
      BY <2>2, <3>1 DEF CancelOne, Owes
    <3> QED
      BY <1>2, <2>2, <3>2 DEF CancelOne, Bound
  <2> QED
    BY <1>18, <2>1, <2>2 DEF CancelStep
<1>19. ASSUME NEW c \in CtKeys, NEW k \in CancelOf, CanStep(c, k)
       PROVE  AnswerInv'
  <2> USE DEF canFrame
  <2>0. k \in Owners
    BY DEF Owners
  <2>1. ASSUME NEW v, can' = [can EXCEPT ![c][k] = v]
        PROVE  \A d \in CtKeys, l \in CancelOf :
                  can'[d][l] = IF d = c /\ l = k THEN v ELSE can[d][l]
    BY <2>1 DEF TypeOK
  <2>2. CASE CancelOutcome(c, k)
    <3>1. PICK v \in {"accepted", "close"} : can' = [can EXCEPT ![c][k] = v]
      BY <2>2 DEF CancelOutcome
    <3>2. \A o \in Owners, d \in CtKeys : Owes(o, d)' => Owes(o, d)
      BY <2>1, <2>2, <3>1 DEF CancelOutcome, Owes
    <3> QED
      BY <1>2, <2>2, <3>2 DEF CancelOutcome, Bound
  <2>3. CASE CancelClose(c, k)
    <3>1. \A q \in Owners, d \in CtKeys :
             Owes(q, d)' => Owes(q, d) \/ (LastChild(c) /\ q = k /\ d = c)
      BY <2>1, <2>3 DEF CancelClose, CloserAnswers, Owes, Owners, CancelOf
    <3> QED
      BY <1>4, <2>0, <2>3, <3>1 DEF CancelClose
  <2>5. CASE CancelAnswer(c, k) /\ WriterParks /\ UNCHANGED can
    BY <1>2, <2>5 DEF CancelAnswer, WriterParks, Owes, Bound
  <2>4. CASE CancelAnswer(c, k) /\ WriteError /\ can' = [can EXCEPT ![c][k] = "end"]
    <3>a. /\ can[c][k] = "answer" /\ UNCHANGED <<tc, teardown>>
          /\ \A d \in CtKeys, l \in CancelOf :
                can'[d][l] = IF d = c /\ l = k THEN "end" ELSE can[d][l]
      BY <2>1, <2>4 DEF CancelAnswer
    <3>1. /\ Owes(k, c) /\ ~Owes(k, c)'
          /\ \A q \in Owners, d \in CtKeys : Owes(q, d)' => Owes(q, d)
      BY <3>a DEF Owes, CancelOf
    <3> QED
      BY <1>5, <2>0, <2>4, <3>1 DEF CancelAnswer
  <2> QED
    BY <1>19, <2>2, <2>3, <2>4, <2>5 DEF CanStep, CancelAnswer
<1>20. CASE ServerTransactionEnds \/ ControllerStep
  <2>2. /\ UNCHANGED <<ctxVars, pc, code, scenario, tc, teardown, can, errors>>
        /\ FinalSent' => FinalSent
        /\ stTable' # stTable \/ stCtl' # stCtl =>
              (stCtl = "answered" /\ stCtl' = stCtl) \/ (stTable' = stTable /\ stCtl # "answered")
    BY <1>20 DEF ServerTransactionEnds, ControllerStep, Timer100Try, Transmit, stFrame,
        InHand, FinalSent
  <2>1. /\ Done <=> Done'
        /\ \A o \in Owners, c \in CtKeys : Owes(o, c)' <=> Owes(o, c)
    BY <2>2 DEF Owes, Done, Bound
  <2> QED
    BY <2>1, <2>2 DEF AnswerInv, Redirects, TypeOK
<1>21. CASE CallRemoved \/ UNCHANGED vars
  BY <1>2, <1>21 DEF CallRemoved, vars, proxyVars, Owes, Bound
<1> QED
  BY <1>0, <1>6, <1>7, <1>8, <1>9, <1>10, <1>11, <1>12, <1>13, <1>14, <1>15, <1>16,
     <1>17, <1>18, <1>19, <1>20, <1>21 DEF Next, MainStep, PacketStep

--------------------------------------------------------------------------------
(***************************************************************************)
(* The layers together.                                                    *)
(***************************************************************************)
ProxyInv ==
    /\ TypeOK
    /\ OriginInv
    /\ LaunchInv
    /\ LockInv
    /\ SettledInv
    /\ ChannelInv
    /\ ForkInv
    /\ RequestInv
    /\ AnswerInv

\* An INVITE that has just arrived satisfies the invariant.
LEMMA ProxyInit == Init => ProxyInv
<1> SUFFICES ASSUME Init PROVE ProxyInv
  OBVIOUS
<1> USE NamesAssumption, StAssumption, NoStAssumption, ScenariosAssumption DEF Init, CtxInit
<1>1. TypeOK
  <2>1. sentRequest \in BOOLEAN /\ stTable \in BOOLEAN /\ stParked \in BOOLEAN
        /\ prov \in [CtKeys -> BOOLEAN]
    BY Zenon
  <2> QED
    BY <2>1 DEF TypeOK, CtxTypeOK, Launchers, Places, AllCodes, CancelOf
<1>2. OriginInv /\ LaunchInv
  BY DEF OriginInv, LaunchInv, MainPlaces, PacketPlaces, Unopened, Unsent, Launching,
         Launchers, Places
<1>3. LockInv /\ SettledInv
  BY DEF LockInv, SettledInv, Handling, Launchers, Settled, Bound
<1>4. ChannelInv /\ ForkInv /\ RequestInv
  BY DEF ChannelInv, ForkInv, RequestInv, Carries, Bound, Launchers, Late,
         TimerCChannelsSafe, RedirectionFindsRequest
<1>5. AnswerInv
  BY DEF AnswerInv, FinalSent, Owes, Owners, CancelOf, Done, Bound, Launchers, Launching
<1> QED
  BY <1>1, <1>2, <1>3, <1>4, <1>5 DEF ProxyInv

\* The invariant holds in every reachable state of the proxy.
LEMMA ProxyInvariance == Spec => [](CtxInv /\ ProxyInv)
<1>1. Spec => []CtxInv
  BY ProxyFollowsContexts, CtxInvariance, PTL
<1>2. CtxInv /\ ProxyInv /\ [Next]_vars => ProxyInv'
  <2> SUFFICES ASSUME CtxInv, ProxyInv, [Next]_vars PROVE ProxyInv'
    OBVIOUS
  <2>1. TypeOK'
    BY TypeStep DEF ProxyInv
  <2>2. OriginInv' /\ LaunchInv' /\ LockInv'
    BY <2>1, OriginStep, LaunchStep, LockStep DEF ProxyInv
  <2>3. SettledInv' /\ ChannelInv' /\ ForkInv'
    BY <2>1, SettledStep, ChannelStep, ForkStep DEF ProxyInv
  <2>4. RequestInv' /\ AnswerInv'
    BY <2>1, RequestStep, AnswerStep DEF ProxyInv
  <2> QED
    BY <2>1, <2>2, <2>3, <2>4 DEF ProxyInv
<1> QED
  BY ProxyInit, <1>1, <1>2, PTL DEF Spec

--------------------------------------------------------------------------------
\* Type correctness of the proxy core; the caller's final answer is a 2xx, a
\* failure or an error of the proxy, never a provisional response or a
\* redirection (proxy_response_controller.go 110-142).
THEOREM ProxyTypeCorrect == Spec => []TypeOK
<1>1. ProxyInv => TypeOK
  BY DEF ProxyInv
<1> QED
  BY ProxyInvariance, <1>1, PTL

\* The channels of Timer C are closed once and not used afterwards, for any
\* number of responses, redirections and CANCELs
\* (proxy_response_controller.go 114-130, proxy_request_controller.go 316-333).
THEOREM TimerCSafe == Spec => []TimerCChannelsSafe
<1>1. ProxyInv => TimerCChannelsSafe
  BY DEF ProxyInv, ChannelInv
<1> QED
  BY ProxyInvariance, <1>1, PTL

\* At most one client transaction is bound to the server transaction, however
\* often the call is redirected and whoever closes contexts meanwhile
\* (proxy_response_controller.go 8-64, 124-142).
THEOREM ProxyNeverForks == Spec => []NeverForks
<1>1. CtxInv /\ ProxyInv => NeverForks
  <2> SUFFICES ASSUME CtxInv, ProxyInv,
                      NEW c \in CtKeys, NEW d \in CtKeys, {c, d} \subseteq stToCt[St]
               PROVE  c = d
    BY DEF NeverForks
  <2>1. Bound(c) /\ Bound(d)
    BY StAssumption, NoStAssumption DEF CtxInv, MapsInverse, Bound
  <2> QED
    BY <2>1 DEF ProxyInv, ForkInv, Carries
<1> QED
  BY ProxyInvariance, <1>1, PTL

\* A redirection finds the request to send again, unless it outran the
\* goroutine that records it or the call was closed
\* (proxy_response_controller.go 8-23, proxy_request_controller.go 97-102).
THEOREM RedirectionSafe == Spec => []RedirectionFindsRequest
<1>1. ProxyInv => RedirectionFindsRequest
  BY DEF ProxyInv, RequestInv
<1> QED
  BY ProxyInvariance, <1>1, PTL

\* Without redirection the proxy makes up at most one final response, however
\* Timer C, the CANCELs and the error handler race
\* (proxy_core.go 114-175, proxy_request_controller.go 333-342).
THEOREM OneErrorAnswered == Spec => []OneErrorAnswer
<1>1. ProxyInv => OneErrorAnswer
  BY DEF ProxyInv, AnswerInv, OneErrorAnswer
<1> QED
  BY ProxyInvariance, <1>1, PTL

\* Without redirection the error handler finds the server transaction of every
\* client transaction that is still bound (proxy_request_controller.go 317-333).
THEOREM ServerTransactionFound == Spec => []BoundServerTransactionExists
<1>1. ProxyInv => BoundServerTransactionExists
  BY DEF ProxyInv, AnswerInv, FinalSent, Done, Bound, BoundServerTransactionExists
<1> QED
  BY ProxyInvariance, <1>1, PTL
================================================================================

------------------------------- MODULE Forwarding ------------------------------
(***************************************************************************)
(* What the proxy writes into the messages it forwards: the Via stack,     *)
(* Max-Forwards, Record-Route and Route, and the requests it derives       *)
(* itself (CANCEL, and the ACK of a failure).  Several proxies, all        *)
(* running this program, stand between a caller and a callee, which are    *)
(* external, on a network that loses, delays, reorders and duplicates.     *)
(*                                                                         *)
(* The handler of one packet is one step here: the races inside a proxy    *)
(* are the subject of the modules ServerTransaction, ClientTransaction and *)
(* InviteProxying.  A transaction stays in its table, but for an INVITE    *)
(* one that was answered 2xx, which the code destroys at once.             *)
(***************************************************************************)
EXTENDS Integers, SequencesExt

CONSTANTS
    Proxies, Uac, Uas,
    NextHop,     \* where the routing table, or a binding, leads an INVITE
    FirstHop,    \* the proxy of the caller
    Hidden,      \* nodes whose sent-by is not the address they send from
    Nowhere,     \* such a sent-by
    Forwards,    \* values of Max-Forwards the caller may use
    MaxDups,     \* bound on duplications by the network
    MaxInvites,  \* bound on the INVITEs sent, the caller's included
    MaxBranch    \* bound on the branches a node generates

Nodes == Proxies \cup {Uac, Uas}

ASSUME NodesAssumption ==
    /\ Uac \notin Proxies /\ Uas \notin Proxies /\ Uac # Uas
    /\ Nowhere \notin Nodes
    /\ Hidden \subseteq {Uac}           \* the names of the proxies resolve
ASSUME RoutesAssumption ==
    /\ FirstHop \in Proxies
    /\ NextHop \in [Proxies -> SUBSET (Proxies \cup {Uas})]
    /\ \A p \in Proxies : p \notin NextHop[p]
ASSUME BoundsAssumption ==
    /\ Forwards \subseteq Nat /\ {MaxDups, MaxInvites, MaxBranch} \subseteq Nat
    /\ MaxBranch >= 3                  \* the caller needs three

\* Server.Address.
SentBy(n) == IF n \in Hidden THEN Nowhere ELSE n

(***************************************************************************)
(* Messages as they are on the wire: via has the topmost first; rr is      *)
(* Record-Route and route is Route; path, which is no header field, is     *)
(* what an in-dialog request should pass: the Via path of the INVITE that  *)
(* made the dialog.                                                        *)
(***************************************************************************)
Methods == {"INVITE", "ACK", "CANCEL", "BYE"}
Codes   == {"request", "ringing", "ok", "fail", "481", "483"}

IsFinal(c)   == c \notin {"request", "ringing"}
IsFailure(c) == c \in {"fail", "481", "483"}

\* GenerateBranchParam: random, and therefore new.
Branch(n, i) == <<n, i>>

Via(n, i) == [sentBy |-> SentBy(n), branch |-> Branch(n, i), received |-> Nowhere]

\* The nodes that wrote the Via header fields.
Path(via) == [i \in DOMAIN via |-> via[i].branch[1]]

Request(method, via, mf, route, rr, path, from, to) ==
    [method |-> method, code |-> "request", via |-> via, mf |-> mf,
     route |-> route, rr |-> rr, path |-> path, from |-> from, to |-> to]

\* GenerateResponseFromRequest: back to where the request came from.
Response(m, code, path, n) ==
    [m EXCEPT !.code = code, !.mf = 0, !.route = <<>>, !.path = path,
              !.from = n, !.to = m.from]

VARIABLES
    net,         \* datagrams on their way
    dups,        \* duplications so far
    made,        \* branches each node generated
    sts, done,   \* server transactions in the table, and those answered
    cts,         \* client transactions: key, request
    ctx,         \* responseContexts: pairs of keys
    call,        \* callStates, for the one Call-ID there is: its state, and
                 \* the goroutines that are going to remove it
    dead,        \* proxies that panicked
    invited,     \* history: the INVITEs sent
    uac,         \* the caller: where it is ...
    dialog,      \* ... and the route set and path of its dialog
    cancelled    \* the caller sent CANCEL

vars == <<net, dups, made, sts, done, cts, ctx, call, dead, invited, uac,
          dialog, cancelled>>

uacVars == <<uac, dialog, cancelled>>

\* The types; in particular, every message on its way is addressed to a node
\* there is (forwardingResponse, proxy_response_controller.go 79-83).
TypeOK ==
    /\ \A m \in net : /\ m.method \in Methods /\ m.code \in Codes
                     /\ m.mf \in Nat /\ m.from \in Nodes /\ m.to \in Nodes
    /\ dups \in 0..MaxDups
    /\ made \in [Nodes -> 0..MaxBranch]
    /\ \A p \in Proxies : \A k \in sts[p] \cup done[p] : k.method \in Methods \ {"ACK"}
    /\ call \in [Proxies -> [state : {"none", "open", "closed"}, removals : Nat]]
    /\ dead \subseteq Proxies
    /\ uac \in {"idle", "calling", "up", "end", "bye", "ended", "refused"}
    /\ cancelled \in BOOLEAN

NoDialog == [route |-> <<>>, path |-> <<>>]

Init ==
    /\ net = {}
    /\ dups = 0
    /\ made = [n \in Nodes |-> 0]
    /\ sts = [p \in Proxies |-> {}]
    /\ done = [p \in Proxies |-> {}]
    /\ cts = [p \in Proxies |-> {}]
    /\ ctx = [p \in Proxies |-> {}]
    /\ call = [p \in Proxies |-> [state |-> "none", removals |-> 0]]
    /\ dead = {}
    /\ invited = {}
    /\ uac = "idle"
    /\ dialog = NoDialog
    /\ cancelled = FALSE

--------------------------------------------------------------------------------
(***************************************************************************)
(* Keys and header fields.                                                 *)
(***************************************************************************)

\* ViaHeaders: the fields are read from the first to the last and each is put
\* in front (Append), so that the list has the topmost at its end; they are
\* written from the end.
ParseVias(wire)   == Reverse(wire)
WriteHeader(list) == Reverse(list)
TopMost(list)     == Last(list)
Insert(list, via) == Append(list, via)
Pop(list)         == Front(list)

\* The topmost Via of a message that was read.
TopVia(m) == TopMost(ParseVias(m.via))

\* GenerateServerTransactionKey: an ACK belongs to its INVITE.
ServerKey(m) ==
    [branch |-> TopVia(m).branch, sentBy |-> TopVia(m).sentBy,
     method |-> IF m.method = "ACK" THEN "INVITE" ELSE m.method]

\* GenerateClientTransactionKey: the method is that of CSeq.
ClientKey(m) == [branch |-> TopVia(m).branch, method |-> m.method]

\* A bug: Max-Forwards 0 is still forwarded.
DecrementsToZero(mf) == mf - 1 >= 0

\* A bug: the hop that is left is not used.
DecrementsTwice(mf) == mf - 2 > 0

\* MaxForwards.Decrement: may the request go on?
Decrement(mf) == mf - 1 > 0

\* A bug: the address of the sender is not noted.
NotReceived(list, from) == list

\* generateForwardingRequest: the address of the sender goes into the Via.
MarkReceived(list, from) ==
    IF TopMost(list).sentBy # from
    THEN Append(Front(list), [TopMost(list) EXCEPT !.received = from])
    ELSE list

\* New...Transaction and Server.WriteMessage put a Via on top, unless the
\* topmost is the proxy's own already.
InsertVia(p, list) ==
    IF list # <<>> /\ TopMost(list).sentBy = SentBy(p)
    THEN list
    ELSE Insert(list, Via(p, made[p] + 1))

\* A bug: the first Via of the list instead of the topmost one.
BottomVia(list) == <<list[1]>>

\* GenerateCancelRequest and GenerateAckFromRequestAndResponse.
SingleVia(list) == Insert(<<>>, TopMost(list))

\* A bug: the next proxy is taken off Route, too.
RouteOffsetTwo(route) == IF Len(route) > 1 THEN Tail(Tail(route)) ELSE <<>>

\* The Route header fields that are left.  routes[0] is this proxy itself; a
\* loose router next in line stays.
RouteOffset(route) == IF Len(route) > 1 THEN Tail(route) ELSE <<>>

\* The next hop: the second route, or else the Request-URI.
RouteTarget(route) == IF Len(route) > 1 THEN route[2] ELSE Uas

\* The routes of an INVITE: any of the registered bindings, or the routing
\* table.
Routes(p) == NextHop[p]

\* The request as p forwards it to n.
Forwarded(p, m, n, route, rr) ==
    LET list == InsertVia(p, MarkReceived(ParseVias(m.via), m.from)) IN
    Request(m.method, WriteHeader(list), m.mf - 1, route, rr, m.path, p, n)

\* forwardingResponse: pop the Via, go to received or sent-by.
Relayed(p, m) ==
    LET list == Pop(ParseVias(m.via)) IN
    IF list = <<>> THEN {}
    ELSE {[m EXCEPT !.via = WriteHeader(list), !.from = p,
                    !.to = IF TopMost(list).received # Nowhere
                           THEN TopMost(list).received ELSE TopMost(list).sentBy]}

\* The ACK or CANCEL that p derives from the INVITE it sent.
Derived(req, method) ==
    [req EXCEPT !.method = method, !.via = WriteHeader(SingleVia(ParseVias(@)))]

--------------------------------------------------------------------------------
(***************************************************************************)
(* The network.  Every message on its way may be overtaken or never arrive *)
(* at all; of the duplicates, those of an INVITE count that come after its *)
(* server transaction is gone (the others are absorbed).                   *)
(***************************************************************************)
Post(out) == net' = net \cup out /\ UNCHANGED dups

\* m is delivered and out is sent.
Exchange(m, out) ==
    /\ net' = (net \ {m}) \cup out
    /\ dups' = IF m \in net THEN dups ELSE dups + 1

Arrived(p, m) ==
    /\ m.to = p /\ p \notin dead
    /\ m \in net \/ dups < MaxDups

\* The request is new to the transaction layer of p: requestHandler.
IsNew(p, m, method) ==
    /\ Arrived(p, m)
    /\ m.code = "request" /\ m.method = method
    /\ ServerKey(m) \notin sts[p]

Fresh(p) == made[p] < MaxBranch

OpenServer(p, m) == sts' = [sts EXCEPT ![p] = @ \cup {ServerKey(m)}]

\* A client transaction for out, bound to the server transaction of m.
OpenClient(p, m, out) ==
    /\ made' = [made EXCEPT ![p] = @ + 1]
    /\ cts' = [cts EXCEPT ![p] = @ \cup {[key |-> ClientKey(out), req |-> out]}]
    /\ ctx' = [ctx EXCEPT ![p] = @ \cup {[ct |-> ClientKey(out), st |-> ServerKey(m)]}]

\* makeErrorResponse: the answer.  (It closes the call state, too.)
ErrorResponse(p, m, code) ==
    /\ Exchange(m, {Response(m, code, <<>>, p)})
    /\ done' = [done EXCEPT ![p] = @ \cup {ServerKey(m)}]

\* CallStates: Add replaces what has the same Call-ID; Close lets a goroutine
\* remove, later, what has the Call-ID then.
Opened(c)  == [c EXCEPT !.state = "open"]
Closed(c)  == IF c.state = "none" THEN c
              ELSE [state |-> "closed", removals |-> c.removals + 1]
Removed(c) == [state |-> "none", removals |-> c.removals - 1]

\* CallStates.Get.
HasCall(p) == call[p].state # "none"

--------------------------------------------------------------------------------
(***************************************************************************)
(* The proxy.                                                              *)
(***************************************************************************)

\* inviteHandler of an INVITE that goes on: a new call state, Record-Route in
\* front, a client transaction.
InviteForward(p, m, n) ==
    LET out == Forwarded(p, m, n, <<>>, <<SentBy(p)>> \o m.rr) IN
    /\ IsNew(p, m, "INVITE")
    /\ Decrement(m.mf)
    /\ n \in Routes(p)
    /\ Fresh(p) /\ Cardinality(invited) < MaxInvites
    /\ OpenServer(p, m)
    /\ OpenClient(p, m, out)
    /\ call' = [call EXCEPT ![p] = Opened(@)]
    /\ invited' = invited \cup {out}
    /\ Exchange(m, {out})
    /\ UNCHANGED <<done, dead, uacVars>>

\* 483, or 404 where no route is found.
InviteRefuse(p, m) ==
    /\ IsNew(p, m, "INVITE")
    /\ ~Decrement(m.mf) \/ Routes(p) = {}
    /\ OpenServer(p, m)
    /\ ErrorResponse(p, m, IF Decrement(m.mf) THEN "fail" ELSE "483")
    /\ call' = [call EXCEPT ![p] = Closed(Opened(@))]
    /\ UNCHANGED <<made, cts, ctx, dead, invited, uacVars>>

\* nonInviteHandler of a BYE.
ByeForward(p, m) ==
    LET out == Forwarded(p, m, RouteTarget(m.route), RouteOffset(m.route), m.rr) IN
    /\ IsNew(p, m, "BYE")
    /\ HasCall(p)
    /\ Decrement(m.mf)
    /\ Fresh(p)
    /\ OpenServer(p, m)
    /\ OpenClient(p, m, out)
    /\ Exchange(m, {out})
    /\ UNCHANGED <<done, call, dead, invited, uacVars>>

\* 481 without a call state, or 483.
ByeRefuse(p, m) ==
    /\ IsNew(p, m, "BYE")
    /\ ~HasCall(p) \/ ~Decrement(m.mf)
    /\ OpenServer(p, m)
    /\ ErrorResponse(p, m, IF HasCall(p) THEN "483" ELSE "481")
    /\ call' = [call EXCEPT ![p] = Closed(@)]
    /\ UNCHANGED <<made, cts, ctx, dead, invited, uacVars>>

\* ackHandler: no transaction.  An error response of an ACK is written to a
\* server transaction that is nil.
AckForward(p, m) ==
    LET out == Forwarded(p, m, RouteTarget(m.route), RouteOffset(m.route), m.rr) IN
    /\ IsNew(p, m, "ACK")
    /\ \/ /\ Decrement(m.mf)
          /\ Fresh(p)
          /\ made' = [made EXCEPT ![p] = @ + 1]
          /\ Exchange(m, {out})
          /\ UNCHANGED dead
       \/ /\ ~Decrement(m.mf)
          /\ dead' = dead \cup {p}
          /\ Exchange(m, {})
          /\ UNCHANGED made
    /\ UNCHANGED <<sts, done, cts, ctx, call, invited, uacVars>>

\* cancelHandler: 200, and a CANCEL for each client transaction of the INVITE;
\* or 481, which closes the call state.  A response context whose client
\* transaction, or server transaction, is not in the table any more makes the
\* loop panic, after some of the CANCELs.
CancelHandler(p, m) ==
    LET key    == [ServerKey(m) EXCEPT !.method = "INVITE"]
        keys   == {x.ct : x \in {y \in ctx[p] : y.st = key}}
        out    == {Derived(c.req, "CANCEL") : c \in {d \in cts[p] : d.key \in keys}}
        panics == key \notin sts[p] \/ ~(keys \subseteq {c.key : c \in cts[p]}) IN
    /\ IsNew(p, m, "CANCEL")
    /\ OpenServer(p, m)
    /\ \/ /\ keys # {}
          /\ \E sent \in SUBSET out :
               /\ \/ ~panics /\ sent = out /\ UNCHANGED dead
                  \/ panics /\ dead' = dead \cup {p}
               /\ Exchange(m, sent \cup {Response(m, "ok", <<>>, p)})
               /\ cts' = [cts EXCEPT ![p] = @ \cup {[key |-> ClientKey(o), req |-> o] : o \in sent}]
          /\ done' = [done EXCEPT ![p] = @ \cup {ServerKey(m)}]
          /\ UNCHANGED call
       \/ /\ keys = {}
          /\ ErrorResponse(p, m, "481")
          /\ call' = [call EXCEPT ![p] = Closed(@)]
          /\ UNCHANGED <<cts, dead>>
    /\ UNCHANGED <<made, ctx, invited, uacVars>>

\* ServerTransaction.Handle: a retransmission, or the ACK of a failure.
Absorb(p, m) ==
    /\ Arrived(p, m) /\ m \in net
    /\ m.code = "request"
    /\ ServerKey(m) \in sts[p]
    /\ Exchange(m, {})
    /\ UNCHANGED <<made, sts, done, cts, ctx, call, dead, invited, uacVars>>

\* A bug: any final response of an INVITE closes the call.
ClosesCallAlways(m) == IsFinal(m.code)

\* A bug: a BYE leaves the call open.
ClosesCallNotOnBye(m) == m.method = "INVITE" /\ IsFailure(m.code)

\* invaiteResponseHandler and byeResponseHandler: which response ends the call.
ClosesCall(m) ==
    \/ m.method = "INVITE" /\ IsFailure(m.code)
    \/ m.method = "BYE" /\ m.code = "ok"

\* ClientTransaction.Handle, then responseHandler: the ACK of a failure, and
\* the response relayed to the server transaction of the context, if call
\* state, context and server transaction are there.
ResponseHandler(p, m) ==
    LET key   == ClientKey(m)
        tx    == {c \in cts[p] : c.key = key}
        acks  == IF m.method = "INVITE" /\ IsFailure(m.code)
                 THEN {Derived(c.req, "ACK") : c \in tx} ELSE {}
        bound == {x.st : x \in {y \in ctx[p] : y.ct = key}} \cap sts[p]
        open  == HasCall(p) /\ bound # {}
        up    == IF open /\ bound \cap done[p] = {} THEN Relayed(p, m) ELSE {}
        gone  == {s \in bound : open /\ s.method = "INVITE" /\ m.code = "ok"} IN
    /\ Arrived(p, m)
    /\ m.code # "request"
    /\ Exchange(m, acks \cup up)
    /\ cts' = [cts EXCEPT ![p] = IF key.method = "INVITE" /\ m.code = "ok" THEN @ \ tx ELSE @]
    /\ ctx' = [ctx EXCEPT ![p] = {x \in @ : ~(open /\ IsFinal(m.code) /\ x.ct = key)}]
    /\ done' = [done EXCEPT ![p] = IF open /\ IsFinal(m.code) THEN (@ \cup bound) \ gone ELSE @]
    /\ sts' = [sts EXCEPT ![p] = @ \ gone]
    /\ call' = [call EXCEPT ![p] = IF open /\ ClosesCall(m) THEN Closed(@) ELSE @]
    /\ UNCHANGED <<made, dead, invited, uacVars>>

\* CallStates.Remove, some time after Close.
CallRemove(p) ==
    /\ call[p].removals > 0
    /\ call' = [call EXCEPT ![p] = Removed(@)]
    /\ UNCHANGED <<net, dups, made, sts, done, cts, ctx, dead, invited, uacVars>>

--------------------------------------------------------------------------------
(***************************************************************************)
(* The caller and the callee: external, as the proxy expects them.         *)
(***************************************************************************)
proxyVars == <<sts, done, cts, ctx, call, dead>>

UacInvite(f) ==
    LET out == Request("INVITE", <<Via(Uac, 1)>>, f, <<>>, <<>>, <<>>, Uac, FirstHop) IN
    /\ uac = "idle"
    /\ uac' = "calling"
    /\ made' = [made EXCEPT ![Uac] = 1]
    /\ Post({out})
    /\ invited' = invited \cup {out}
    /\ UNCHANGED <<dialog, cancelled, proxyVars>>

UacCancel ==
    /\ uac = "calling"
    /\ ~cancelled
    /\ cancelled' = TRUE
    /\ Post({Request("CANCEL", <<Via(Uac, 1)>>, 1, <<>>, <<>>, <<>>, Uac, FirstHop)})
    /\ UNCHANGED <<made, invited, uac, dialog, proxyVars>>

\* The caller acknowledges a final response, along the route set after a 2xx.
UacAnswer(m, f) ==
    LET route == Reverse(m.rr) IN
    /\ m \in net /\ m.to = Uac
    /\ m.method = "INVITE" /\ IsFinal(m.code)
    /\ uac = "calling"
    /\ \/ /\ m.code = "ok"
          /\ uac' = "up"
          /\ dialog' = [route |-> route, path |-> m.path]
          /\ made' = [made EXCEPT ![Uac] = @ + 1]
          /\ Exchange(m, {Request("ACK", <<Via(Uac, made[Uac] + 1)>>, f, route, <<>>,
                                  m.path, Uac, FirstHop)})
       \/ /\ IsFailure(m.code)
          /\ uac' = "end"
          /\ Exchange(m, {Request("ACK", <<Via(Uac, 1)>>, 1, <<>>, <<>>, <<>>, Uac, FirstHop)})
          /\ UNCHANGED <<dialog, made>>
    /\ UNCHANGED <<cancelled, invited, proxyVars>>

UacBye(f) ==
    /\ uac = "up"
    /\ uac' = "bye"
    /\ made' = [made EXCEPT ![Uac] = @ + 1]
    /\ Post({Request("BYE", <<Via(Uac, made[Uac] + 1)>>, f, dialog.route, <<>>,
                     dialog.path, Uac, FirstHop)})
    /\ UNCHANGED <<invited, dialog, cancelled, proxyVars>>

UacByeAnswer(m) ==
    /\ m \in net /\ m.to = Uac
    /\ m.method = "BYE" /\ m.code # "request"
    /\ uac = "bye"
    /\ uac' = IF m.code = "ok" THEN "ended" ELSE "refused"
    /\ Exchange(m, {})
    /\ UNCHANGED <<made, invited, dialog, cancelled, proxyVars>>

\* The callee rings or answers an INVITE, and agrees to CANCEL and BYE; it
\* recognises a duplicate.  (After ringing, its answer is lost.)
UasAnswer(m, c) ==
    /\ m \in net /\ m.to = Uas
    /\ m.method # "ACK"
    /\ m.method # "INVITE" => c = "ok"
    /\ net' = (net \ {m}) \cup {Response(m, c, Path(m.via), Uas)}
    /\ UNCHANGED <<dups, made, invited, uacVars, proxyVars>>

--------------------------------------------------------------------------------
ProxyStep(p) ==
    \/ \E m \in net \cup invited :
         \/ \E n \in Routes(p) : InviteForward(p, m, n)
         \/ InviteRefuse(p, m)
         \/ ByeForward(p, m)
         \/ ByeRefuse(p, m)
         \/ AckForward(p, m)
         \/ CancelHandler(p, m)
         \/ Absorb(p, m)
         \/ ResponseHandler(p, m)
    \/ CallRemove(p)

Next ==
    \/ \E p \in Proxies : ProxyStep(p)
    \/ \E f \in Forwards : UacInvite(f) \/ UacBye(f)
    \/ UacCancel
    \/ \E m \in net, f \in Forwards : UacAnswer(m, f)
    \/ \E m \in net : UacByeAnswer(m)
    \/ \E m \in net, c \in {"ringing", "ok", "fail"} : UasAnswer(m, c)

Spec == Init /\ [][Next]_vars

--------------------------------------------------------------------------------
(***************************************************************************)
(* Properties.                                                             *)
(***************************************************************************)

\* Every response on its way is addressed to the node whose Via is on top,
\* also where that node's sent-by is not its address
\* (proxy_request_controller.go 130-147, proxy_response_controller.go 66-90).
ResponsesRetrace ==
    \A m \in net : m.code # "request" => m.to = m.via[1].branch[1]

\* However the proxies route, in circles too, a request has used up one of its
\* Max-Forwards for every Via added, and no proxy sends it with none left
\* (header.go 569-576).  CANCEL, and the ACK of a failure, go one hop only.
HopsBounded ==
    \A m \in net :
        m.code = "request" /\ (m.method = "INVITE" \/ m.path # <<>>)
            => /\ m.from # Uac => m.mf >= 1
               /\ \E f \in Forwards : m.mf + Len(m.via) = f + 1

\* The CANCEL and the ACK of a failure that a proxy derives can be matched
\* with the INVITE it sent to the same node: one Via, the same one
\* (message.go 767-906, transaction.go 829-847).
DerivedRequestsMatch ==
    \A m \in net :
        m.code = "request" /\ m.method \in {"CANCEL", "ACK"} /\ m.path = <<>>
            => /\ Len(m.via) = 1
               /\ \E i \in invited : i.to = m.to /\ i.via[1] = m.via[1]

\* A request of the dialog reaches the callee over the very proxies, in the
\* same order, that the INVITE passed, with no Route left
\* (proxy_request_controller.go 80-88, 149-192).
DialogStaysOnPath ==
    \A m \in net :
        m.code = "request" /\ m.path # <<>> /\ m.to = Uas
            => Path(m.via) = m.path /\ m.route = <<>>

\* When the caller has the 200 of its BYE, no proxy on the path of the dialog
\* keeps the call open, unless the network duplicated something
\* (proxy_response_controller.go 92-108).
ByeClosesCalls ==
    uac = "ended" /\ dups = 0
        => \A i \in DOMAIN dialog.path :
             dialog.path[i] \in Proxies => call[dialog.path[i]].state # "open"

\* Without CANCEL and duplicates, no proxy answers the BYE of a dialog with
\* 481: the call state is there as long as the dialog is
\* (proxy_request_controller.go 202-206, proxy_server.go 118-264).
ByeNotRefused ==
    ~cancelled /\ dups = 0 => \A m \in net : ~(m.method = "BYE" /\ m.code = "481")

\* The ACK of the dialog had no more Max-Forwards than p is hops away.
AckSpentAt(p) ==
    \E i \in DOMAIN dialog.path, f \in Forwards :
        dialog.path[i] = p /\ f <= Len(dialog.path) - i

\* As long as the caller sends no CANCEL a handler panics over one thing only,
\* the error response of an ACK whose Max-Forwards are used up: never because
\* of overtaking, duplicates or a call state that is gone
\* (proxy_request_controller.go 150-200, 387-394).
OnlySpentAcksPanic == ~cancelled => \A p \in dead : AckSpentAt(p)


================================================================================

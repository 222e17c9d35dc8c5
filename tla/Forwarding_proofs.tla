----------------------------- MODULE Forwarding_proofs -------------------------
(***************************************************************************)
(* Proofs for the forwarding of messages, for any number of proxies, any   *)
(* routes between them, circles included, and any losses and duplicates.   *)
(*                                                                         *)
(* The invariant follows a message backwards: every INVITE that was sent   *)
(* has below its topmost Via what an INVITE to its sender had (Behind), a  *)
(* response has the Vias of the INVITE it answers (Answers), and a request *)
(* of the dialog has the Vias and the Routes that split its path (OnPath). *)
(* What a failure leaves behind at a proxy is for good (Settled).  Without *)
(* duplicates there is one INVITE and one BYE at a time (One), and so one  *)
(* story of each call state.                                               *)
(***************************************************************************)
EXTENDS Forwarding, TLAPS

Names    == Nodes \cup {Nowhere}
Branches == Nodes \X Nat
Vias     == [sentBy : Names, branch : Branches, received : Names]
Messages ==
    [method : Methods, code : Codes, via : Seq(Vias) \ {<<>>}, mf : Nat,
     route : Seq(Nodes), rr : Seq(Nodes), path : Seq(Nodes), from : Nodes, to : Nodes]
ServerKeys == [branch : Branches, sentBy : Names, method : Methods \ {"ACK"}]
ClientKeys == [branch : Branches, method : Methods]

\* The caller has a dialog.
InDialog == uac \in {"up", "bye", "ended", "refused"}

Types ==
    /\ net \subseteq Messages
    /\ dups \in 0..MaxDups
    /\ made \in [Nodes -> 0..MaxBranch]
    /\ sts \in [Proxies -> SUBSET ServerKeys]
    /\ done \in [Proxies -> SUBSET ServerKeys]
    /\ cts \in [Proxies -> SUBSET [key : ClientKeys, req : Messages]]
    /\ ctx \in [Proxies -> SUBSET [ct : ClientKeys, st : ServerKeys]]
    /\ call \in [Proxies -> [state : {"none", "open", "closed"}, removals : Nat]]
    /\ dead \subseteq Proxies
    /\ invited \subseteq Messages
    /\ uac \in {"idle", "calling", "up", "end", "bye", "ended", "refused"}
    /\ dialog \in [route : Seq(Nodes), path : Seq(Nodes)]
    /\ cancelled \in BOOLEAN

\* The branches of the caller.
CallerMade ==
    made[Uac] = CASE uac = "idle"              -> 0
                  [] uac \in {"calling", "end"} -> 1
                  [] uac = "up"                 -> 2
                  [] OTHER                      -> 3

--------------------------------------------------------------------------------
\* The Via of the request as the proxy keeps it, and where a response goes.
Marked(v, from) == IF v.sentBy # from THEN [v EXCEPT !.received = from] ELSE v
Resolved(v)     == IF v.received # Nowhere THEN v.received ELSE v.sentBy

\* Who wrote a Via.
By(v) == v.branch[1]

\* Below the topmost, every Via leads back to who wrote it.
Retraceable(via) ==
    /\ \A j \in 1..Len(via) : via[j].sentBy = SentBy(By(via[j])) /\ By(via[j]) \in Proxies \cup {Uac}
    /\ \A j \in 2..Len(via) : Resolved(via[j]) = By(via[j])

\* The sender of a request wrote the topmost Via, which nobody has marked yet.
FromTop(m) == /\ By(m.via[1]) = m.from /\ m.via[1].received = Nowhere /\ m.from # m.to

\* The same Vias, the topmost marked or not.
SameTrail(u, v) ==
    /\ Len(u) = Len(v)
    /\ u[1].branch = v[1].branch /\ u[1].sentBy = v[1].sentBy
    /\ \A j \in 2..Len(u) : u[j] = v[j]

Spent(m) ==
    /\ m.from # Uac => m.mf >= 1
    /\ \E f \in Forwards : m.mf + Len(m.via) = f + 1

\* What every INVITE that was sent looks like.
Sound(i) ==
    /\ i.method = "INVITE" /\ i.code = "request" /\ i.path = <<>> /\ i.route = <<>>
    /\ Retraceable(i.via) /\ FromTop(i) /\ Spent(i)
    /\ i.to \in Proxies \cup {Uas}
    /\ i.via[1].branch[2] <= made[i.from]
    /\ Len(i.rr) = Len(i.via) - 1
    /\ \A j \in 1..(Len(i.via) - 1) :
         /\ By(i.via[j]) \in Proxies /\ By(i.via[j]) = i.rr[j]
         /\ By(i.via[j]) # By(i.via[j + 1])
    /\ i.via[Len(i.via)].branch = Branch(Uac, 1)
    /\ IF Len(i.via) = 1 THEN i.to = FirstHop ELSE By(i.via[Len(i.via) - 1]) = FirstHop

\* The INVITE that i was made from was sent to who made i.
Behind(i) ==
    Len(i.via) > 1 => \E h \in invited : h.to = i.from /\ SameTrail(Tail(i.via), h.via)

InvitedInv ==
    /\ \A i \in invited : Sound(i) /\ Behind(i)
    /\ \A i, h \in invited : i.via[1].branch = h.via[1].branch => i = h
    /\ uac = "idle" => invited = {}
    /\ uac # "idle" => \E i \in invited : i.from = Uac

--------------------------------------------------------------------------------
\* The server transaction stays: no client transaction can end it.
Settled(p, s) == s \in sts[p] /\ \A x \in ctx[p] : x.st # s

\* The path of an INVITE that reached the callee, and its Record-Route.
GoodPath(path, rr) ==
    /\ Len(path) = Len(rr) + 1 /\ Len(rr) > 0
    /\ \A j \in 1..Len(rr) : rr[j] = path[j] /\ rr[j] \in Proxies
    /\ \A j \in 1..(Len(rr) - 1) : rr[j] # rr[j + 1]
    /\ path[Len(path)] = Uac /\ rr[Len(rr)] = FirstHop

\* The response answers the INVITE i, or a copy of it.
Answers(m, i) == m.from = i.to /\ SameTrail(m.via, i.via)

InviteOK(m) ==
    IF m.code = "request" THEN m \in invited
    ELSE /\ \E i \in invited : Answers(m, i)
         /\ m.to = By(m.via[1])
         /\ m.code = "ok" => GoodPath(m.path, m.rr)
         /\ IsFailure(m.code) /\ m.from \in Proxies => Settled(m.from, ServerKey(m))

\* A CANCEL, or the ACK of a failure.
HopOK(m) ==
    /\ Len(m.via) = 1 /\ m.path = <<>>
    /\ \E i \in invited : i.to = m.to /\ i.from = m.from /\ i.via[1] = m.via[1]
    /\ m.method = "ACK" /\ m.to \in Proxies => Settled(m.to, ServerKey(m))

\* The last Vias of the message are by the last nodes of the path.
PathSuffix(m) ==
    /\ InDialog /\ Len(m.via) <= Len(dialog.path)
    /\ Retraceable(m.via)
    /\ \A j \in 1..Len(m.via) : By(m.via[j]) = dialog.path[Len(dialog.path) - Len(m.via) + j]

\* The Routes are the nodes that the request has not passed.
OnPath(m) ==
    LET left == Len(dialog.path) - Len(m.via) IN
    /\ PathSuffix(m) /\ FromTop(m) /\ Spent(m)
    /\ m.path = dialog.path
    /\ Len(m.route) = left
    /\ \A j \in 1..left : m.route[j] = m.path[left + 1 - j]
    /\ m.to = IF left = 0 THEN Uas ELSE m.route[1]

MessageOK(m) ==
    CASE m.method = "INVITE" -> InviteOK(m)
      [] m.method = "CANCEL" -> IF m.code = "request" THEN HopOK(m)
                                ELSE Len(m.via) = 1 /\ m.to = By(m.via[1]) /\ m.to # Uas
      [] m.method = "ACK"    -> m.code = "request" /\ IF m.path = <<>> THEN HopOK(m) ELSE OnPath(m)
      [] OTHER               -> IF m.code = "request" THEN OnPath(m)
                                ELSE PathSuffix(m) /\ m.to = By(m.via[1])

MessageInv == \A m \in net : MessageOK(m)

\* The dialog of the caller: the route set is its path, from the first proxy on.
DialogInv ==
    InDialog =>
      LET path == dialog.path
          last == Len(path) IN
      /\ last > 1 /\ path[last] = Uac /\ path[last - 1] = FirstHop
      /\ \A j \in 1..(last - 1) : path[j] \in Proxies /\ path[j] # path[j + 1]
      /\ Len(dialog.route) = last - 1
      /\ \A j \in 1..(last - 1) : dialog.route[j] = path[last - j]

--------------------------------------------------------------------------------
ClientOK(p, c) ==
    /\ c.key.method = c.req.method
    /\ c.req.method = "INVITE" => c.req \in invited /\ c.req.from = p /\ c.key = ClientKey(c.req)

\* A response context binds the two transactions of a request.
ContextOK(p, x) ==
    /\ x.ct.method = x.st.method /\ x.ct.method \in {"INVITE", "BYE"}
    /\ x.st \in sts[p]
    /\ x.ct.method = "INVITE" =>
         \E i \in invited :
            /\ i.from = p /\ Len(i.via) > 1
            /\ x.ct.branch = i.via[1].branch
            /\ x.st.branch = i.via[2].branch /\ x.st.sentBy = i.via[2].sentBy

TransactionInv ==
    \A p \in Proxies :
        /\ \A c \in cts[p] : ClientOK(p, c)
        /\ \A x \in ctx[p] : ContextOK(p, x)
        /\ \A x, y \in ctx[p] : x.st = y.st => x = y

DeadInv == ~cancelled => (dead # {} => InDialog) /\ \A p \in dead : AckSpentAt(p)

--------------------------------------------------------------------------------
\* Without duplicates there is one message of the method, and only while the
\* caller waits for its answer.
One(method, state) ==
    /\ \A m, n \in net : m.method = method /\ n.method = method => m = n
    /\ \A m \in net : m.method = method => uac = state

\* A 200 of the BYE has closed the calls behind it.
ClosedBehind ==
    \A m \in net :
        m.method = "BYE" /\ m.code = "ok" =>
            \A j \in 1..(Len(dialog.path) - Len(m.via)) :
                dialog.path[j] \in Proxies => call[dialog.path[j]].state # "open"

TokenInv ==
    dups = 0 => One("INVITE", "calling") /\ One("BYE", "bye") /\ ClosedBehind /\ ByeClosesCalls

NoneClosed == \A p \in Proxies : call[p].removals = 0 /\ call[p].state # "closed"

Open(path) == \A j \in 1..Len(path) : path[j] \in Proxies => call[path[j]].state = "open"

\* Before a failure and a BYE, every call on the path is open, and none is
\* going to be removed.
ReadyInv ==
    /\ \A m \in net : m.method = "INVITE" /\ ~IsFailure(m.code) =>
         NoneClosed /\ Open(Path(m.via)) /\ (m.code = "ok" => Open(m.path))
    /\ uac = "up" => NoneClosed /\ Open(dialog.path)
    /\ \A m \in net : m.method = "BYE" /\ m.code = "request" => NoneClosed /\ Open(dialog.path)

CallInv ==
    /\ uac = "idle" => net = {} /\ NoneClosed
    /\ \A m \in net : m.method = "CANCEL" => cancelled
    /\ ~cancelled /\ dups = 0 => ReadyInv
    /\ ByeNotRefused

IInv ==
    /\ Types
    /\ CallerMade
    /\ InvitedInv
    /\ MessageInv
    /\ DialogInv
    /\ TransactionInv
    /\ DeadInv
    /\ TokenInv
    /\ CallInv

--------------------------------------------------------------------------------
(***************************************************************************)
(* The operators on header fields.                                         *)
(***************************************************************************)

\* Only the name of the caller may differ from its address.
LEMMA SentByFacts ==
  /\ \A p \in Proxies : SentBy(p) = p
  /\ \A n \in Nodes : SentBy(n) \in Names
  /\ \A p \in Proxies, n \in Nodes : SentBy(n) = SentBy(p) => n = p
  BY NodesAssumption DEF SentBy, Names, Nodes

\* What Tail leaves of a list that is not empty.
LEMMA NonEmpty ==
  ASSUME NEW S, NEW w \in Seq(S) \ {<<>>}
  PROVE  /\ Len(w) \in Nat /\ Len(w) >= 1 /\ w[1] \in S
         /\ Tail(w) \in Seq(S) /\ Len(Tail(w)) = Len(w) - 1
         /\ \A j \in 1..(Len(w) - 1) : Tail(w)[j] = w[j + 1]
         /\ Len(w) # 1 => Len(w) > 1 /\ Tail(w) # <<>>
<1>1. Len(w) \in Nat /\ Len(w) >= 1 /\ w[1] \in S
  OBVIOUS
<1>2. /\ Tail(w) \in Seq(S) /\ Len(Tail(w)) = Len(w) - 1
      /\ \A j \in 1..(Len(w) - 1) : Tail(w)[j] = w[j + 1]
  OBVIOUS
<1>3. Len(w) # 1 => Len(w) > 1
  <2>1. \A n \in Nat : n >= 1 /\ n # 1 => n > 1
    OBVIOUS
  <2> QED
    BY <1>1, <2>1, Zenon
<1>4. Len(w) > 1 => Tail(w) # <<>>
  <2>1. Len(w) > 1 => Len(Tail(w)) # 0
    BY <1>1, <1>2
  <2>2. Len(<<>>) = 0
    OBVIOUS
  <2> QED
    BY <2>1, <2>2
<1> QED
  BY <1>1, <1>2, <1>3, <1>4

\* A Via names its writer; nobody has marked it yet.
LEMMA ViaFacts ==
  ASSUME NEW n \in Nodes, NEW i \in Nat
  PROVE  /\ Via(n, i) \in Vias
         /\ Via(n, i).sentBy = SentBy(n) /\ By(Via(n, i)) = n
         /\ Via(n, i).branch = Branch(n, i) /\ Via(n, i).received = Nowhere
  BY SentByFacts DEF Via, Vias, Branch, Branches, Names, By

\* The list has the topmost Via at its end: it is the first on the wire.
LEMMA ParseFacts ==
  ASSUME NEW w \in Seq(Vias) \ {<<>>}
  PROVE  /\ ParseVias(w) \in Seq(Vias) \ {<<>>}
         /\ Len(ParseVias(w)) = Len(w)
         /\ \A j \in 1..Len(w) : ParseVias(w)[j] = w[Len(w) + 1 - j]
         /\ TopMost(ParseVias(w)) = w[1]
  BY DEF ParseVias, Reverse, TopMost, Last

\* The keys of the transactions come from the topmost Via.
LEMMA KeyFacts ==
  ASSUME NEW m \in Messages
  PROVE  /\ TopVia(m) = m.via[1]
         /\ m.via[1] \in Vias
         /\ ServerKey(m) = [branch |-> m.via[1].branch, sentBy |-> m.via[1].sentBy,
                            method |-> IF m.method = "ACK" THEN "INVITE" ELSE m.method]
         /\ ServerKey(m) \in ServerKeys
         /\ ClientKey(m) = [branch |-> m.via[1].branch, method |-> m.method]
         /\ ClientKey(m) \in ClientKeys
<1>1. m.via \in Seq(Vias) \ {<<>>} /\ m.method \in Methods
  BY DEF Messages
<1>2. TopVia(m) = m.via[1]
  BY <1>1, ParseFacts DEF TopVia
<1>3. m.via[1] \in Vias
  BY <1>1
<1>4. "INVITE" \in Methods \ {"ACK"}
  BY DEF Methods
<1> QED
  BY <1>1, <1>2, <1>3, <1>4 DEF ServerKey, ClientKey, ServerKeys, ClientKeys, Vias

\* out is m as p sends it on: a Via of its own is on top of the marked one.
PassedOn(p, m, out) ==
    /\ out \in Messages
    /\ out.method = m.method /\ out.code = "request" /\ out.mf = m.mf - 1
    /\ out.path = m.path /\ out.from = p
    /\ Len(out.via) = Len(m.via) + 1
    /\ out.via[1] = Via(p, made[p] + 1)
    /\ out.via[2] = Marked(m.via[1], m.from)
    /\ \A j \in 2..Len(m.via) : out.via[j + 1] = m.via[j]

\* What a proxy sends on is the request under one more Via.
LEMMA ForwardedFacts ==
  ASSUME NEW p \in Proxies, NEW m \in Messages, made[p] \in Nat,
         m.via[1].sentBy # SentBy(p), m.mf - 1 > 0,
         NEW n \in Nodes, NEW route \in Seq(Nodes), NEW rr \in Seq(Nodes)
  PROVE  /\ PassedOn(p, m, Forwarded(p, m, n, route, rr))
         /\ Forwarded(p, m, n, route, rr).route = route
         /\ Forwarded(p, m, n, route, rr).rr = rr
         /\ Forwarded(p, m, n, route, rr).to = n
<1> DEFINE w    == m.via
           ws   == ParseVias(w)
           mk   == MarkReceived(ws, m.from)
           v    == Via(p, made[p] + 1)
           list == InsertVia(p, mk)
           out  == Forwarded(p, m, n, route, rr)
<1>1. w \in Seq(Vias) \ {<<>>} /\ m.from \in Nodes /\ m.mf \in Nat /\ m.path \in Seq(Nodes) /\ m.method \in Methods
  BY DEF Messages
<1>2. p \in Nodes /\ v \in Vias /\ w[1] \in Vias
  BY <1>1, ViaFacts DEF Nodes
<1>3. /\ ws \in Seq(Vias) /\ Len(ws) = Len(w) /\ Len(w) \in Nat \ {0}
      /\ \A j \in 1..Len(w) : ws[j] = w[Len(w) + 1 - j]
      /\ TopMost(ws) = w[1] /\ ws[Len(w)] = w[1]
  <2>1. Len(w) \in Nat \ {0}
    BY <1>1
  <2> HIDE DEF w
  <2>2. /\ ws \in Seq(Vias) /\ Len(ws) = Len(w) /\ TopMost(ws) = w[1]
        /\ \A j \in 1..Len(w) : ws[j] = w[Len(w) + 1 - j]
    BY <1>1, ParseFacts
  <2>3. Len(w) \in 1..Len(w) /\ Len(w) + 1 - Len(w) = 1
    BY <2>1
  <2>4. ws[Len(w)] = w[Len(w) + 1 - Len(w)]
    BY <2>2, <2>3
  <2> QED
    BY <2>1, <2>2, <2>3, <2>4
<1>4. Marked(w[1], m.from) \in Vias /\ Marked(w[1], m.from).sentBy = w[1].sentBy
  BY <1>1, <1>2 DEF Marked, Vias, Names
<1>5. /\ mk \in Seq(Vias) /\ Len(mk) = Len(w)
      /\ mk[Len(w)] = Marked(w[1], m.from)
      /\ \A j \in 1..(Len(w) - 1) : mk[j] = w[Len(w) + 1 - j]
  <2>1. CASE w[1].sentBy # m.from
    <3>1. mk = Append(Front(ws), Marked(w[1], m.from))
      BY <1>3, <2>1 DEF MarkReceived, Marked
    <3>2. /\ Front(ws) \in Seq(Vias) /\ Len(Front(ws)) = Len(w) - 1
          /\ \A j \in 1..(Len(w) - 1) : Front(ws)[j] = ws[j]
      BY <1>3 DEF Front
    <3> DEFINE fr == Front(ws)
               mv == Marked(w[1], m.from)
    <3> HIDE DEF mk, ws, w, fr, mv
    <3>3. \A j \in 1..(Len(w) - 1) : fr[j] = w[Len(w) + 1 - j]
      <4>1. \A j \in 1..(Len(w) - 1) : j \in 1..Len(w)
        BY <1>3
      <4> QED
        BY <1>3, <3>2, <4>1, Zenon DEF fr
    <3>4. mk \in Seq(Vias) /\ Len(mk) = Len(w) /\ mk[Len(w)] = mv
      BY <3>1, <3>2, <1>3, <1>4 DEF fr, mv
    <3>5. \A j \in 1..(Len(w) - 1) : mk[j] = fr[j]
      BY <3>1, <3>2, <1>3 DEF fr, mv
    <3> QED
      BY <3>3, <3>4, <3>5 DEF mv
  <2>2. CASE w[1].sentBy = m.from
    <3>1. mk = ws
      BY <1>3, <2>2 DEF MarkReceived
    <3>2. Marked(w[1], m.from) = w[1]
      BY <2>2 DEF Marked
    <3> QED
      BY <3>1, <3>2, <1>3
  <2> QED
    BY <2>1, <2>2
<1>6. list = Append(mk, v)
  <2>1. TopMost(mk) = mk[Len(w)]
    BY <1>5 DEF TopMost, Last
  <2> QED
    BY <2>1, <1>4, <1>5 DEF InsertVia, Insert
<1>7. out = Request(m.method, Reverse(list), m.mf - 1, route, rr, m.path, p, n)
  BY DEF Forwarded, WriteHeader
<1> HIDE DEF mk, ws, w, v
<1>8. /\ Reverse(Append(mk, v)) \in Seq(Vias) \ {<<>>}
      /\ Len(Reverse(Append(mk, v))) = Len(w) + 1
      /\ Reverse(Append(mk, v))[1] = v
      /\ \A j \in 1..Len(w) : Reverse(Append(mk, v))[j + 1] = mk[Len(w) + 1 - j]
  BY <1>2, <1>3, <1>5 DEF Reverse
<1>9. /\ out.via = Reverse(Append(mk, v)) /\ out.method = m.method /\ out.code = "request"
      /\ out.mf = m.mf - 1 /\ out.route = route /\ out.rr = rr /\ out.path = m.path
      /\ out.from = p /\ out.to = n
  BY <1>6, <1>7 DEF Request
<1>10. out \in Messages
  <2>1. PICK r : r = Reverse(Append(mk, v)) /\ r \in Seq(Vias) \ {<<>>}
    BY <1>8
  <2>2. out = Request(m.method, r, m.mf - 1, route, rr, m.path, p, n)
    BY <1>6, <1>7, <2>1
  <2>3. m.mf - 1 \in Nat /\ "request" \in Codes
    BY <1>1 DEF Codes
  <2> QED
    BY <1>1, <1>2, <2>1, <2>2, <2>3 DEF Request, Messages
<1>11. /\ out.via[2] = Marked(w[1], m.from)
       /\ \A j \in 2..Len(w) : out.via[j + 1] = w[j]
  <2>1. \A j \in 1..Len(w) : out.via[j + 1] = mk[Len(w) + 1 - j]
    BY <1>8, <1>9
  <2>2. out.via[2] = mk[Len(w)]
    <3>1. 1 \in 1..Len(w) /\ 1 + 1 = 2 /\ Len(w) + 1 - 1 = Len(w)
      BY <1>3
    <3>2. out.via[1 + 1] = mk[Len(w) + 1 - 1]
      BY <2>1, <3>1
    <3> QED
      BY <3>1, <3>2
  <2>3. ASSUME NEW j \in 2..Len(w) PROVE out.via[j + 1] = w[j]
    <3>1. j \in 1..Len(w) /\ Len(w) + 1 - j \in 1..(Len(w) - 1) /\ Len(w) + 1 - (Len(w) + 1 - j) = j
      BY <1>3
    <3>2. out.via[j + 1] = mk[Len(w) + 1 - j] /\ mk[Len(w) + 1 - j] = w[Len(w) + 1 - (Len(w) + 1 - j)]
      BY <2>1, <3>1, <1>5
    <3> QED
      BY <3>1, <3>2
  <2> QED
    BY <2>2, <2>3, <1>5
<1> QED
  BY <1>8, <1>9, <1>10, <1>11 DEF w, v, PassedOn

\* The topmost Via is taken off; without another one nothing is sent.
LEMMA RelayedFacts ==
  ASSUME NEW p \in Proxies, NEW m \in Messages
  PROVE  /\ Len(m.via) = 1 => Relayed(p, m) = {}
         /\ Len(m.via) > 1 =>
              Relayed(p, m) = {[m EXCEPT !.via = Tail(m.via), !.from = p, !.to = Resolved(m.via[2])]}
<1> DEFINE w == m.via
           ws == ParseVias(w)
           list == Pop(ws)
<1>1. w \in Seq(Vias) \ {<<>>} /\ Len(w) \in Nat \ {0}
  BY DEF Messages
<1>2. /\ ws \in Seq(Vias) /\ Len(ws) = Len(w)
      /\ \A j \in 1..Len(w) : ws[j] = w[Len(w) + 1 - j]
  BY <1>1, ParseFacts
<1> HIDE DEF ws
<1>3. /\ list \in Seq(Vias) /\ Len(list) = Len(w) - 1
      /\ \A j \in 1..(Len(w) - 1) : list[j] = w[Len(w) + 1 - j]
  BY <1>1, <1>2 DEF Pop, Front
<1> HIDE DEF list, w
<1>4. WriteHeader(list) = Tail(w)
  <2>1. /\ WriteHeader(list) \in Seq(Vias) /\ Len(WriteHeader(list)) = Len(w) - 1
        /\ \A j \in 1..(Len(w) - 1) : WriteHeader(list)[j] = w[j + 1]
    BY <1>1, <1>3 DEF WriteHeader, Reverse
  <2>2. /\ Tail(w) \in Seq(Vias) /\ Len(Tail(w)) = Len(w) - 1
        /\ \A j \in 1..(Len(w) - 1) : Tail(w)[j] = w[j + 1]
    BY <1>1
  <2> QED
    BY <2>1, <2>2
<1>5. Len(w) > 1 => TopMost(list) = w[2] /\ list # <<>>
  BY <1>1, <1>3 DEF TopMost, Last
<1>6. Len(w) = 1 => list = <<>>
  BY <1>3
<1> QED
  BY <1>4, <1>5, <1>6 DEF Relayed, list, ws, w, Resolved

\* CANCEL and the ACK of a failure have the topmost Via of the INVITE only.
LEMMA DerivedFacts ==
  ASSUME NEW r \in Messages, NEW method \in Methods
  PROVE  LET out == Derived(r, method) IN
         /\ out \in Messages
         /\ out.method = method /\ out.code = r.code /\ out.path = r.path /\ out.from = r.from /\ out.to = r.to
         /\ Len(out.via) = 1 /\ out.via[1] = r.via[1]
<1>1. r.via \in Seq(Vias) \ {<<>>} /\ r.via[1] \in Vias
  BY NonEmpty DEF Messages
<1>2. TopMost(ParseVias(r.via)) = r.via[1]
  BY <1>1, ParseFacts
<1>3. \A v \in Vias : WriteHeader(Insert(<<>>, v)) = <<v>>
  BY DEF WriteHeader, Reverse, Insert
<1>4. WriteHeader(SingleVia(ParseVias(r.via))) = <<r.via[1]>>
  BY <1>1, <1>2, <1>3 DEF SingleVia
<1>5. Derived(r, method) = [r EXCEPT !.method = method, !.via = <<r.via[1]>>]
  BY <1>4 DEF Derived
<1>6. <<r.via[1]>> \in Seq(Vias) \ {<<>>} /\ Len(<<r.via[1]>>) = 1 /\ <<r.via[1]>>[1] = r.via[1]
  BY <1>1
<1> DEFINE w == <<r.via[1]>>
<1> HIDE DEF w
<1>7. LET out == [r EXCEPT !.method = method, !.via = w] IN
      /\ out \in Messages
      /\ out.method = method /\ out.code = r.code /\ out.path = r.path /\ out.from = r.from /\ out.to = r.to
      /\ out.via = w
  BY <1>6 DEF Messages, w
<1> QED
  BY <1>5, <1>6, <1>7 DEF w

\* A response goes back to the sender of the request.
LEMMA ResponseFacts ==
  ASSUME NEW m \in Messages, NEW code \in Codes, NEW path \in Seq(Nodes), NEW n \in Nodes
  PROVE  LET out == Response(m, code, path, n) IN
         /\ out \in Messages
         /\ out.method = m.method /\ out.code = code /\ out.via = m.via /\ out.rr = m.rr
         /\ out.path = path /\ out.from = n /\ out.to = m.from
<1> DEFINE out == Response(m, code, path, n)
<1>1. /\ m.method \in Methods /\ m.via \in Seq(Vias) \ {<<>>} /\ m.rr \in Seq(Nodes) /\ m.from \in Nodes
      /\ <<>> \in Seq(Nodes) /\ 0 \in Nat
  BY DEF Messages
<1>2. /\ out.method = m.method /\ out.code = code /\ out.via = m.via /\ out.mf = 0
      /\ out.route = <<>> /\ out.rr = m.rr /\ out.path = path /\ out.from = n /\ out.to = m.from
  BY DEF Response, Messages
<1>3. out \in Messages
  BY <1>1 DEF Response, Messages
<1> QED
  BY <1>2, <1>3

\* A response made by the proxy itself has the Vias of its request.
LEMMA ReplyFacts ==
  ASSUME NEW m \in Messages, NEW code \in Codes, NEW n \in Nodes
  PROVE  LET out == Response(m, code, <<>>, n) IN
         /\ out \in Messages
         /\ out.method = m.method /\ out.code = code /\ out.via = m.via /\ out.rr = m.rr
         /\ out.path = <<>> /\ out.from = n /\ out.to = m.from
<1> DEFINE empty == <<>>
<1>1. empty \in Seq(Nodes)
  OBVIOUS
<1> HIDE DEF empty
<1>2. LET out == Response(m, code, empty, n) IN
         /\ out \in Messages
         /\ out.method = m.method /\ out.code = code /\ out.via = m.via /\ out.rr = m.rr
         /\ out.path = empty /\ out.from = n /\ out.to = m.from
  BY <1>1, ResponseFacts
<1> QED
  BY <1>2 DEF empty

--------------------------------------------------------------------------------
(***************************************************************************)
(* What the invariant says of a message that a proxy handles.              *)
(***************************************************************************)

\* Duplicates are copies of an INVITE, and as good as what is on its way.
LEMMA Handled ==
  ASSUME Types, InvitedInv, MessageInv, NEW m \in net \cup invited
  PROVE  m \in Messages /\ MessageOK(m) /\ (m \notin net => m.method = "INVITE" /\ m.code = "request")
<1>1. CASE m \in net
  BY <1>1 DEF Types, MessageInv
<1>2. CASE m \in invited
  <2>1. m \in Messages /\ m.method = "INVITE" /\ m.code = "request"
    BY <1>2 DEF Types, InvitedInv, Sound
  <2> QED
    BY <1>2, <2>1 DEF MessageOK, InviteOK
<1> QED
  BY <1>1, <1>2

\* A request that is new to a proxy is an INVITE that somebody sent, a request
\* of the dialog, or a CANCEL; its topmost Via is not the proxy's.
LEMMA NewRequest ==
  ASSUME Types, InvitedInv, MessageInv, NEW m \in net \cup invited, NEW p \in Proxies,
         NEW method \in Methods, IsNew(p, m, method)
  PROVE  /\ m \in Messages /\ m.to = p /\ m.code = "request" /\ m.method = method
         /\ method = "INVITE" => m \in invited /\ Sound(m) /\ Behind(m)
         /\ method \in {"BYE", "ACK"} => m \in net /\ OnPath(m)
         /\ method = "CANCEL" => m \in net /\ HopOK(m)
         /\ method # "CANCEL" => /\ FromTop(m) /\ Spent(m) /\ Retraceable(m.via)
                                 /\ m.via[1].sentBy # SentBy(p)
<1>1. /\ m \in Messages /\ MessageOK(m) /\ m.to = p /\ m.code = "request" /\ m.method = method
      /\ ServerKey(m) \notin sts[p]
      /\ m \notin net => m.method = "INVITE"
  BY Handled DEF IsNew, Arrived
<1>2. method = "INVITE" => m \in invited /\ Sound(m) /\ Behind(m)
  BY <1>1 DEF MessageOK, InviteOK, InvitedInv
<1>3. method = "BYE" => m \in net /\ OnPath(m)
  BY <1>1 DEF MessageOK
<1>4. method = "ACK" => m \in net /\ OnPath(m)
  BY <1>1 DEF MessageOK, HopOK, Settled
<1>5. method = "CANCEL" => m \in net /\ HopOK(m)
  BY <1>1 DEF MessageOK
<1>6. ASSUME method # "CANCEL"
      PROVE  FromTop(m) /\ Spent(m) /\ Retraceable(m.via) /\ m.via[1].sentBy # SentBy(p)
  <2>1. FromTop(m) /\ Spent(m) /\ Retraceable(m.via)
    BY <1>2, <1>3, <1>4, <1>6 DEF Sound, OnPath, PathSuffix, Methods
  <2>2. m.via \in Seq(Vias) \ {<<>>} /\ m.from \in Nodes
    BY <1>1 DEF Messages
  <2>3. 1 \in 1..Len(m.via)
    BY <2>2
  <2>4. m.via[1].sentBy = SentBy(m.from) /\ m.from # p
    BY <1>1, <2>1, <2>3 DEF FromTop, Retraceable
  <2> QED
    BY <2>1, <2>2, <2>4, SentByFacts
<1> QED
  BY <1>1, <1>2, <1>3, <1>4, <1>5, <1>6

\* The routes of a request of the dialog.
LEMMA RouteFacts ==
  ASSUME NEW route \in Seq(Nodes)
  PROVE  /\ RouteOffset(route) \in Seq(Nodes) /\ RouteTarget(route) \in Nodes
         /\ Len(route) > 0 => Len(RouteOffset(route)) = Len(route) - 1
         /\ Len(route) > 0 => \A j \in 1..(Len(route) - 1) : RouteOffset(route)[j] = route[j + 1]
         /\ RouteTarget(route) = IF Len(route) > 1 THEN route[2] ELSE Uas
<1>1. Uas \in Nodes
  BY DEF Nodes
<1>2. CASE Len(route) > 1
  BY <1>2, <1>1 DEF RouteOffset, RouteTarget
<1>3. CASE ~(Len(route) > 1)
  <2>1. RouteOffset(route) = <<>> /\ RouteTarget(route) = Uas
    BY <1>3 DEF RouteOffset, RouteTarget
  <2>2. Len(route) > 0 => Len(route) = 1
    <3>1. Len(route) \in Nat
      OBVIOUS
    <3> QED
      BY <1>3, <3>1
  <2> QED
    BY <1>1, <1>3, <2>1, <2>2
<1> QED
  BY <1>2, <1>3

\* The INVITE as a proxy sends it on.
LEMMA InviteOut ==
  ASSUME Types, InvitedInv, MessageInv, NEW m \in net \cup invited, NEW p \in Proxies,
         NEW n \in Routes(p), InviteForward(p, m, n)
  PROVE  LET out == Forwarded(p, m, n, <<>>, <<SentBy(p)>> \o m.rr) IN
         /\ PassedOn(p, m, out) /\ out.mf > 0 /\ out.route = <<>> /\ out.to = n
         /\ Len(out.rr) = Len(m.rr) + 1 /\ out.rr[1] = p
         /\ \A j \in 1..Len(m.rr) : out.rr[j + 1] = m.rr[j]
         /\ n \in Proxies \cup {Uas} /\ n # p
<1> DEFINE rr == <<SentBy(p)>> \o m.rr
<1>1. m \in Messages /\ m.method = "INVITE" /\ m.via[1].sentBy # SentBy(p)
  BY NewRequest DEF InviteForward, Methods
<1>2. m.rr \in Seq(Nodes) /\ p \in Nodes /\ SentBy(p) = p
  BY <1>1, SentByFacts DEF Messages, Nodes
<1>3. rr \in Seq(Nodes) /\ Len(rr) = Len(m.rr) + 1 /\ rr[1] = p /\ \A j \in 1..Len(m.rr) : rr[j + 1] = m.rr[j]
  BY <1>2
<1>4. n \in Proxies \cup {Uas} /\ n # p /\ n \in Nodes
  BY RoutesAssumption DEF Routes, Nodes
<1>5. made[p] \in Nat
  BY <1>2 DEF Types
<1>6. m.mf - 1 > 0
  BY DEF InviteForward, Decrement
<1> DEFINE out == Forwarded(p, m, n, <<>>, rr)
<1> HIDE DEF rr
<1>7. PassedOn(p, m, out) /\ out.route = <<>> /\ out.rr = rr /\ out.to = n
  <2> DEFINE empty == <<>>
  <2>1. empty \in Seq(Nodes)
    OBVIOUS
  <2> HIDE DEF empty
  <2>2. LET o == Forwarded(p, m, n, empty, rr) IN
        PassedOn(p, m, o) /\ o.route = empty /\ o.rr = rr /\ o.to = n
    BY <1>1, <1>3, <1>4, <1>5, <1>6, <2>1, ForwardedFacts
  <2> QED
    BY <2>2 DEF empty
<1>8. out.mf > 0
  BY <1>6, <1>7 DEF PassedOn
<1> QED
  BY <1>1, <1>3, <1>4, <1>7, <1>8 DEF rr

\* A request of the dialog as a proxy sends it on.
LEMMA DialogOut ==
  ASSUME Types, InvitedInv, MessageInv, NEW m \in net \cup invited, NEW p \in Proxies,
         NEW method \in {"BYE", "ACK"}, IsNew(p, m, method), Decrement(m.mf)
  PROVE  LET out == Forwarded(p, m, RouteTarget(m.route), RouteOffset(m.route), m.rr) IN
         /\ PassedOn(p, m, out) /\ out.mf > 0
         /\ out.route = RouteOffset(m.route) /\ out.to = RouteTarget(m.route)
<1>1. m \in Messages /\ m.method = method /\ m.via[1].sentBy # SentBy(p)
  BY NewRequest DEF Methods
<1>2. m.rr \in Seq(Nodes) /\ m.route \in Seq(Nodes) /\ p \in Nodes
  BY <1>1 DEF Messages, Nodes
<1>3. RouteOffset(m.route) \in Seq(Nodes) /\ RouteTarget(m.route) \in Nodes
  BY <1>2, RouteFacts
<1>4. made[p] \in Nat
  BY <1>2 DEF Types
<1>5. m.mf - 1 > 0
  BY DEF Decrement
<1> DEFINE out == Forwarded(p, m, RouteTarget(m.route), RouteOffset(m.route), m.rr)
<1>6. PassedOn(p, m, out) /\ out.route = RouteOffset(m.route) /\ out.to = RouteTarget(m.route)
  BY <1>1, <1>2, <1>3, <1>4, <1>5, ForwardedFacts
<1>7. out.mf > 0
  BY <1>5, <1>6 DEF PassedOn
<1> QED
  BY <1>6, <1>7

\* A response that a proxy handles goes to where the Via below its own leads.
LEMMA ResponseOut ==
  ASSUME Types, InvitedInv, MessageInv, NEW m \in net \cup invited, NEW p \in Proxies,
         Arrived(p, m), m.code # "request"
  PROVE  /\ m \in net /\ m \in Messages /\ MessageOK(m) /\ By(m.via[1]) = p
         /\ m.method \in {"INVITE", "CANCEL", "BYE"}
         /\ \A o \in Relayed(p, m) :
              /\ o \in Messages /\ m.method \in {"INVITE", "BYE"} /\ Len(m.via) > 1
              /\ o.method = m.method /\ o.code = m.code /\ o.path = m.path /\ o.rr = m.rr
              /\ o.from = p /\ o.to = By(m.via[2]) /\ o.via = Tail(m.via)
         /\ \A o, x \in Relayed(p, m) : o = x
<1>1. m \in net /\ m \in Messages /\ MessageOK(m) /\ m.to = p
  BY Handled DEF Arrived
<1>2. m.method \in {"INVITE", "CANCEL", "BYE"}
  BY <1>1 DEF MessageOK, Messages, Methods
<1>3. By(m.via[1]) = p
  BY <1>1, <1>2 DEF MessageOK, InviteOK
<1>4. ASSUME NEW o \in Relayed(p, m)
      PROVE  /\ o \in Messages /\ m.method \in {"INVITE", "BYE"} /\ Len(m.via) > 1
             /\ o.method = m.method /\ o.code = m.code /\ o.path = m.path /\ o.rr = m.rr
             /\ o.from = p /\ o.to = By(m.via[2]) /\ o.via = Tail(m.via)
  <2>1. m.via \in Seq(Vias) \ {<<>>}
    BY <1>1 DEF Messages
  <2>2. Len(m.via) # 1
    BY <1>1, <1>4, RelayedFacts
  <2>3. Len(m.via) \in Nat /\ Len(m.via) > 1
    BY <2>1, <2>2, NonEmpty
  <2>4. m.method # "CANCEL"
    <3>1. m.method = "CANCEL" => Len(m.via) = 1
      BY <1>1 DEF MessageOK
    <3> QED
      BY <2>2, <3>1
  <2>5. o = [m EXCEPT !.via = Tail(m.via), !.from = p, !.to = Resolved(m.via[2])]
    BY <1>1, <1>4, <2>3, RelayedFacts
  <2>6. 2 \in 2..Len(m.via)
    BY <2>3
  <2>7. Resolved(m.via[2]) = By(m.via[2])
    <3>1. CASE m.method = "INVITE"
      <4>1. PICK i \in invited : Answers(m, i)
        BY <1>1, <3>1 DEF MessageOK, InviteOK
      <4>2. m.via[2] = i.via[2] /\ Len(i.via) = Len(m.via)
        BY <4>1, <2>6 DEF Answers, SameTrail
      <4>3. Retraceable(i.via)
        BY DEF InvitedInv, Sound
      <4> QED
        BY <4>2, <4>3, <2>6 DEF Retraceable
    <3>2. CASE m.method = "BYE"
      <4>1. Retraceable(m.via)
        BY <1>1, <3>2 DEF MessageOK, PathSuffix
      <4> QED
        BY <4>1, <2>6 DEF Retraceable
    <3> QED
      BY <1>2, <2>4, <3>1, <3>2
  <2>8. m.via[2] \in Vias
    BY <2>1, <2>3
  <2>9. By(m.via[2]) \in Nodes
    BY <2>8 DEF By, Vias, Branches
  <2>10. Tail(m.via) \in Seq(Vias) \ {<<>>}
    BY <2>1, <2>2, NonEmpty
  <2>11. p \in Nodes
    BY DEF Nodes
  <2>12. o \in Messages
    BY <1>1, <2>5, <2>7, <2>9, <2>10, <2>11 DEF Messages
  <2>13. /\ o.method = m.method /\ o.code = m.code /\ o.path = m.path /\ o.rr = m.rr
         /\ o.from = p /\ o.to = By(m.via[2]) /\ o.via = Tail(m.via)
    BY <1>1, <2>5, <2>7 DEF Messages
  <2> QED
    BY <1>2, <2>3, <2>4, <2>12, <2>13
<1>5. ASSUME NEW o \in Relayed(p, m), NEW x \in Relayed(p, m) PROVE o = x
  <2>1. m.via \in Seq(Vias) \ {<<>>}
    BY <1>1 DEF Messages
  <2>2. Len(m.via) = 1 \/ Len(m.via) > 1
    BY <2>1, NonEmpty
  <2>3. CASE Len(m.via) = 1
    BY <1>1, <1>5, <2>3, RelayedFacts
  <2>4. CASE Len(m.via) > 1
    <3>1. \E y : Relayed(p, m) = {y}
      BY <1>1, <2>4, RelayedFacts
    <3> QED
      BY <1>5, <3>1
  <2> QED
    BY <2>2, <2>3, <2>4
<1> QED
  BY <1>1, <1>2, <1>3, <1>4, <1>5

\* A request of the caller.
LEMMA RequestFacts ==
  ASSUME NEW method \in Methods, NEW i \in Nat, NEW f \in Nat, NEW route \in Seq(Nodes),
         NEW path \in Seq(Nodes)
  PROVE  LET out == Request(method, <<Via(Uac, i)>>, f, route, <<>>, path, Uac, FirstHop) IN
         /\ out \in Messages
         /\ out.method = method /\ out.code = "request" /\ out.via = <<Via(Uac, i)>>
         /\ Len(out.via) = 1 /\ out.via[1] = Via(Uac, i)
         /\ out.mf = f /\ out.route = route /\ out.rr = <<>> /\ out.path = path
         /\ out.from = Uac /\ out.to = FirstHop
<1>1. Uac \in Nodes /\ FirstHop \in Nodes
  BY RoutesAssumption DEF Nodes
<1>2. Via(Uac, i) \in Vias
  BY <1>1, ViaFacts
<1> DEFINE v == Via(Uac, i)
<1> HIDE DEF v
<1>3. <<v>> \in Seq(Vias) \ {<<>>} /\ Len(<<v>>) = 1 /\ <<v>>[1] = v
  BY <1>2 DEF v
<1>4. "request" \in Codes /\ <<>> \in Seq(Nodes)
  BY DEF Codes
<1>5. Request(method, <<v>>, f, route, <<>>, path, Uac, FirstHop) \in Messages
  BY <1>1, <1>3, <1>4 DEF Request, Messages
<1>6. LET out == Request(method, <<v>>, f, route, <<>>, path, Uac, FirstHop) IN
         /\ out.method = method /\ out.code = "request" /\ out.via = <<v>>
         /\ out.mf = f /\ out.route = route /\ out.rr = <<>> /\ out.path = path
         /\ out.from = Uac /\ out.to = FirstHop
  BY DEF Request
<1> QED
  BY <1>3, <1>5, <1>6 DEF v

--------------------------------------------------------------------------------
(***************************************************************************)
(* The types.                                                              *)
(***************************************************************************)
LEMMA InitTypes == Init => Types /\ CallerMade
<1> SUFFICES ASSUME Init PROVE Types /\ CallerMade
  OBVIOUS
<1>1. cancelled \in BOOLEAN
  BY Zenon DEF Init
<1>2. dialog \in [route : Seq(Nodes), path : Seq(Nodes)]
  BY DEF Init, NoDialog
<1>3. Uac \in Nodes
  BY DEF Nodes
<1> QED
  BY <1>1, <1>2, <1>3, BoundsAssumption DEF Init, Types, CallerMade

\* The transactions and call states that the handlers make.
LEMMA TableTypes ==
  ASSUME Types, NEW p \in Proxies
  PROVE  /\ \A s \in ServerKeys : [sts EXCEPT ![p] = @ \cup {s}] \in [Proxies -> SUBSET ServerKeys]
         /\ \A s \in ServerKeys : [done EXCEPT ![p] = @ \cup {s}] \in [Proxies -> SUBSET ServerKeys]
         /\ Opened(call[p]) \in [state : {"none", "open", "closed"}, removals : Nat]
         /\ Closed(call[p]) \in [state : {"none", "open", "closed"}, removals : Nat]
         /\ Closed(Opened(call[p])) \in [state : {"none", "open", "closed"}, removals : Nat]
<1>1. \A s \in ServerKeys : [sts EXCEPT ![p] = @ \cup {s}] \in [Proxies -> SUBSET ServerKeys]
  BY DEF Types
<1>2. \A s \in ServerKeys : [done EXCEPT ![p] = @ \cup {s}] \in [Proxies -> SUBSET ServerKeys]
  BY DEF Types
<1> DEFINE C == [state : {"none", "open", "closed"}, removals : Nat]
<1>3. call[p] \in C
  BY DEF Types
<1>4. ASSUME NEW c \in C PROVE Opened(c) \in C /\ Closed(c) \in C
  BY DEF Opened, Closed
<1> QED
  BY <1>1, <1>2, <1>3, <1>4

\* A handler puts messages on the network and takes at most one off.
LEMMA ExchangeTypes ==
  ASSUME Types, NEW m \in net \cup invited, NEW out \in SUBSET Messages, Exchange(m, out),
         m \in net \/ dups < MaxDups
  PROVE  net' \subseteq Messages /\ dups' \in 0..MaxDups
<1>1. net' \subseteq Messages
  BY DEF Types, Exchange
<1>2. dups' \in 0..MaxDups
  BY BoundsAssumption DEF Types, Exchange
<1> QED
  BY <1>1, <1>2

\* The handlers of a proxy keep the types.
LEMMA ProxyTypes ==
  ASSUME Types, CallerMade, InvitedInv, MessageInv, NEW p \in Proxies, ProxyStep(p)
  PROVE  Types' /\ CallerMade'
<1> DEFINE T == /\ net' \subseteq Messages
                /\ dups' \in 0..MaxDups
                /\ made' \in [Nodes -> 0..MaxBranch] /\ made'[Uac] = made[Uac]
                /\ sts' \in [Proxies -> SUBSET ServerKeys]
                /\ done' \in [Proxies -> SUBSET ServerKeys]
                /\ cts' \in [Proxies -> SUBSET [key : ClientKeys, req : Messages]]
                /\ ctx' \in [Proxies -> SUBSET [ct : ClientKeys, st : ServerKeys]]
                /\ call' \in [Proxies -> [state : {"none", "open", "closed"}, removals : Nat]]
                /\ dead' \subseteq Proxies
                /\ invited' \subseteq Messages
<1>1. p \in Nodes /\ p # Uac /\ Uac \in Nodes
  BY NodesAssumption DEF Nodes
<1>2. UNCHANGED uacVars
  BY DEF ProxyStep, InviteForward, InviteRefuse, ByeForward, ByeRefuse, AckForward, CancelHandler,
         Absorb, ResponseHandler, CallRemove
<1>3. ASSUME Fresh(p) PROVE LET f == [made EXCEPT ![p] = @ + 1] IN f \in [Nodes -> 0..MaxBranch] /\ f[Uac] = made[Uac]
  BY <1>1, <1>3, BoundsAssumption DEF Fresh, Types
<1>4. <<>> \in Seq(Nodes) /\ {"481", "483", "fail", "ok"} \subseteq Codes
  BY DEF Codes
<1>a. \A c \in cts[p] : c.req \in Messages
  BY DEF Types
<1>c. \A c \in cts[p], method \in {"ACK", "CANCEL"} : Derived(c.req, method) \in Messages
  <2>1. {"ACK", "CANCEL"} \subseteq Methods
    BY DEF Methods
  <2> QED
    BY <1>a, <2>1, DerivedFacts
<1>b. ASSUME NEW c, c \in {Opened(call[p]), Closed(call[p]), Closed(Opened(call[p]))},
             call' = [call EXCEPT ![p] = c]
      PROVE  call' \in [Proxies -> [state : {"none", "open", "closed"}, removals : Nat]]
  BY <1>b, TableTypes DEF Types
<1>5. ASSUME NEW m \in net \cup invited, NEW n \in Routes(p), InviteForward(p, m, n) PROVE T
  <2> DEFINE out == Forwarded(p, m, n, <<>>, <<SentBy(p)>> \o m.rr)
  <2>1. out \in Messages /\ m \in Messages
    BY <1>5, InviteOut, Handled DEF PassedOn
  <2>2. ServerKey(m) \in ServerKeys /\ ClientKey(out) \in ClientKeys
    BY <2>1, KeyFacts
  <2> HIDE DEF out
  <2>3. /\ Exchange(m, {out}) /\ OpenServer(p, m) /\ OpenClient(p, m, out) /\ Fresh(p)
        /\ call' = [call EXCEPT ![p] = Opened(@)] /\ invited' = invited \cup {out}
        /\ UNCHANGED <<done, dead>> /\ (m \in net \/ dups < MaxDups)
    BY <1>5 DEF InviteForward, IsNew, Arrived, out
  <2>4. net' \subseteq Messages /\ dups' \in 0..MaxDups
    BY <2>1, <2>3, ExchangeTypes
  <2>5. sts' \in [Proxies -> SUBSET ServerKeys]
    BY <2>2, <2>3, TableTypes DEF OpenServer
  <2>6. /\ cts' \in [Proxies -> SUBSET [key : ClientKeys, req : Messages]]
        /\ ctx' \in [Proxies -> SUBSET [ct : ClientKeys, st : ServerKeys]]
    BY <2>1, <2>2, <2>3 DEF OpenClient, Types
  <2>7. call' \in [Proxies -> [state : {"none", "open", "closed"}, removals : Nat]]
    BY <2>3, TableTypes DEF Types
  <2>8. made' \in [Nodes -> 0..MaxBranch] /\ made'[Uac] = made[Uac]
    BY <1>3, <2>3 DEF OpenClient
  <2> QED
    BY <2>1, <2>3, <2>4, <2>5, <2>6, <2>7, <2>8 DEF Types
<1>6. ASSUME NEW m \in net \cup invited, InviteRefuse(p, m) \/ ByeRefuse(p, m) PROVE T
  <2>1. m \in Messages
    BY Handled
  <2>2. ServerKey(m) \in ServerKeys
    BY <2>1, KeyFacts
  <2>3. PICK code \in {"481", "483", "fail"} : ErrorResponse(p, m, code)
    BY <1>6 DEF InviteRefuse, ByeRefuse
  <2>4. Response(m, code, <<>>, p) \in Messages
    <3>1. p \in Nodes /\ code \in Codes
      BY <1>1, <1>4
    <3> QED
      BY <2>1, <3>1, ReplyFacts
  <2>5. /\ OpenServer(p, m) /\ (m \in net \/ dups < MaxDups)
        /\ UNCHANGED <<made, cts, ctx, dead, invited>>
        /\ call' = [call EXCEPT ![p] = Closed(Opened(@))] \/ call' = [call EXCEPT ![p] = Closed(@)]
    BY <1>6 DEF InviteRefuse, ByeRefuse, IsNew, Arrived
  <2>6. net' \subseteq Messages /\ dups' \in 0..MaxDups
    BY <2>3, <2>4, <2>5, ExchangeTypes DEF ErrorResponse
  <2>7. sts' \in [Proxies -> SUBSET ServerKeys] /\ done' \in [Proxies -> SUBSET ServerKeys]
    BY <2>2, <2>3, <2>5, TableTypes DEF OpenServer, ErrorResponse
  <2>8. call' \in [Proxies -> [state : {"none", "open", "closed"}, removals : Nat]]
    BY <2>5, <1>b
  <2> QED
    BY <2>5, <2>6, <2>7, <2>8 DEF Types
<1>7. ASSUME NEW m \in net \cup invited, ByeForward(p, m) PROVE T
  <2> DEFINE out == Forwarded(p, m, RouteTarget(m.route), RouteOffset(m.route), m.rr)
  <2>1. out \in Messages /\ m \in Messages
    BY <1>7, DialogOut, Handled DEF PassedOn, ByeForward
  <2>2. ServerKey(m) \in ServerKeys /\ ClientKey(out) \in ClientKeys
    BY <2>1, KeyFacts
  <2> HIDE DEF out
  <2>3. /\ Exchange(m, {out}) /\ OpenServer(p, m) /\ OpenClient(p, m, out) /\ Fresh(p)
        /\ UNCHANGED <<done, dead, call, invited>> /\ (m \in net \/ dups < MaxDups)
    BY <1>7 DEF ByeForward, IsNew, Arrived, out
  <2>4. net' \subseteq Messages /\ dups' \in 0..MaxDups
    BY <2>1, <2>3, ExchangeTypes
  <2>5. sts' \in [Proxies -> SUBSET ServerKeys]
    BY <2>2, <2>3, TableTypes DEF OpenServer
  <2>6. /\ cts' \in [Proxies -> SUBSET [key : ClientKeys, req : Messages]]
        /\ ctx' \in [Proxies -> SUBSET [ct : ClientKeys, st : ServerKeys]]
    BY <2>1, <2>2, <2>3 DEF OpenClient, Types
  <2>7. made' \in [Nodes -> 0..MaxBranch] /\ made'[Uac] = made[Uac]
    BY <1>3, <2>3 DEF OpenClient
  <2> QED
    BY <2>3, <2>4, <2>5, <2>6, <2>7 DEF Types
<1>8. ASSUME NEW m \in net \cup invited, AckForward(p, m) PROVE T
  <2> DEFINE out == Forwarded(p, m, RouteTarget(m.route), RouteOffset(m.route), m.rr)
  <2>1. Decrement(m.mf) => out \in Messages
    BY <1>8, DialogOut DEF PassedOn, AckForward
  <2> HIDE DEF out
  <2>2. /\ UNCHANGED <<sts, done, cts, ctx, call, invited>> /\ (m \in net \/ dups < MaxDups)
        /\ \/ Decrement(m.mf) /\ Exchange(m, {out}) /\ Fresh(p) /\ made' = [made EXCEPT ![p] = @ + 1] /\ dead' = dead
           \/ dead' = dead \cup {p} /\ Exchange(m, {}) /\ made' = made
    BY <1>8 DEF AckForward, IsNew, Arrived, out
  <2>3. net' \subseteq Messages /\ dups' \in 0..MaxDups
    BY <2>1, <2>2, ExchangeTypes
  <2>4. made' \in [Nodes -> 0..MaxBranch] /\ made'[Uac] = made[Uac]
    BY <1>3, <2>2 DEF Types
  <2> QED
    BY <2>2, <2>3, <2>4 DEF Types
<1>9. ASSUME NEW m \in net \cup invited, CancelHandler(p, m) PROVE T
  <2> DEFINE key  == [ServerKey(m) EXCEPT !.method = "INVITE"]
             keys == {x.ct : x \in {y \in ctx[p] : y.st = key}}
             out  == {Derived(c.req, "CANCEL") : c \in {d \in cts[p] : d.key \in keys}}
  <2>1. m \in Messages /\ "CANCEL" \in Methods
    BY Handled DEF Methods
  <2>2. ServerKey(m) \in ServerKeys
    BY <2>1, KeyFacts
  <2> HIDE DEF keys
  <2>3. out \subseteq Messages
    BY <1>c
  <2>4. Response(m, "ok", <<>>, p) \in Messages /\ Response(m, "481", <<>>, p) \in Messages
    BY <1>1, <1>4, <2>1, ResponseFacts
  <2>5. ASSUME NEW sent \in SUBSET out
        PROVE  [cts EXCEPT ![p] = @ \cup {[key |-> ClientKey(o), req |-> o] : o \in sent}]
                  \in [Proxies -> SUBSET [key : ClientKeys, req : Messages]]
    <3>1. {[key |-> ClientKey(o), req |-> o] : o \in sent} \subseteq [key : ClientKeys, req : Messages]
      BY <2>3, KeyFacts
    <3> HIDE DEF out
    <3> QED
      BY <3>1 DEF Types
  <2> HIDE DEF out
  <2>6. /\ OpenServer(p, m) /\ (m \in net \/ dups < MaxDups)
        /\ UNCHANGED <<made, ctx, invited>> /\ dead' \in {dead, dead \cup {p}}
        /\ \/ /\ \E sent \in SUBSET out :
                   /\ Exchange(m, sent \cup {Response(m, "ok", <<>>, p)})
                   /\ cts' = [cts EXCEPT ![p] = @ \cup {[key |-> ClientKey(o), req |-> o] : o \in sent}]
              /\ done' = [done EXCEPT ![p] = @ \cup {ServerKey(m)}]
              /\ UNCHANGED call
           \/ /\ Exchange(m, {Response(m, "481", <<>>, p)})
              /\ done' = [done EXCEPT ![p] = @ \cup {ServerKey(m)}]
              /\ call' = [call EXCEPT ![p] = Closed(@)]
              /\ UNCHANGED cts
    BY <1>9 DEF CancelHandler, IsNew, Arrived, ErrorResponse, out, keys
  <2>7. net' \subseteq Messages /\ dups' \in 0..MaxDups
    BY <2>3, <2>4, <2>6, ExchangeTypes
  <2>8. sts' \in [Proxies -> SUBSET ServerKeys] /\ done' \in [Proxies -> SUBSET ServerKeys]
    <3>1. /\ sts' = [sts EXCEPT ![p] = @ \cup {ServerKey(m)}]
          /\ done' = [done EXCEPT ![p] = @ \cup {ServerKey(m)}]
      BY <2>6 DEF OpenServer
    <3> QED
      BY <2>2, <3>1, TableTypes
  <2>9. call' \in [Proxies -> [state : {"none", "open", "closed"}, removals : Nat]]
    BY <2>6, <1>b DEF Types
  <2>10. cts' \in [Proxies -> SUBSET [key : ClientKeys, req : Messages]]
    <3>1. CASE UNCHANGED cts
      BY <3>1 DEF Types
    <3>2. CASE ~UNCHANGED cts
      <4>1. PICK sent \in SUBSET out :
              cts' = [cts EXCEPT ![p] = @ \cup {[key |-> ClientKey(o), req |-> o] : o \in sent}]
        BY <2>6, <3>2, Zenon
      <4> QED
        BY <2>5, <4>1, Zenon
    <3> QED
      BY <3>1, <3>2
  <2> QED
    BY <2>6, <2>7, <2>8, <2>9, <2>10 DEF Types
<1>10. ASSUME NEW m \in net \cup invited, Absorb(p, m) PROVE T
  BY <1>10 DEF Absorb, Exchange, Types
<1>11. ASSUME NEW m \in net \cup invited, ResponseHandler(p, m) PROVE T
  <2> DEFINE key   == ClientKey(m)
             tx    == {c \in cts[p] : c.key = key}
             acks  == IF m.method = "INVITE" /\ IsFailure(m.code)
                      THEN {Derived(c.req, "ACK") : c \in tx} ELSE {}
             bound == {x.st : x \in {y \in ctx[p] : y.ct = key}} \cap sts[p]
             open  == HasCall(p) /\ bound # {}
             up    == IF open /\ bound \cap done[p] = {} THEN Relayed(p, m) ELSE {}
             gone  == {s \in bound : open /\ s.method = "INVITE" /\ m.code = "ok"}
  <2>1. Arrived(p, m) /\ m.code # "request" /\ "ACK" \in Methods
    BY <1>11 DEF ResponseHandler, Methods
  <2>2. acks \subseteq Messages
    BY <1>c
  <2>3. up \subseteq Messages
    BY <2>1, ResponseOut
  <2> HIDE DEF acks, up, key
  <2>4. /\ Exchange(m, acks \cup up) /\ UNCHANGED <<made, dead, invited>>
        /\ cts' = [cts EXCEPT ![p] = IF key.method = "INVITE" /\ m.code = "ok" THEN @ \ tx ELSE @]
        /\ ctx' = [ctx EXCEPT ![p] = {x \in @ : ~(open /\ IsFinal(m.code) /\ x.ct = key)}]
        /\ done' = [done EXCEPT ![p] = IF open /\ IsFinal(m.code) THEN (@ \cup bound) \ gone ELSE @]
        /\ sts' = [sts EXCEPT ![p] = @ \ gone]
        /\ call' = [call EXCEPT ![p] = IF open /\ ClosesCall(m) THEN Closed(@) ELSE @]
    BY <1>11 DEF ResponseHandler, acks, up, key
  <2>5. net' \subseteq Messages /\ dups' \in 0..MaxDups
    BY <2>1, <2>2, <2>3, <2>4, ExchangeTypes DEF Arrived
  <2>6. bound \subseteq ServerKeys
    BY DEF Types
  <2> HIDE DEF tx, bound, open, gone
  <2>7. cts' \in [Proxies -> SUBSET [key : ClientKeys, req : Messages]]
    BY <2>4 DEF Types
  <2>8. ctx' \in [Proxies -> SUBSET [ct : ClientKeys, st : ServerKeys]]
    BY <2>4 DEF Types
  <2>9. done' \in [Proxies -> SUBSET ServerKeys] /\ sts' \in [Proxies -> SUBSET ServerKeys]
    BY <2>4, <2>6 DEF Types
  <2>10. call' \in [Proxies -> [state : {"none", "open", "closed"}, removals : Nat]]
    BY <2>4, TableTypes DEF Types
  <2> QED
    BY <2>4, <2>5, <2>7, <2>8, <2>9, <2>10 DEF Types
<1>12. ASSUME CallRemove(p) PROVE T
  <2>1. Removed(call[p]) \in [state : {"none", "open", "closed"}, removals : Nat]
    BY <1>12 DEF CallRemove, Removed, Types
  <2> QED
    BY <1>12, <2>1 DEF CallRemove, Types
<1>13. T
  BY <1>5, <1>6, <1>7, <1>8, <1>9, <1>10, <1>11, <1>12 DEF ProxyStep
<1> HIDE DEF T
<1>14. cancelled' \in BOOLEAN
  BY <1>2, Zenon DEF uacVars, Types
<1>15. Types'
  BY <1>2, <1>13, <1>14 DEF T, uacVars, Types
<1>16. CallerMade'
  BY <1>2, <1>13 DEF T, uacVars, CallerMade
<1> QED
  BY <1>15, <1>16

\* The last comes first.
LEMMA ReverseFacts ==
  ASSUME NEW s \in Seq(Nodes)
  PROVE  /\ Reverse(s) \in Seq(Nodes) /\ Len(Reverse(s)) = Len(s)
         /\ \A j \in 1..Len(s) : Reverse(s)[j] = s[Len(s) + 1 - j]
  BY DEF Reverse

\* The path of a request is who wrote its Vias.
LEMMA PathFacts ==
  ASSUME NEW via \in Seq(Vias)
  PROVE  /\ Path(via) \in Seq(Nodes) /\ Len(Path(via)) = Len(via)
         /\ \A j \in 1..Len(via) : Path(via)[j] = By(via[j])
<1>1. ASSUME NEW j \in 1..Len(via) PROVE via[j].branch[1] \in Nodes
  <2>1. via[j] \in Vias
    OBVIOUS
  <2> QED
    BY <2>1 DEF Vias, Branches
<1>2. Path(via) = [j \in 1..Len(via) |-> via[j].branch[1]]
  BY DEF Path
<1> QED
  BY <1>1, <1>2 DEF By

\* The requests of the caller keep the types.
LEMMA CallerTypes ==
  ASSUME Types, CallerMade, NEW f \in Forwards,
         UacInvite(f) \/ UacBye(f) \/ \E m \in net : UacAnswer(m, f)
  PROVE  Types' /\ CallerMade'
<1>1. Uac \in Nodes /\ f \in Nat /\ {"INVITE", "ACK", "BYE"} \subseteq Methods /\ <<>> \in Seq(Nodes)
  BY BoundsAssumption DEF Nodes, Methods
<1>2. ASSUME UacInvite(f) PROVE Types' /\ CallerMade'
  <2> DEFINE out == Request("INVITE", <<Via(Uac, 1)>>, f, <<>>, <<>>, <<>>, Uac, FirstHop)
  <2>1. out \in Messages
    BY <1>1, RequestFacts
  <2> HIDE DEF out
  <2>2. /\ uac = "idle" /\ uac' = "calling" /\ made' = [made EXCEPT ![Uac] = 1]
        /\ net' = net \cup {out} /\ dups' = dups /\ invited' = invited \cup {out}
        /\ UNCHANGED <<dialog, cancelled, sts, done, cts, ctx, call, dead>>
    BY <1>2 DEF UacInvite, Post, out, proxyVars
  <2>3. made' \in [Nodes -> 0..MaxBranch] /\ made'[Uac] = 1
    BY <1>1, <2>2, BoundsAssumption DEF Types
  <2>4. cancelled' \in BOOLEAN
    BY <2>2, Zenon DEF Types
  <2> QED
    BY <2>1, <2>2, <2>3, <2>4 DEF Types, CallerMade
<1>3. ASSUME UacBye(f) PROVE Types' /\ CallerMade'
  <2> DEFINE out == Request("BYE", <<Via(Uac, made[Uac] + 1)>>, f, dialog.route, <<>>,
                            dialog.path, Uac, FirstHop)
  <2>1. uac = "up" /\ made[Uac] = 2
    BY <1>3 DEF UacBye, CallerMade
  <2>2. out \in Messages
    <3>1. dialog.route \in Seq(Nodes) /\ dialog.path \in Seq(Nodes) /\ made[Uac] + 1 \in Nat
      BY <2>1 DEF Types
    <3> QED
      BY <1>1, <3>1, RequestFacts
  <2> HIDE DEF out
  <2>3. /\ uac' = "bye" /\ made' = [made EXCEPT ![Uac] = @ + 1]
        /\ net' = net \cup {out} /\ dups' = dups
        /\ UNCHANGED <<invited, dialog, cancelled, sts, done, cts, ctx, call, dead>>
    BY <1>3 DEF UacBye, Post, out, proxyVars
  <2>4. made' \in [Nodes -> 0..MaxBranch] /\ made'[Uac] = 3
    BY <1>1, <2>1, <2>3, BoundsAssumption DEF Types
  <2>5. cancelled' \in BOOLEAN
    BY <2>3, Zenon DEF Types
  <2> QED
    BY <2>2, <2>3, <2>4, <2>5 DEF Types, CallerMade
<1>5. ASSUME NEW m \in net, UacAnswer(m, f) PROVE Types' /\ CallerMade'
  <2> DEFINE route == Reverse(m.rr)
             ack == Request("ACK", <<Via(Uac, made[Uac] + 1)>>, f, route, <<>>, m.path, Uac, FirstHop)
             nak == Request("ACK", <<Via(Uac, 1)>>, 1, <<>>, <<>>, <<>>, Uac, FirstHop)
  <2>1. uac = "calling" /\ made[Uac] = 1
    BY <1>5 DEF UacAnswer, CallerMade
  <2>2. m.path \in Seq(Nodes) /\ route \in Seq(Nodes) /\ made[Uac] + 1 \in Nat
    <3>1. m.rr \in Seq(Nodes) /\ m.path \in Seq(Nodes)
      BY DEF Types, Messages
    <3> QED
      BY <2>1, <3>1, ReverseFacts
  <2> HIDE DEF route
  <2>3. ack \in Messages /\ nak \in Messages
    BY <1>1, <2>2, RequestFacts
  <2> HIDE DEF ack, nak
  <2>4. /\ UNCHANGED <<cancelled, invited, sts, done, cts, ctx, call, dead>>
        /\ \/ /\ uac' = "up" /\ dialog' = [route |-> route, path |-> m.path]
              /\ made' = [made EXCEPT ![Uac] = @ + 1] /\ Exchange(m, {ack})
           \/ /\ uac' = "end" /\ Exchange(m, {nak}) /\ UNCHANGED <<dialog, made>>
    BY <1>5 DEF UacAnswer, proxyVars, route, ack, nak
  <2>5. net' \subseteq Messages /\ dups' \in 0..MaxDups
    BY <2>3, <2>4, ExchangeTypes
  <2>6. cancelled' \in BOOLEAN
    BY <2>4, Zenon DEF Types
  <2>7. CASE uac' = "up"
    <3>1. made' \in [Nodes -> 0..MaxBranch] /\ made'[Uac] = 2
      <4>1. made \in [Nodes -> 0..MaxBranch] /\ 2 \in 0..MaxBranch
        BY BoundsAssumption DEF Types
      <4>2. made' = [made EXCEPT ![Uac] = 2]
        BY <2>1, <2>4, <2>7
      <4> QED
        BY <1>1, <4>1, <4>2
    <3>2. dialog' \in [route : Seq(Nodes), path : Seq(Nodes)]
      BY <2>2, <2>4, <2>7
    <3> QED
      BY <2>4, <2>5, <2>6, <2>7, <3>1, <3>2 DEF Types, CallerMade
  <2>8. CASE uac' = "end"
    <3>1. UNCHANGED <<dialog, made>>
      BY <2>4, <2>8
    <3> QED
      BY <2>1, <2>4, <2>5, <2>6, <2>8, <3>1 DEF Types, CallerMade
  <2> QED
    BY <2>4, <2>7, <2>8
<1> QED
  BY <1>2, <1>3, <1>5

\* The answers of the callee keep the types.
LEMMA CalleeTypes ==
  ASSUME Types, CallerMade, NEW m \in net, NEW c \in {"ringing", "ok", "fail"}, UasAnswer(m, c)
  PROVE  Types' /\ CallerMade'
<1>1. /\ net' = (net \ {m}) \cup {Response(m, c, Path(m.via), Uas)}
      /\ UNCHANGED <<dups, made, invited, uac, dialog, cancelled, sts, done, cts, ctx, call, dead>>
  BY DEF UasAnswer, uacVars, proxyVars
<1>2. m \in Messages /\ m.via \in Seq(Vias) /\ c \in Codes /\ Uas \in Nodes
  BY DEF Types, Messages, Codes, Nodes
<1>3. Path(m.via) \in Seq(Nodes)
  BY <1>2, PathFacts
<1>4. Response(m, c, Path(m.via), Uas) \in Messages
  BY <1>2, <1>3, ResponseFacts
<1>5. cancelled' \in BOOLEAN
  BY <1>1, Zenon DEF Types
<1> QED
  BY <1>1, <1>4, <1>5 DEF Types, CallerMade

\* Every step keeps the types and the count of the caller's branches.
LEMMA TypesStep ==
  ASSUME Types, CallerMade, InvitedInv, MessageInv, [Next]_vars
  PROVE  Types' /\ CallerMade'
<1>1. ASSUME UacCancel PROVE Types' /\ CallerMade'
  \* The caller's CANCEL has no Max-Forwards of its choice.
  <2> DEFINE out == Request("CANCEL", <<Via(Uac, 1)>>, 1, <<>>, <<>>, <<>>, Uac, FirstHop)
  <2>1. out \in Messages
    <3>1. "CANCEL" \in Methods /\ <<>> \in Seq(Nodes)
      BY DEF Methods
    <3> QED
      BY <3>1, RequestFacts
  <2> HIDE DEF out
  <2>2. /\ net' = net \cup {out} /\ dups' = dups
        /\ UNCHANGED <<made, uac, invited, dialog, sts, done, cts, ctx, call, dead>>
    BY <1>1 DEF UacCancel, Post, out, proxyVars
  <2>3. cancelled' \in BOOLEAN
    BY <1>1, Zenon DEF UacCancel
  <2> QED
    BY <2>1, <2>2, <2>3 DEF Types, CallerMade
<1>2. ASSUME NEW m \in net, UacByeAnswer(m) PROVE Types' /\ CallerMade'
  <2>1. /\ UNCHANGED <<made, cancelled, invited, dialog, sts, done, cts, ctx, call, dead>>
        /\ net' = net \ {m} /\ dups' = dups /\ uac' \in {"ended", "refused"} /\ uac = "bye"
    BY <1>2 DEF UacByeAnswer, Exchange, proxyVars
  <2>2. cancelled' \in BOOLEAN
    BY <2>1, Zenon DEF Types
  <2> QED
    BY <2>1, <2>2 DEF Types, CallerMade
<1>3. CASE UNCHANGED vars
  <2>1. cancelled' \in BOOLEAN
    BY <1>3, Zenon DEF Types, vars
  <2> QED
    BY <1>3, <2>1 DEF vars, Types, CallerMade
<1> QED
  BY <1>1, <1>2, <1>3, ProxyTypes, CallerTypes, CalleeTypes DEF Next

--------------------------------------------------------------------------------
(***************************************************************************)
(* What no step undoes.                                                    *)
(***************************************************************************)
LEMMA ProxyFrame ==
  ASSUME NEW p \in Proxies, ProxyStep(p)
  PROVE  /\ UNCHANGED uacVars
         /\ dups' = dups \/ dups' = dups + 1
         /\ made' = made \/ made' = [made EXCEPT ![p] = @ + 1]
         /\ invited \subseteq invited'
<1> DEFINE F == /\ UNCHANGED uacVars
                /\ dups' = dups \/ dups' = dups + 1
                /\ made' = made \/ made' = [made EXCEPT ![p] = @ + 1]
                /\ invited \subseteq invited'
<1>1. ASSUME NEW m, NEW n, InviteForward(p, m, n) PROVE F
  BY <1>1 DEF InviteForward, OpenClient, Exchange
<1>2. ASSUME NEW m, InviteRefuse(p, m) PROVE F
  BY <1>2 DEF InviteRefuse, ErrorResponse, Exchange
<1>3. ASSUME NEW m, ByeForward(p, m) PROVE F
  BY <1>3 DEF ByeForward, OpenClient, Exchange
<1>4. ASSUME NEW m, ByeRefuse(p, m) PROVE F
  BY <1>4 DEF ByeRefuse, ErrorResponse, Exchange
<1>5. ASSUME NEW m, AckForward(p, m) PROVE F
  BY <1>5 DEF AckForward, Exchange
<1>6. ASSUME NEW m, CancelHandler(p, m) PROVE F
  BY <1>6 DEF CancelHandler, ErrorResponse, Exchange
<1>7. ASSUME NEW m, Absorb(p, m) PROVE F
  BY <1>7 DEF Absorb, Exchange
<1>8. ASSUME NEW m, ResponseHandler(p, m) PROVE F
  BY <1>8 DEF ResponseHandler, Exchange
<1>9. ASSUME CallRemove(p) PROVE F
  BY <1>9 DEF CallRemove
<1> HIDE DEF F
<1>10. F
  BY <1>1, <1>2, <1>3, <1>4, <1>5, <1>6, <1>7, <1>8, <1>9 DEF ProxyStep
<1> QED
  BY <1>10 DEF F

\* Only the steps of a proxy change the state of a proxy.
LEMMA EndpointFrame ==
  ASSUME [Next]_vars
  PROVE  \/ \E p \in Proxies : ProxyStep(p)
         \/ /\ UNCHANGED proxyVars
            /\ dups' = dups
            /\ \/ made' = made \/ made' = [made EXCEPT ![Uac] = @ + 1]
               \/ uac = "idle" /\ made' = [made EXCEPT ![Uac] = 1]
            /\ invited \subseteq invited'
            /\ InDialog => InDialog' /\ dialog' = dialog
            /\ cancelled => cancelled'
<1> DEFINE F == /\ UNCHANGED proxyVars
                /\ dups' = dups
                /\ \/ made' = made \/ made' = [made EXCEPT ![Uac] = @ + 1]
                   \/ uac = "idle" /\ made' = [made EXCEPT ![Uac] = 1]
                /\ invited \subseteq invited'
                /\ InDialog => InDialog' /\ dialog' = dialog
                /\ cancelled => cancelled'
<1>1. ASSUME NEW f, UacInvite(f) PROVE F
  BY <1>1 DEF UacInvite, Post, InDialog
<1>2. ASSUME NEW f, UacBye(f) PROVE F
  BY <1>2 DEF UacBye, Post, InDialog
<1>3. ASSUME UacCancel PROVE F
  BY <1>3 DEF UacCancel, Post, InDialog
<1>4. ASSUME NEW m, NEW f, UacAnswer(m, f) PROVE F
  BY <1>4 DEF UacAnswer, Exchange, InDialog
<1>5. ASSUME NEW m, UacByeAnswer(m) PROVE F
  BY <1>5 DEF UacByeAnswer, Exchange, InDialog
<1>6. ASSUME NEW m, NEW c, UasAnswer(m, c) PROVE F
  BY <1>6 DEF UasAnswer, uacVars, InDialog
<1>7. ASSUME UNCHANGED vars PROVE F
  BY <1>7 DEF vars, proxyVars, InDialog
<1> HIDE DEF F
<1>8. (\E p \in Proxies : ProxyStep(p)) \/ F
  BY <1>1, <1>2, <1>3, <1>4, <1>5, <1>6, <1>7 DEF Next
<1> QED
  BY <1>8 DEF F

\* What is never taken back: branches, INVITEs sent, the dialog, a CANCEL, the
\* count of duplicates.
LEMMA Grows ==
  ASSUME Types, CallerMade, [Next]_vars
  PROVE  /\ \A n \in Nodes : made[n] <= made'[n]
         /\ invited \subseteq invited'
         /\ InDialog => InDialog' /\ dialog' = dialog
         /\ cancelled => cancelled'
         /\ dups <= dups'
<1>1. \A n \in Nodes : made[n] \in Nat
  BY BoundsAssumption DEF Types
<1>2. Uac \in Nodes /\ Proxies \subseteq Nodes
  BY DEF Nodes
<1>3. /\ invited \subseteq invited'
      /\ InDialog => InDialog' /\ dialog' = dialog
      /\ cancelled => cancelled'
      /\ dups' = dups \/ dups' = dups + 1
      /\ \/ made' = made
         \/ \E k \in Nodes : made' = [made EXCEPT ![k] = @ + 1]
         \/ uac = "idle" /\ made' = [made EXCEPT ![Uac] = 1]
  BY <1>2, ProxyFrame, EndpointFrame DEF uacVars, InDialog
<1>4. dups <= dups'
  BY <1>3 DEF Types
<1>5. ASSUME NEW n \in Nodes PROVE made[n] <= made'[n]
  <2>1. uac = "idle" => made[Uac] = 0
    BY DEF CallerMade
  <2>2. CASE made' = made
    BY <1>1, <2>2
  <2>3. ASSUME NEW k \in Nodes, made' = [made EXCEPT ![k] = @ + 1] PROVE made[n] <= made'[n]
    BY <1>1, <2>3 DEF Types
  <2>4. CASE uac = "idle" /\ made' = [made EXCEPT ![Uac] = 1]
    BY <1>1, <1>2, <2>1, <2>4 DEF Types
  <2> QED
    BY <1>3, <2>2, <2>3, <2>4
<1> QED
  BY <1>3, <1>4, <1>5

\* A new server transaction is not one that is there.
LEMMA SettledStays ==
  ASSUME Types, [Next]_vars, NEW p \in Proxies, NEW s, Settled(p, s)
  PROVE  Settled(p, s)'
<1> USE DEF Settled, Types
<1> DEFINE S == Settled(p, s)'
<1>1. ASSUME UNCHANGED <<sts, ctx>> PROVE S
  BY <1>1
<1>2. ASSUME NEW q \in Proxies, NEW k, sts' = [sts EXCEPT ![q] = @ \cup {k}],
             k \notin sts[q],
             ctx' = ctx \/ \E x : ctx' = [ctx EXCEPT ![q] = @ \cup {[ct |-> x, st |-> k]}]
      PROVE  S
  BY <1>2
<1> HIDE DEF S
<1>3. ASSUME NEW q \in Proxies, NEW m, NEW n, InviteForward(q, m, n) PROVE S
  BY <1>2, <1>3 DEF InviteForward, IsNew, OpenServer, OpenClient
<1>4. ASSUME NEW q \in Proxies, NEW m, InviteRefuse(q, m) \/ ByeRefuse(q, m) PROVE S
  BY <1>2, <1>4 DEF InviteRefuse, ByeRefuse, IsNew, OpenServer
<1>5. ASSUME NEW q \in Proxies, NEW m, ByeForward(q, m) PROVE S
  BY <1>2, <1>5 DEF ByeForward, IsNew, OpenServer, OpenClient
<1>6. ASSUME NEW q \in Proxies, NEW m, AckForward(q, m) \/ Absorb(q, m) PROVE S
  BY <1>1, <1>6 DEF AckForward, Absorb
<1>7. ASSUME NEW q \in Proxies, NEW m, CancelHandler(q, m) PROVE S
  BY <1>2, <1>7 DEF CancelHandler, IsNew, OpenServer
<1>8. ASSUME NEW q \in Proxies, NEW m, ResponseHandler(q, m) PROVE S
  <2> DEFINE key   == ClientKey(m)
             bound == {x.st : x \in {y \in ctx[q] : y.ct = key}} \cap sts[q]
             gone  == {b \in bound : (HasCall(q) /\ bound # {}) /\ b.method = "INVITE" /\ m.code = "ok"}
  <2>1. /\ sts' = [sts EXCEPT ![q] = @ \ gone]
        /\ \E P : ctx' = [ctx EXCEPT ![q] = {x \in @ : x \in P}]
    <3>1. sts' = [sts EXCEPT ![q] = @ \ gone]
      BY <1>8 DEF ResponseHandler
    <3>2. ctx' = [ctx EXCEPT ![q] = {x \in @ : ~((HasCall(q) /\ bound # {}) /\ IsFinal(m.code) /\ x.ct = key)}]
      BY <1>8 DEF ResponseHandler
    <3>3. ctx' = [ctx EXCEPT ![q] = {x \in @ : x \in {y \in ctx[q] : ~((HasCall(q) /\ bound # {}) /\ IsFinal(m.code) /\ y.ct = key)}}]
      BY <3>2
    <3> QED
      BY <3>1, <3>3
  <2>2. q = p => s \notin gone
    OBVIOUS
  <2> HIDE DEF gone
  <2> QED
    BY <2>1, <2>2 DEF S
<1>9. ASSUME NEW q \in Proxies, CallRemove(q) PROVE S
  BY <1>1, <1>9 DEF CallRemove
<1>10. ASSUME UNCHANGED proxyVars PROVE S
  BY <1>1, <1>10 DEF proxyVars
<1>11. S
  BY <1>3, <1>4, <1>5, <1>6, <1>7, <1>8, <1>9, <1>10, EndpointFrame DEF ProxyStep
<1> QED
  BY <1>11 DEF S

--------------------------------------------------------------------------------
(***************************************************************************)
(* The INVITEs that were sent.                                             *)
(***************************************************************************)

\* The Vias of a request that a proxy passed on.
LEMMA TrailGrows ==
  ASSUME NEW p \in Proxies, NEW m \in Messages, NEW out, made[p] \in Nat, PassedOn(p, m, out),
         FromTop(m), Retraceable(m.via), Spent(m), out.mf > 0
  PROVE  /\ Retraceable(out.via) /\ Spent(out)
         /\ By(out.via[1]) = p /\ out.via[1].received = Nowhere
         /\ out.via[1].branch = Branch(p, made[p] + 1)
         /\ \A j \in 1..Len(m.via) : /\ out.via[j + 1].branch = m.via[j].branch
                                     /\ By(out.via[j + 1]) = By(m.via[j])
                                     /\ out.via[j + 1].sentBy = m.via[j].sentBy
         /\ SameTrail(Tail(out.via), m.via)
<1>1. /\ m.via \in Seq(Vias) \ {<<>>} /\ out.via \in Seq(Vias) \ {<<>>} /\ m.from \in Nodes /\ p \in Nodes
      /\ m.mf \in Nat /\ out.mf = m.mf - 1 /\ out.from = p
      /\ m.via[1] \in Vias
  <2>1. /\ m.via \in Seq(Vias) \ {<<>>} /\ out.via \in Seq(Vias) \ {<<>>} /\ m.from \in Nodes /\ p \in Nodes
        /\ m.mf \in Nat /\ out.mf = m.mf - 1 /\ out.from = p
    BY DEF PassedOn, Messages, Nodes
  <2> QED
    BY <2>1, NonEmpty
<1> DEFINE v == out.via
           w == m.via
<1>2. /\ Len(w) \in Nat /\ Len(w) >= 1 /\ Len(v) = Len(w) + 1
      /\ v[1] = Via(p, made[p] + 1) /\ v[2] = Marked(w[1], m.from)
      /\ \A j \in 2..Len(w) : v[j + 1] = w[j]
  BY <1>1, NonEmpty DEF PassedOn
<1>3. /\ v[1].sentBy = SentBy(p) /\ By(v[1]) = p
      /\ v[1].branch = Branch(p, made[p] + 1) /\ v[1].received = Nowhere
  <2>1. p \in Nodes /\ made[p] + 1 \in Nat /\ v[1] = Via(p, made[p] + 1)
    BY <1>1, <1>2
  <2> QED
    BY <2>1, ViaFacts
<1>4. /\ v[2].branch = w[1].branch /\ v[2].sentBy = w[1].sentBy /\ By(v[2]) = By(w[1])
      /\ Resolved(v[2]) = By(v[2])
  <2>1. By(w[1]) = m.from /\ w[1].received = Nowhere
    BY DEF FromTop
  <2>2. m.from # Nowhere
    BY <1>1, NodesAssumption
  <2> QED
    BY <1>1, <1>2, <2>1, <2>2 DEF Marked, Resolved, By, Vias
<1> HIDE DEF v, w
<1>5. ASSUME NEW j \in 1..Len(w)
      PROVE  v[j + 1].branch = w[j].branch /\ By(v[j + 1]) = By(w[j]) /\ v[j + 1].sentBy = w[j].sentBy
  <2>1. CASE j = 1
    BY <1>4, <2>1
  <2>2. CASE j # 1
    <3>1. j \in 2..Len(w)
      BY <1>2, <2>2
    <3> QED
      BY <1>2, <3>1
  <2> QED
    BY <2>1, <2>2
<1>6. Retraceable(v)
  <2>1. Retraceable(w)
    BY DEF w
  <2>2. ASSUME NEW j \in 1..Len(v) PROVE v[j].sentBy = SentBy(By(v[j])) /\ By(v[j]) \in Proxies \cup {Uac}
    <3>1. CASE j = 1
      BY <1>3, <3>1
    <3>2. CASE j # 1
      <4>1. j - 1 \in 1..Len(w) /\ (j - 1) + 1 = j
        BY <1>2, <3>2
      <4>2. By(v[j]) = By(w[j - 1]) /\ v[j].sentBy = w[j - 1].sentBy
        BY <1>5, <4>1
      <4> QED
        BY <2>1, <4>1, <4>2 DEF Retraceable
    <3> QED
      BY <3>1, <3>2
  <2>3. ASSUME NEW j \in 2..Len(v) PROVE Resolved(v[j]) = By(v[j])
    <3>1. CASE j = 2
      BY <1>4, <3>1
    <3>2. CASE j # 2
      <4>1. j - 1 \in 2..Len(w) /\ (j - 1) + 1 = j
        BY <1>2, <3>2
      <4>2. v[j] = w[j - 1]
        BY <1>2, <4>1
      <4> QED
        BY <2>1, <4>1, <4>2 DEF Retraceable
    <3> QED
      BY <3>1, <3>2
  <2> QED
    BY <2>2, <2>3 DEF Retraceable
<1>7. Spent(out)
  <2>1. PICK f \in Forwards : m.mf + Len(w) = f + 1
    BY DEF Spent, w
  <2>2. f \in Nat
    BY BoundsAssumption
  <2>3. out.mf + Len(v) = f + 1
    <3>1. \A a, b, c \in Nat : a + b = c + 1 => (a - 1) + (b + 1) = c + 1
      OBVIOUS
    <3>2. out.mf + Len(v) = (m.mf - 1) + (Len(w) + 1)
      BY <1>1, <1>2
    <3>3. (m.mf - 1) + (Len(w) + 1) = f + 1
      <4>1. m.mf \in Nat /\ Len(w) \in Nat
        BY <1>1, <1>2
      <4> QED
        BY <2>1, <2>2, <4>1
    <3> QED
      BY <3>2, <3>3
  <2>4. out.mf >= 1
    BY <1>1
  <2> QED
    BY <2>3, <2>4 DEF Spent, v
<1>8. SameTrail(Tail(v), w)
  <2>1. Len(Tail(v)) = Len(w) /\ \A j \in 1..Len(w) : Tail(v)[j] = v[j + 1]
    <3>1. v \in Seq(Vias) \ {<<>>} /\ Len(v) - 1 = Len(w)
      BY <1>1, <1>2 DEF v
    <3> QED
      BY <3>1, NonEmpty
  <2>2. 1 \in 1..Len(w) /\ 1 + 1 = 2
    BY <1>2
  <2>3. Tail(v)[1] = v[2]
    BY <2>1, <2>2
  <2>4. ASSUME NEW j \in 2..Len(w) PROVE Tail(v)[j] = w[j]
    <3>1. j \in 1..Len(w)
      BY <1>2
    <3> QED
      BY <1>2, <2>1, <3>1
  <2> QED
    BY <1>4, <2>1, <2>3, <2>4 DEF SameTrail
<1> QED
  BY <1>3, <1>5, <1>6, <1>7, <1>8 DEF v, w

\* At first no INVITE was sent.
LEMMA InitInvited == Init => InvitedInv
  BY DEF Init, InvitedInv

\* More branches do not change what an INVITE is.
LEMMA SoundStays ==
  ASSUME Types, Types', NEW i \in Messages, Sound(i), \A n \in Nodes : made[n] <= made'[n]
  PROVE  Sound(i)'
<1>1. i.from \in Nodes /\ i.via[1].branch[2] \in Nat
  <2>1. i.via \in Seq(Vias) \ {<<>>} /\ i.from \in Nodes
    BY DEF Messages
  <2>2. i.via[1] \in Vias
    BY <2>1, NonEmpty
  <2> QED
    BY <2>1, <2>2 DEF Vias, Branches
<1>2. made[i.from] \in Nat /\ made'[i.from] \in Nat /\ made[i.from] <= made'[i.from]
  BY <1>1, BoundsAssumption DEF Types
<1>3. i.via[1].branch[2] <= made[i.from]
  BY DEF Sound
<1>4. i.via[1].branch[2] <= made'[i.from]
  BY <1>1, <1>2, <1>3
<1> QED
  BY <1>4 DEF Sound

\* The INVITE of the caller.
LEMMA CallerInvites ==
  ASSUME Types, CallerMade, InvitedInv, Types', NEW f \in Forwards, UacInvite(f)
  PROVE  InvitedInv'
<1> DEFINE out == Request("INVITE", <<Via(Uac, 1)>>, f, <<>>, <<>>, <<>>, Uac, FirstHop)
<1>1. Uac \in Nodes /\ f \in Nat /\ "INVITE" \in Methods /\ <<>> \in Seq(Nodes) /\ FirstHop \in Proxies /\ Uac \notin Proxies
  BY BoundsAssumption, NodesAssumption, RoutesAssumption DEF Nodes, Methods
<1>2. /\ out \in Messages
      /\ out.method = "INVITE" /\ out.code = "request" /\ out.via = <<Via(Uac, 1)>>
      /\ Len(out.via) = 1 /\ out.via[1] = Via(Uac, 1)
      /\ out.mf = f /\ out.route = <<>> /\ out.rr = <<>> /\ out.path = <<>>
      /\ out.from = Uac /\ out.to = FirstHop
  <2> DEFINE empty == <<>>
             o     == Request("INVITE", <<Via(Uac, 1)>>, f, empty, <<>>, empty, Uac, FirstHop)
  <2>1. empty \in Seq(Nodes) /\ 1 \in Nat
    OBVIOUS
  <2> HIDE DEF empty
  <2>2. /\ o \in Messages
        /\ o.method = "INVITE" /\ o.code = "request" /\ o.via = <<Via(Uac, 1)>>
        /\ Len(o.via) = 1 /\ o.via[1] = Via(Uac, 1)
        /\ o.mf = f /\ o.route = empty /\ o.rr = <<>> /\ o.path = empty
        /\ o.from = Uac /\ o.to = FirstHop
    BY <1>1, <2>1, RequestFacts
  <2> QED
    BY <2>2 DEF empty
<1>3. invited' = {out} /\ made'[Uac] = 1 /\ uac' = "calling"
  BY <1>1 DEF UacInvite, InvitedInv, Types
<1> HIDE DEF out
<1>4. /\ By(out.via[1]) = Uac /\ out.via[1].branch = Branch(Uac, 1)
      /\ out.via[1].received = Nowhere /\ out.via[1].sentBy = SentBy(Uac)
  BY <1>1, <1>2, ViaFacts
<1>5. Branch(Uac, 1)[2] = 1
  BY DEF Branch
<1>6. Retraceable(out.via)
  <2>1. 1..Len(out.via) = {1} /\ 2..Len(out.via) = {}
    BY <1>2
  <2> QED
    BY <1>4, <2>1 DEF Retraceable
<1>7. Spent(out)
  BY <1>1, <1>2 DEF Spent
<1>8. Sound(out)'
  <2>1. Len(out.rr) = Len(out.via) - 1 /\ 1..(Len(out.via) - 1) = {}
    BY <1>2
  <2>2. FromTop(out)
    BY <1>1, <1>2, <1>4 DEF FromTop
  <2>3. out.via[1].branch[2] <= made'[out.from]
    BY <1>2, <1>3, <1>4, <1>5
  <2> QED
    BY <1>1, <1>2, <1>4, <1>6, <1>7, <2>1, <2>2, <2>3 DEF Sound
<1>9. Behind(out)'
  BY <1>2 DEF Behind
<1> QED
  BY <1>2, <1>3, <1>8, <1>9 DEF InvitedInv

\* The INVITE of a proxy.
LEMMA ProxyInvites ==
  ASSUME Types, CallerMade, InvitedInv, MessageInv, Types',
         NEW p \in Proxies, NEW m \in net \cup invited, NEW n \in Routes(p), InviteForward(p, m, n)
  PROVE  /\ InvitedInv'
         /\ LET out == Forwarded(p, m, n, <<>>, <<SentBy(p)>> \o m.rr) IN
            \A i \in invited : i.via[1].branch # out.via[1].branch
<1>0. PICK out : out = Forwarded(p, m, n, <<>>, <<SentBy(p)>> \o m.rr)
  OBVIOUS
<1>1. /\ PassedOn(p, m, out) /\ out.mf > 0 /\ out.route = <<>> /\ out.to = n
      /\ Len(out.rr) = Len(m.rr) + 1 /\ out.rr[1] = p
      /\ \A j \in 1..Len(m.rr) : out.rr[j + 1] = m.rr[j]
      /\ n \in Proxies \cup {Uas} /\ n # p
  BY <1>0, InviteOut
<1>2. invited' = invited \cup {out} /\ made' = [made EXCEPT ![p] = @ + 1] /\ uac' = uac
  BY <1>0 DEF InviteForward, OpenClient, uacVars
<1>3. /\ m \in Messages /\ m \in invited /\ Sound(m) /\ FromTop(m) /\ Spent(m) /\ Retraceable(m.via)
      /\ m.to = p
  BY NewRequest DEF InviteForward, Methods
<1>4. p \in Nodes /\ made[p] \in Nat /\ made'[p] = made[p] + 1 /\ \A k \in Nodes : made[k] <= made'[k]
  <2>1. p \in Nodes /\ made \in [Nodes -> 0..MaxBranch]
    BY DEF Types, Nodes
  <2>2. \A k \in Nodes : made[k] \in Nat
    BY <2>1, BoundsAssumption
  <2>3. \A k \in Nodes : made'[k] = IF k = p THEN made[p] + 1 ELSE made[k]
    BY <1>2, <2>1
  <2> QED
    BY <2>1, <2>2, <2>3
<1>5. /\ Retraceable(out.via) /\ Spent(out)
      /\ By(out.via[1]) = p /\ out.via[1].received = Nowhere
      /\ out.via[1].branch = Branch(p, made[p] + 1)
      /\ \A j \in 1..Len(m.via) : /\ out.via[j + 1].branch = m.via[j].branch
                                  /\ By(out.via[j + 1]) = By(m.via[j])
                                  /\ out.via[j + 1].sentBy = m.via[j].sentBy
      /\ SameTrail(Tail(out.via), m.via)
  BY <1>1, <1>3, <1>4, TrailGrows
<1>6. /\ out \in Messages /\ out.from = p /\ out.method = "INVITE" /\ out.code = "request" /\ out.path = <<>>
      /\ Len(out.via) = Len(m.via) + 1 /\ Len(m.rr) = Len(m.via) - 1
      /\ Len(m.via) \in Nat /\ Len(m.via) >= 1
  <2>1. m.via \in Seq(Vias) \ {<<>>}
    BY <1>3 DEF Messages
  <2>2. m.path = <<>> /\ m.method = "INVITE" /\ Len(m.rr) = Len(m.via) - 1
    BY <1>3 DEF Sound
  <2> QED
    BY <1>1, <2>1, <2>2, NonEmpty DEF PassedOn
<1>7. \A i \in invited : i.via[1].branch # out.via[1].branch
  <2> SUFFICES ASSUME NEW i \in invited, i.via[1].branch = Branch(p, made[p] + 1) PROVE FALSE
    BY <1>5
  <2>1. By(i.via[1]) = i.from /\ i.via[1].branch[2] <= made[i.from]
    BY DEF InvitedInv, Sound, FromTop
  <2>2. i.from = p /\ i.via[1].branch[2] = made[p] + 1
    BY <2>1 DEF By, Branch
  <2> QED
    BY <1>4, <2>1, <2>2
<1>8. Sound(out)'
  <2>1. FromTop(out)
    BY <1>1, <1>5, <1>6 DEF FromTop
  <2>2. out.via[1].branch[2] <= made'[out.from]
    BY <1>4, <1>5, <1>6 DEF Branch
  <2>3. ASSUME NEW j \in 1..(Len(out.via) - 1)
        PROVE  /\ By(out.via[j]) \in Proxies /\ By(out.via[j]) = out.rr[j]
               /\ By(out.via[j]) # By(out.via[j + 1])
    <3>1. j \in 1..Len(m.via)
      BY <1>6
    <3>2. By(out.via[j + 1]) = By(m.via[j])
      BY <1>5, <3>1
    <3>3. CASE j = 1
      <4>1. By(m.via[1]) = m.from /\ m.from # p
        BY <1>3 DEF FromTop
      <4> QED
        BY <1>1, <1>5, <3>2, <3>3, <4>1
    <3>4. CASE j # 1
      <4>1. j - 1 \in 1..(Len(m.via) - 1) /\ j - 1 \in 1..Len(m.via) /\ j - 1 \in 1..Len(m.rr) /\ (j - 1) + 1 = j
        BY <1>6, <3>1, <3>4
      <4>2. By(out.via[j]) = By(m.via[j - 1]) /\ out.rr[j] = m.rr[j - 1]
        BY <1>1, <1>5, <4>1
      <4>3. /\ By(m.via[j - 1]) \in Proxies /\ By(m.via[j - 1]) = m.rr[j - 1]
            /\ By(m.via[j - 1]) # By(m.via[(j - 1) + 1])
        BY <1>3, <4>1 DEF Sound
      <4> QED
        BY <3>2, <4>1, <4>2, <4>3
    <3> QED
      BY <3>3, <3>4
  <2>4. out.via[Len(out.via)].branch = Branch(Uac, 1)
    <3>1. Len(m.via) \in 1..Len(m.via)
      BY <1>6
    <3>2. out.via[Len(m.via) + 1].branch = m.via[Len(m.via)].branch
      BY <1>5, <3>1
    <3> QED
      BY <1>3, <1>6, <3>2 DEF Sound
  <2>5. Len(out.via) # 1 /\ By(out.via[Len(out.via) - 1]) = FirstHop
    <3>1. Len(out.via) - 1 = Len(m.via) /\ Len(out.via) # 1
      BY <1>6
    <3>2. CASE Len(m.via) = 1
      BY <1>3, <1>5, <3>1, <3>2 DEF Sound
    <3>3. CASE Len(m.via) # 1
      <4>1. Len(m.via) - 1 \in 1..Len(m.via) /\ (Len(m.via) - 1) + 1 = Len(m.via)
        <5>1. \A k \in Nat : k >= 1 /\ k # 1 => k - 1 \in 1..k /\ (k - 1) + 1 = k
          OBVIOUS
        <5> QED
          BY <1>6, <3>3, <5>1, Zenon
      <4>2. By(out.via[Len(m.via)]) = By(m.via[Len(m.via) - 1])
        BY <1>5, <4>1
      <4> QED
        BY <1>3, <3>1, <3>3, <4>2 DEF Sound
    <3> QED
      BY <3>2, <3>3
  <2>6. Len(out.rr) = Len(out.via) - 1
    BY <1>1, <1>6
  <2> QED
    BY <1>1, <1>5, <1>6, <2>1, <2>2, <2>3, <2>4, <2>5, <2>6 DEF Sound
<1>9. Behind(out)'
  BY <1>2, <1>3, <1>5, <1>6 DEF Behind
<1>10. ASSUME NEW i \in invited PROVE Sound(i)' /\ Behind(i)'
  <2>1. Sound(i) /\ Behind(i) /\ i \in Messages
    BY DEF InvitedInv, Types
  <2> QED
    BY <1>2, <1>4, <2>1, SoundStays DEF Behind
<1>11. \A i \in invited' : Sound(i)' /\ Behind(i)'
  BY <1>2, <1>8, <1>9, <1>10
<1>12. \A i, h \in invited' : i.via[1].branch = h.via[1].branch => i = h
  BY <1>2, <1>7 DEF InvitedInv
<1>13. uac' # "idle" /\ \E i \in invited' : i.from = Uac
  BY <1>2, <1>3 DEF InvitedInv
<1>14. InvitedInv'
  BY <1>11, <1>12, <1>13 DEF InvitedInv
<1> QED
  BY <1>0, <1>7, <1>14

\* No other step sends an INVITE of its own.
LEMMA InvitesElse ==
  ASSUME [Next]_vars
  PROVE  \/ \E f \in Forwards : UacInvite(f)
         \/ \E p \in Proxies, m \in net \cup invited : \E n \in Routes(p) : InviteForward(p, m, n)
         \/ invited' = invited /\ (uac' = "idle" <=> uac = "idle")
<1> DEFINE U == invited' = invited /\ (uac' = "idle" <=> uac = "idle")
<1>1. ASSUME NEW p, NEW m,
             \/ InviteRefuse(p, m) \/ ByeForward(p, m) \/ ByeRefuse(p, m) \/ AckForward(p, m)
             \/ CancelHandler(p, m) \/ Absorb(p, m) \/ ResponseHandler(p, m)
      PROVE  U
  BY <1>1 DEF InviteRefuse, ByeForward, ByeRefuse, AckForward, CancelHandler, Absorb, ResponseHandler, uacVars
<1>2. ASSUME NEW p, CallRemove(p) PROVE U
  BY <1>2 DEF CallRemove, uacVars
<1>3. ASSUME NEW f, UacBye(f) PROVE U
  BY <1>3 DEF UacBye
<1>4. ASSUME UacCancel PROVE U
  BY <1>4 DEF UacCancel
<1>5. ASSUME NEW m, NEW f, UacAnswer(m, f) PROVE U
  BY <1>5 DEF UacAnswer
<1>6. ASSUME NEW m, UacByeAnswer(m) PROVE U
  BY <1>6 DEF UacByeAnswer
<1>7. ASSUME NEW m, NEW c, UasAnswer(m, c) PROVE U
  BY <1>7 DEF UasAnswer, uacVars
<1>8. ASSUME UNCHANGED vars PROVE U
  BY <1>8 DEF vars
<1> HIDE DEF U
<1>9. \/ \E f \in Forwards : UacInvite(f)
      \/ \E p \in Proxies, m \in net \cup invited : \E n \in Routes(p) : InviteForward(p, m, n)
      \/ U
  BY <1>1, <1>2, <1>3, <1>4, <1>5, <1>6, <1>7, <1>8 DEF Next, ProxyStep
<1> QED
  BY <1>9 DEF U

\* Every INVITE that is sent was made from one that was sent before.
LEMMA InvitedStep ==
  ASSUME Types, CallerMade, InvitedInv, MessageInv, Types', [Next]_vars
  PROVE  InvitedInv'
<1>1. ASSUME invited' = invited /\ (uac' = "idle" <=> uac = "idle") PROVE InvitedInv'
  <2>1. ASSUME NEW i \in invited PROVE Sound(i)' /\ Behind(i)'
    <3>1. Sound(i) /\ Behind(i) /\ i \in Messages
      BY DEF InvitedInv, Types
    <3> QED
      BY <1>1, <3>1, SoundStays, Grows DEF Behind
  <2> QED
    BY <1>1, <2>1 DEF InvitedInv
<1> QED
  BY <1>1, InvitesElse, CallerInvites, ProxyInvites

--------------------------------------------------------------------------------
(***************************************************************************)
(* The transactions.                                                       *)
(***************************************************************************)
LEMMA InitTransactions == Init => TransactionInv
  BY DEF Init, TransactionInv

\* A proxy's own entries: the others are left alone.
LEMMA TransactionsElse ==
  ASSUME Types, Types', TransactionInv, NEW p \in Proxies, invited \subseteq invited',
         \A q \in Proxies \ {p} : cts'[q] = cts[q] /\ ctx'[q] = ctx[q] /\ sts'[q] = sts[q],
         \A c \in cts'[p] \ cts[p] : ClientOK(p, c)',
         \A x \in ctx'[p] \ ctx[p] : ContextOK(p, x)',
         \A x \in ctx'[p] \cap ctx[p] : x.st \in sts'[p],
         \A x, y \in ctx'[p] : x.st = y.st => x = y
  PROVE  TransactionInv'
<1> SUFFICES ASSUME NEW q \in Proxies
             PROVE  /\ \A c \in cts'[q] : ClientOK(q, c)'
                    /\ \A x \in ctx'[q] : ContextOK(q, x)'
                    /\ \A x, y \in ctx'[q] : x.st = y.st => x = y
  BY DEF TransactionInv
<1>1. \A c \in cts[q] : ClientOK(q, c)'
  BY DEF TransactionInv, ClientOK
<1>2. ASSUME NEW x \in ctx[q], x.st \in sts'[q] PROVE ContextOK(q, x)'
  <2>1. ContextOK(q, x)
    BY DEF TransactionInv
  <2> QED
    BY <1>2, <2>1 DEF ContextOK
<1>3. CASE q = p
  BY <1>1, <1>2, <1>3
<1>4. CASE q # p
  <2>1. cts'[q] = cts[q] /\ ctx'[q] = ctx[q] /\ sts'[q] = sts[q]
    BY <1>4
  <2>2. \A x \in ctx[q] : x.st \in sts'[q]
    BY <2>1 DEF TransactionInv, ContextOK
  <2> QED
    BY <1>1, <1>2, <2>1, <2>2 DEF TransactionInv
<1> QED
  BY <1>3, <1>4

\* Only the table of server transactions grows.
LEMMA TransactionsMore ==
  ASSUME Types, Types', TransactionInv, NEW p \in Proxies, invited \subseteq invited', UNCHANGED ctx,
         NEW k, sts' = [sts EXCEPT ![p] = @ \cup {k}] \/ UNCHANGED sts,
         \/ UNCHANGED cts
         \/ \E N : /\ cts' = [cts EXCEPT ![p] = @ \cup N]
                   /\ \A c \in N : ClientOK(p, c)'
  PROVE  TransactionInv'
<1>1. \A q \in Proxies \ {p} : cts'[q] = cts[q] /\ ctx'[q] = ctx[q] /\ sts'[q] = sts[q]
  BY DEF Types
<1>2. \A c \in cts'[p] \ cts[p] : ClientOK(p, c)'
  BY DEF Types
<1>3. \A x \in ctx'[p] \cap ctx[p] : x.st \in sts'[p]
  <2>1. \A x \in ctx[p] : x.st \in sts[p]
    BY DEF TransactionInv, ContextOK
  <2>2. sts[p] \subseteq sts'[p]
    BY DEF Types
  <2> QED
    BY <2>1, <2>2
<1>4. \A x, y \in ctx'[p] : x.st = y.st => x = y
  BY DEF TransactionInv
<1> QED
  BY <1>1, <1>2, <1>3, <1>4, TransactionsElse

\* A server and a client transaction are bound to each other.
LEMMA TransactionsPair ==
  ASSUME Types, Types', TransactionInv, NEW p \in Proxies, invited \subseteq invited',
         NEW k, NEW ck, NEW out, k \notin sts[p],
         sts' = [sts EXCEPT ![p] = @ \cup {k}],
         cts' = [cts EXCEPT ![p] = @ \cup {[key |-> ck, req |-> out]}],
         ctx' = [ctx EXCEPT ![p] = @ \cup {[ct |-> ck, st |-> k]}],
         ClientOK(p, [key |-> ck, req |-> out])', ContextOK(p, [ct |-> ck, st |-> k])'
  PROVE  TransactionInv'
<1>1. \A q \in Proxies \ {p} : cts'[q] = cts[q] /\ ctx'[q] = ctx[q] /\ sts'[q] = sts[q]
  BY DEF Types
<1>2. \A c \in cts'[p] \ cts[p] : ClientOK(p, c)'
  BY DEF Types
<1>3. ctx'[p] = ctx[p] \cup {[ct |-> ck, st |-> k]} /\ sts'[p] = sts[p] \cup {k}
  BY DEF Types
<1>4. \A x \in ctx'[p] \ ctx[p] : ContextOK(p, x)'
  BY <1>3
<1>5. \A x \in ctx[p] : x.st \in sts[p]
  BY DEF TransactionInv, ContextOK
<1>6. \A x \in ctx'[p] \cap ctx[p] : x.st \in sts'[p]
  BY <1>3, <1>5
<1>7. ASSUME NEW x \in ctx'[p], NEW y \in ctx'[p], x.st = y.st PROVE x = y
  <2>1. \A z \in ctx[p] : z.st # k
    BY <1>5
  <2>2. CASE x \in ctx[p] /\ y \in ctx[p]
    BY <1>7, <2>2 DEF TransactionInv
  <2>3. CASE x \notin ctx[p] \/ y \notin ctx[p]
    BY <1>3, <1>7, <2>1, <2>3
  <2> QED
    BY <2>2, <2>3
<1> QED
  BY <1>1, <1>2, <1>4, <1>6, <1>7, TransactionsElse

\* The transactions and contexts of a proxy keep to the INVITEs that were sent.
LEMMA TransactionStep ==
  ASSUME Types, CallerMade, InvitedInv, MessageInv, TransactionInv, Types', [Next]_vars
  PROVE  TransactionInv'
<1>0. invited \subseteq invited'
  BY Grows
<1> DEFINE G == TransactionInv'
<1> HIDE DEF G
<1>1. ASSUME NEW p \in Proxies, NEW m \in net \cup invited, NEW n \in Routes(p), InviteForward(p, m, n) PROVE G
  <2>1. PICK out : out = Forwarded(p, m, n, <<>>, <<SentBy(p)>> \o m.rr)
    OBVIOUS
  <2>2. PassedOn(p, m, out) /\ out.mf > 0
    BY <1>1, <2>1, InviteOut
  <2>3. m \in Messages /\ m.method = "INVITE" /\ FromTop(m) /\ Spent(m) /\ Retraceable(m.via)
    BY <1>1, NewRequest DEF InviteForward, Methods
  <2>4. made[p] \in Nat
    BY BoundsAssumption DEF Types, Nodes
  <2>5. /\ out \in Messages /\ out.method = "INVITE" /\ out.from = p /\ Len(out.via) = Len(m.via) + 1
        /\ Len(m.via) \in Nat /\ Len(m.via) >= 1
    BY <2>2, <2>3, NonEmpty DEF PassedOn, Messages
  <2>6. out.via[2].branch = m.via[1].branch /\ out.via[2].sentBy = m.via[1].sentBy
    <3>1. \A j \in 1..Len(m.via) : out.via[j + 1].branch = m.via[j].branch /\ out.via[j + 1].sentBy = m.via[j].sentBy
      BY <2>2, <2>3, <2>4, TrailGrows
    <3>2. 1 \in 1..Len(m.via) /\ 1 + 1 = 2
      BY <2>5
    <3> QED
      BY <3>1, <3>2
  <2>7. PICK k, ck : k = ServerKey(m) /\ ck = ClientKey(out)
    OBVIOUS
  <2>8. /\ sts' = [sts EXCEPT ![p] = @ \cup {k}] /\ k \notin sts[p]
        /\ cts' = [cts EXCEPT ![p] = @ \cup {[key |-> ck, req |-> out]}]
        /\ ctx' = [ctx EXCEPT ![p] = @ \cup {[ct |-> ck, st |-> k]}]
        /\ out \in invited'
    BY <1>1, <2>1, <2>7 DEF InviteForward, OpenServer, OpenClient, IsNew
  <2>9. /\ ck.branch = out.via[1].branch /\ ck.method = "INVITE" /\ ck = ClientKey(out)
        /\ k.branch = m.via[1].branch /\ k.sentBy = m.via[1].sentBy /\ k.method = "INVITE"
    BY <2>3, <2>5, <2>7, KeyFacts
  <2>10. ClientKey(out)' = ClientKey(out)
    BY DEF ClientKey, TopVia, TopMost, ParseVias
  <2>11. ClientOK(p, [key |-> ck, req |-> out])'
    BY <2>5, <2>8, <2>9, <2>10 DEF ClientOK
  <2>12. ContextOK(p, [ct |-> ck, st |-> k])'
    <3>1. k \in sts'[p]
      BY <2>8 DEF Types
    <3>2. out.from = p /\ Len(out.via) > 1
      BY <2>5
    <3> QED
      BY <2>6, <2>8, <2>9, <3>1, <3>2 DEF ContextOK
  <2> QED
    BY <1>0, <2>8, <2>11, <2>12, TransactionsPair DEF G
<1>2. ASSUME NEW p \in Proxies, NEW m \in net \cup invited, InviteRefuse(p, m) \/ ByeRefuse(p, m) PROVE G
  <2>1. sts' = [sts EXCEPT ![p] = @ \cup {ServerKey(m)}] /\ UNCHANGED <<ctx, cts>>
    BY <1>2 DEF InviteRefuse, ByeRefuse, OpenServer
  <2> QED
    BY <1>0, <2>1, TransactionsMore DEF G
<1>3. ASSUME NEW p \in Proxies, NEW m \in net \cup invited, ByeForward(p, m) PROVE G
  <2>1. PICK out : out = Forwarded(p, m, RouteTarget(m.route), RouteOffset(m.route), m.rr)
    OBVIOUS
  <2>2. PassedOn(p, m, out)
    BY <1>3, <2>1, DialogOut DEF ByeForward
  <2>3. m \in Messages /\ m.method = "BYE"
    BY <1>3, NewRequest DEF ByeForward, Methods
  <2>4. out \in Messages /\ out.method = "BYE"
    BY <2>2, <2>3 DEF PassedOn
  <2>5. PICK k, ck : k = ServerKey(m) /\ ck = ClientKey(out)
    OBVIOUS
  <2>6. /\ sts' = [sts EXCEPT ![p] = @ \cup {k}] /\ k \notin sts[p]
        /\ cts' = [cts EXCEPT ![p] = @ \cup {[key |-> ck, req |-> out]}]
        /\ ctx' = [ctx EXCEPT ![p] = @ \cup {[ct |-> ck, st |-> k]}]
    BY <1>3, <2>1, <2>5 DEF ByeForward, OpenServer, OpenClient, IsNew
  <2>7. ck.method = "BYE" /\ k.method = "BYE"
    BY <2>3, <2>4, <2>5, KeyFacts
  <2>8. ClientOK(p, [key |-> ck, req |-> out])'
    BY <2>4, <2>7 DEF ClientOK
  <2>9. ContextOK(p, [ct |-> ck, st |-> k])'
    <3>1. k \in sts'[p]
      BY <2>6 DEF Types
    <3> QED
      BY <2>7, <3>1 DEF ContextOK
  <2> QED
    BY <1>0, <2>6, <2>8, <2>9, TransactionsPair DEF G
<1>4. ASSUME NEW p \in Proxies, NEW m \in net \cup invited, CancelHandler(p, m) PROVE G
  <2> DEFINE key  == [ServerKey(m) EXCEPT !.method = "INVITE"]
             keys == {x.ct : x \in {y \in ctx[p] : y.st = key}}
             out  == {Derived(c.req, "CANCEL") : c \in {d \in cts[p] : d.key \in keys}}
  <2> HIDE DEF keys
  <2>0. PICK sent \in SUBSET out :
          /\ sts' = [sts EXCEPT ![p] = @ \cup {ServerKey(m)}] /\ UNCHANGED ctx
          /\ \/ UNCHANGED cts
             \/ cts' = [cts EXCEPT ![p] = @ \cup {[key |-> ClientKey(o), req |-> o] : o \in sent}]
    BY <1>4 DEF CancelHandler, OpenServer, keys
  <2>1. PICK N : N = {[key |-> ClientKey(o), req |-> o] : o \in sent}
    OBVIOUS
  <2>2. /\ sts' = [sts EXCEPT ![p] = @ \cup {ServerKey(m)}] /\ UNCHANGED ctx
        /\ UNCHANGED cts \/ cts' = [cts EXCEPT ![p] = @ \cup N]
    BY <2>0, <2>1
  <2>3. ASSUME NEW c \in N PROVE ClientOK(p, c)'
    <3>1. PICK d \in cts[p] : c = [key |-> ClientKey(Derived(d.req, "CANCEL")), req |-> Derived(d.req, "CANCEL")]
      BY <2>1
    <3>2. d.req \in Messages /\ "CANCEL" \in Methods
      BY DEF Types, Methods
    <3>3. Derived(d.req, "CANCEL") \in Messages /\ Derived(d.req, "CANCEL").method = "CANCEL"
      BY <3>2, DerivedFacts
    <3>4. c.req.method = "CANCEL" /\ c.key.method = "CANCEL"
      BY <3>1, <3>3, KeyFacts
    <3> QED
      BY <3>4 DEF ClientOK
  <2> HIDE DEF out
  <2> QED
    BY <1>0, <2>2, <2>3, TransactionsMore DEF G
<1>5. ASSUME NEW p \in Proxies, NEW m \in net \cup invited, ResponseHandler(p, m) PROVE G
  <2> DEFINE key   == ClientKey(m)
             tx    == {c \in cts[p] : c.key = key}
             bound == {x.st : x \in {y \in ctx[p] : y.ct = key}} \cap sts[p]
             open  == HasCall(p) /\ bound # {}
             gone  == {s \in bound : open /\ s.method = "INVITE" /\ m.code = "ok"}
  <2>1. /\ cts' = [cts EXCEPT ![p] = IF key.method = "INVITE" /\ m.code = "ok" THEN @ \ tx ELSE @]
        /\ ctx' = [ctx EXCEPT ![p] = {x \in @ : ~(open /\ IsFinal(m.code) /\ x.ct = key)}]
        /\ sts' = [sts EXCEPT ![p] = @ \ gone]
    BY <1>5 DEF ResponseHandler
  <2>2. \A s \in gone : open /\ m.code = "ok" /\ \E y \in ctx[p] : y.ct = key /\ y.st = s
    OBVIOUS
  <2> HIDE DEF key, tx, bound, open, gone
  <2>3. \A q \in Proxies \ {p} : cts'[q] = cts[q] /\ ctx'[q] = ctx[q] /\ sts'[q] = sts[q]
    BY <2>1 DEF Types
  <2>4. /\ cts'[p] \subseteq cts[p] /\ ctx'[p] = {x \in ctx[p] : ~(open /\ IsFinal(m.code) /\ x.ct = key)}
        /\ sts'[p] = sts[p] \ gone
    BY <2>1 DEF Types
  <2>5. ASSUME NEW x \in ctx'[p] \cap ctx[p] PROVE x.st \in sts'[p]
    <3>1. x.st \in sts[p]
      BY DEF TransactionInv, ContextOK
    <3>2. ASSUME x.st \in gone PROVE FALSE
      <4>1. open /\ m.code = "ok" /\ \E y \in ctx[p] : y.ct = key /\ y.st = x.st
        BY <2>2, <3>2
      <4>2. x.ct = key
        BY <4>1 DEF TransactionInv
      <4>3. IsFinal(m.code)
        BY <4>1 DEF IsFinal
      <4> QED
        BY <2>4, <4>1, <4>2, <4>3
    <3> QED
      BY <2>4, <3>1, <3>2
  <2>6. \A x, y \in ctx'[p] : x.st = y.st => x = y
    BY <2>4 DEF TransactionInv
  <2>7. ctx'[p] \ ctx[p] = {} /\ cts'[p] \ cts[p] = {}
    BY <2>4
  <2> QED
    BY <1>0, <2>3, <2>5, <2>6, <2>7, TransactionsElse DEF G
<1>6. ASSUME UNCHANGED <<sts, cts, ctx>> PROVE G
  BY <1>0, <1>6 DEF G, TransactionInv, ClientOK, ContextOK
<1>7. ASSUME NEW p \in Proxies, NEW m, AckForward(p, m) \/ Absorb(p, m) PROVE G
  BY <1>6, <1>7 DEF AckForward, Absorb
<1>8. ASSUME NEW p \in Proxies, CallRemove(p) PROVE G
  BY <1>6, <1>8 DEF CallRemove
<1>9. ASSUME UNCHANGED proxyVars PROVE G
  BY <1>6, <1>9 DEF proxyVars
<1>10. G
  BY <1>1, <1>2, <1>3, <1>4, <1>5, <1>7, <1>8, <1>9, EndpointFrame DEF ProxyStep
<1> QED
  BY <1>10 DEF G

--------------------------------------------------------------------------------
(***************************************************************************)
(* The messages.                                                           *)
(***************************************************************************)
LEMMA InitMessages == Init => MessageInv /\ DialogInv
  BY DEF Init, MessageInv, DialogInv, InDialog

\* The keys are a matter of the message alone.
LEMMA KeyPrimed == \A m : ServerKey(m)' = ServerKey(m) /\ ClientKey(m)' = ClientKey(m)
  BY DEF ServerKey, ClientKey, TopVia, TopMost, ParseVias

\* What is on its way stays as good as it was.
LEMMA MessageStays ==
  ASSUME Types, CallerMade, [Next]_vars, NEW m \in net, MessageOK(m)
  PROVE  MessageOK(m)'
<1>1. m \in Messages
  BY DEF Types
<1>2. invited \subseteq invited' /\ (InDialog => InDialog' /\ dialog' = dialog)
  BY Grows
<1>3. ASSUME NEW p \in Proxies, Settled(p, ServerKey(m)) PROVE Settled(p, ServerKey(m))'
  <2>1. PICK s : s = ServerKey(m)
    OBVIOUS
  <2>2. Settled(p, s)'
    BY <1>3, <2>1, SettledStays
  <2> QED
    BY <2>1, <2>2, KeyPrimed
<1>4. InviteOK(m) => InviteOK(m)'
  BY <1>2, <1>3 DEF InviteOK, Answers, SameTrail, GoodPath, By
<1>5. HopOK(m) => HopOK(m)'
  BY <1>2, <1>3 DEF HopOK
<1>6. PathSuffix(m) => PathSuffix(m)'
  BY <1>2 DEF PathSuffix
<1>7. OnPath(m) => OnPath(m)'
  BY <1>2, <1>6 DEF OnPath, PathSuffix
<1> QED
  BY <1>1, <1>4, <1>5, <1>6, <1>7 DEF MessageOK

\* It is enough to look at the new messages.
LEMMA MessagesNew ==
  ASSUME Types, CallerMade, MessageInv, [Next]_vars,
         NEW N, net' \subseteq net \cup N, \A o \in N : MessageOK(o)'
  PROVE  MessageInv'
<1> SUFFICES ASSUME NEW m \in net' PROVE MessageOK(m)'
  BY DEF MessageInv
<1>1. CASE m \in N
  BY <1>1
<1>2. CASE m \in net
  BY <1>2, MessageStays DEF MessageInv
<1> QED
  BY <1>1, <1>2

\* The caller sent one INVITE, to its proxy.
LEMMA CallersInvite ==
  ASSUME Types, InvitedInv, NEW i \in invited, i.from = Uac
  PROVE  Len(i.via) = 1 /\ i.via[1] = Via(Uac, 1) /\ i.to = FirstHop
<1>1. i \in Messages /\ Sound(i)
  BY DEF Types, InvitedInv
<1>2. i.via \in Seq(Vias) \ {<<>>} /\ i.via[1] \in Vias /\ Len(i.via) \in Nat /\ Len(i.via) >= 1
  BY <1>1, NonEmpty DEF Messages
<1>3. By(i.via[1]) = Uac /\ i.via[1].received = Nowhere
  BY <1>1 DEF Sound, FromTop
<1>4. Len(i.via) = 1
  <2> SUFFICES ASSUME Len(i.via) # 1 PROVE FALSE
    OBVIOUS
  <2>1. 1 \in 1..(Len(i.via) - 1)
    <3>1. \A k \in Nat : k >= 1 /\ k # 1 => 1 \in 1..(k - 1)
      OBVIOUS
    <3> QED
      BY <1>2, <3>1, Zenon
  <2>2. By(i.via[1]) \in Proxies
    BY <1>1, <2>1 DEF Sound
  <2> QED
    BY <1>3, <2>2, NodesAssumption
<1>5. 1 \in 1..Len(i.via)
  BY <1>4
<1>6. i.via[1].sentBy = SentBy(Uac) /\ i.via[1].branch = Branch(Uac, 1) /\ i.to = FirstHop
  BY <1>1, <1>3, <1>4, <1>5 DEF Sound, Retraceable
<1>7. i.via[1] = [sentBy |-> i.via[1].sentBy, branch |-> i.via[1].branch, received |-> i.via[1].received]
  BY <1>2 DEF Vias
<1> QED
  BY <1>3, <1>4, <1>6, <1>7 DEF Via

\* The refusal of an INVITE: its server transaction has no client transaction.
LEMMA RefusalOK ==
  ASSUME Types, Types', InvitedInv, MessageInv, TransactionInv, invited \subseteq invited',
         NEW p \in Proxies, NEW m \in net \cup invited,
         NEW code \in {"481", "483", "fail"}, IsNew(p, m, "INVITE"), OpenServer(p, m), UNCHANGED ctx
  PROVE  MessageOK(Response(m, code, <<>>, p))'
<1>1. m \in Messages /\ m \in invited /\ Sound(m) /\ m.to = p /\ m.method = "INVITE" /\ ServerKey(m) \notin sts[p]
  BY NewRequest DEF IsNew, Methods
<1>2. PICK o : o = Response(m, code, <<>>, p)
  OBVIOUS
<1>3. /\ o \in Messages /\ o.method = "INVITE" /\ o.code = code /\ o.via = m.via /\ o.from = p /\ o.to = m.from
  <2>1. code \in Codes /\ p \in Nodes
    BY DEF Codes, Nodes
  <2> QED
    BY <1>1, <1>2, <2>1, ReplyFacts
<1>4. PICK s : s = ServerKey(m)
  OBVIOUS
<1>5. ServerKey(o) = s
  BY <1>1, <1>3, <1>4, KeyFacts
<1>6. Settled(p, s)'
  <2>1. s \in sts'[p]
    BY <1>4 DEF OpenServer, Types
  <2>2. \A x \in ctx[p] : x.st # s
    BY <1>1, <1>4 DEF TransactionInv, ContextOK
  <2> QED
    BY <2>1, <2>2 DEF Settled
<1>7. Answers(o, m) /\ o.to = By(o.via[1])
  BY <1>1, <1>3 DEF Answers, SameTrail, Sound, FromTop
<1>8. InviteOK(o)'
  <2>1. o.code # "ok" /\ o.code # "request"
    BY <1>3
  <2>2. (\E i \in invited : Answers(o, i))'
    BY <1>1, <1>7 DEF Answers, SameTrail
  <2>3. Settled(p, ServerKey(o))'
    BY <1>5, <1>6, KeyPrimed
  <2> QED
    BY <1>3, <1>7, <2>1, <2>2, <2>3 DEF InviteOK, By
<1>9. MessageOK(o)'
  BY <1>3, <1>8 DEF MessageOK
<1> QED
  BY <1>2, <1>9 DEF Response

\* The refusal of a BYE.
LEMMA ByeRefusalOK ==
  ASSUME Types, InvitedInv, MessageInv, InDialog => InDialog' /\ dialog' = dialog,
         NEW p \in Proxies, NEW m \in net \cup invited,
         NEW code \in {"481", "483", "fail"}, IsNew(p, m, "BYE")
  PROVE  MessageOK(Response(m, code, <<>>, p))'
<1>1. m \in Messages /\ OnPath(m) /\ m.method = "BYE"
  BY NewRequest DEF Methods
<1>2. PICK o : o = Response(m, code, <<>>, p)
  OBVIOUS
<1>3. /\ o \in Messages /\ o.method = "BYE" /\ o.code = code /\ o.via = m.via /\ o.to = m.from
  <2>1. code \in Codes /\ p \in Nodes
    BY DEF Codes, Nodes
  <2> QED
    BY <1>1, <1>2, <2>1, ReplyFacts
<1>4. PathSuffix(o)'
  BY <1>1, <1>3 DEF OnPath, PathSuffix
<1>5. o.to = By(o.via[1])
  BY <1>1, <1>3 DEF OnPath, FromTop
<1>6. MessageOK(o)'
  BY <1>3, <1>4, <1>5 DEF MessageOK, By
<1> QED
  BY <1>2, <1>6 DEF Response

\* A request of the dialog goes on along the path.
LEMMA DialogGoesOn ==
  ASSUME Types, InvitedInv, MessageInv, DialogInv, NEW p \in Proxies, NEW m \in Messages,
         OnPath(m), m.to = p, NEW out, PassedOn(p, m, out), out.mf > 0,
         out.route = RouteOffset(m.route), out.to = RouteTarget(m.route)
  PROVE  OnPath(out)
<1> DEFINE path == dialog.path
           left == Len(path) - Len(m.via)
<1>1. /\ m.via \in Seq(Vias) \ {<<>>} /\ Len(m.via) \in Nat /\ Len(m.via) >= 1 /\ m.route \in Seq(Nodes)
      /\ path \in Seq(Nodes) /\ Len(path) \in Nat /\ made[p] \in Nat
  BY NonEmpty, BoundsAssumption DEF Messages, Types, Nodes
<1>2. /\ InDialog /\ Len(m.via) <= Len(path) /\ FromTop(m) /\ Spent(m) /\ Retraceable(m.via)
      /\ m.path = path /\ Len(m.route) = left
      /\ \A j \in 1..Len(m.via) : By(m.via[j]) = path[left + j]
      /\ \A j \in 1..left : m.route[j] = path[left + 1 - j]
      /\ m.to = IF left = 0 THEN Uas ELSE m.route[1]
  BY DEF OnPath, PathSuffix
<1>3. /\ Retraceable(out.via) /\ Spent(out)
      /\ By(out.via[1]) = p /\ out.via[1].received = Nowhere
      /\ \A j \in 1..Len(m.via) : By(out.via[j + 1]) = By(m.via[j])
  BY <1>1, <1>2, TrailGrows
<1>4. /\ Len(out.via) = Len(m.via) + 1 /\ out.path = path /\ out.from = p
  BY <1>2 DEF PassedOn
<1>5. /\ Len(path) > 1 /\ \A j \in 1..(Len(path) - 1) : path[j] \in Proxies /\ path[j] # path[j + 1]
  BY <1>2 DEF DialogInv
<1> HIDE DEF path
<1>6. left \in Nat /\ left > 0 /\ p = path[left] /\ left < Len(path)
  <2>1. left # 0
    BY <1>2, NodesAssumption
  <2>2. left \in Nat /\ left > 0 /\ left < Len(path)
    BY <1>1, <1>2, <2>1
  <2>3. 1 \in 1..left /\ left + 1 - 1 = left
    BY <2>2
  <2> QED
    BY <1>2, <2>1, <2>2, <2>3
<1>7. Len(path) - Len(out.via) = left - 1
  BY <1>1, <1>4
<1> HIDE DEF left
<1>8. ASSUME NEW j \in 1..Len(out.via) PROVE By(out.via[j]) = path[(left - 1) + j]
  <2>1. CASE j = 1
    <3>1. (left - 1) + 1 = left
      BY <1>6
    <3> QED
      BY <1>3, <1>6, <2>1, <3>1
  <2>2. CASE j # 1
    <3>1. j - 1 \in 1..Len(m.via) /\ (j - 1) + 1 = j /\ left + (j - 1) = (left - 1) + j
      BY <1>1, <1>4, <1>6, <2>2
    <3> QED
      BY <1>2, <1>3, <3>1
  <2> QED
    BY <2>1, <2>2
<1>9. /\ Len(out.route) = left - 1
      /\ \A j \in 1..(left - 1) : out.route[j] = m.route[j + 1]
      /\ out.to = IF left > 1 THEN m.route[2] ELSE Uas
  <2> DEFINE r == m.route
  <2>1. r \in Seq(Nodes) /\ Len(r) = left
    BY <1>1, <1>2
  <2> HIDE DEF r
  <2>2. /\ Len(r) > 0 => Len(RouteOffset(r)) = Len(r) - 1
        /\ Len(r) > 0 => \A j \in 1..(Len(r) - 1) : RouteOffset(r)[j] = r[j + 1]
        /\ RouteTarget(r) = IF Len(r) > 1 THEN r[2] ELSE Uas
    BY <2>1, RouteFacts
  <2> QED
    BY <1>6, <2>1, <2>2 DEF r
<1>10. ASSUME NEW j \in 1..(left - 1) PROVE out.route[j] = path[(left - 1) + 1 - j]
  <2>1. j + 1 \in 1..left /\ left + 1 - (j + 1) = (left - 1) + 1 - j
    BY <1>6
  <2> QED
    BY <1>2, <1>9, <2>1
<1>11. out.to = IF left - 1 = 0 THEN Uas ELSE out.route[1]
  <2>1. CASE left > 1
    <3>1. 1 \in 1..(left - 1) /\ 1 + 1 = 2 /\ left - 1 # 0
      BY <1>6, <2>1
    <3> QED
      BY <1>9, <2>1, <3>1
  <2>2. CASE ~(left > 1)
    <3>1. left - 1 = 0
      BY <1>6, <2>2
    <3> QED
      BY <1>9, <2>2, <3>1
  <2> QED
    BY <2>1, <2>2
<1>12. out.from # out.to
  <2>1. CASE left - 1 = 0
    BY <1>4, <1>11, <2>1, NodesAssumption
  <2>2. CASE left - 1 # 0
    <3>1. 1 \in 1..(left - 1) /\ (left - 1) + 1 - 1 = left - 1
      BY <1>6, <2>2
    <3>2. out.to = path[left - 1]
      BY <1>10, <1>11, <2>2, <3>1
    <3>3. left - 1 \in 1..(Len(path) - 1) /\ (left - 1) + 1 = left
      BY <1>1, <1>6, <2>2
    <3> QED
      BY <1>4, <1>5, <1>6, <3>2, <3>3
  <2> QED
    BY <2>1, <2>2
<1>13. FromTop(out)
  BY <1>3, <1>4, <1>12 DEF FromTop
<1>14. Len(out.via) <= Len(path)
  BY <1>1, <1>4, <1>6 DEF left
<1>15. PathSuffix(out)
  BY <1>2, <1>3, <1>7, <1>8, <1>14 DEF PathSuffix, path
<1> QED
  BY <1>3, <1>4, <1>7, <1>9, <1>10, <1>11, <1>13, <1>15 DEF OnPath, path

\* The CANCEL, or ACK of a failure, that p derives from an INVITE it sent.
LEMMA DerivedOK ==
  ASSUME Types, InvitedInv, TransactionInv, invited \subseteq invited',
         NEW p \in Proxies, NEW c \in cts[p], c.key.method = "INVITE",
         NEW method \in {"ACK", "CANCEL"},
         method = "ACK" /\ c.req.to \in Proxies =>
            Settled(c.req.to, [branch |-> c.req.via[1].branch, sentBy |-> c.req.via[1].sentBy, method |-> "INVITE"])'
  PROVE  MessageOK(Derived(c.req, method))'
<1>1. c.req \in Messages /\ c.req \in invited /\ c.req.code = "request" /\ c.req.path = <<>>
  <2>1. c.req \in Messages
    BY DEF Types
  <2>2. ClientOK(p, c)
    BY DEF TransactionInv
  <2>3. c.req \in invited
    BY <2>2 DEF ClientOK
  <2>4. Sound(c.req)
    BY <2>3 DEF InvitedInv
  <2> QED
    BY <2>1, <2>3, <2>4 DEF Sound
<1>2. PICK o : o = Derived(c.req, method)
  OBVIOUS
<1>3. /\ o \in Messages
      /\ o.method = method /\ o.code = "request" /\ o.path = <<>> /\ o.from = c.req.from /\ o.to = c.req.to
      /\ Len(o.via) = 1 /\ o.via[1] = c.req.via[1]
  <2>1. method \in Methods
    BY DEF Methods
  <2> QED
    BY <1>1, <1>2, <2>1, DerivedFacts
<1>4. method = "ACK" /\ o.to \in Proxies => Settled(o.to, ServerKey(o))'
  <2>1. method = "ACK" => ServerKey(o) = [branch |-> c.req.via[1].branch, sentBy |-> c.req.via[1].sentBy, method |-> "INVITE"]
    BY <1>3, KeyFacts
  <2> QED
    BY <1>3, <2>1, KeyPrimed
<1>5. (\E i \in invited : i.to = o.to /\ i.from = o.from /\ i.via[1] = o.via[1])'
  BY <1>1, <1>3
<1>6. HopOK(o)'
  BY <1>3, <1>4, <1>5 DEF HopOK
<1>7. MessageOK(o)'
  BY <1>3, <1>6 DEF MessageOK
<1> QED
  BY <1>2, <1>7 DEF Derived, WriteHeader, SingleVia, ParseVias, Insert, TopMost

\* The CANCELs that cancelHandler derives, and its 200.
LEMMA CancelOK ==
  ASSUME Types, CallerMade, InvitedInv, MessageInv, TransactionInv, [Next]_vars,
         NEW p \in Proxies, NEW m \in net \cup invited, CancelHandler(p, m)
  PROVE  MessageInv'
<1> DEFINE key  == [ServerKey(m) EXCEPT !.method = "INVITE"]
           keys == {x.ct : x \in {y \in ctx[p] : y.st = key}}
           out  == {Derived(c.req, "CANCEL") : c \in {d \in cts[p] : d.key \in keys}}
<1>1. invited \subseteq invited'
  BY Grows
<1>2. /\ m \in Messages /\ HopOK(m) /\ m.method = "CANCEL"
  BY NewRequest DEF CancelHandler, Methods
<1>3. ASSUME NEW code \in {"ok", "481"} PROVE MessageOK(Response(m, code, <<>>, p))'
  <2>1. PICK o : o = Response(m, code, <<>>, p)
    OBVIOUS
  <2>2. o \in Messages /\ o.method = "CANCEL" /\ o.code = code /\ o.via = m.via /\ o.to = m.from
    <3>1. code \in Codes /\ p \in Nodes
      BY DEF Codes, Nodes
    <3> QED
      BY <1>2, <2>1, <3>1, ReplyFacts
  <2>3. PICK i \in invited : i.from = m.from /\ i.via[1] = m.via[1]
    BY <1>2 DEF HopOK
  <2>4. By(i.via[1]) = i.from /\ i.from # Uas
    <3>1. Sound(i) /\ i \in Messages
      BY DEF InvitedInv, Types
    <3>2. 1 \in 1..Len(i.via)
      BY <3>1, NonEmpty DEF Messages
    <3> QED
      BY <3>1, <3>2, NodesAssumption DEF Sound, FromTop, Retraceable
  <2>5. Len(o.via) = 1 /\ o.to = By(o.via[1]) /\ o.to # Uas
    BY <1>2, <2>2, <2>3, <2>4 DEF HopOK
  <2>6. MessageOK(o)'
    BY <2>2, <2>5 DEF MessageOK, By
  <2> QED
    BY <2>1, <2>6 DEF Response
<1>4. PICK N : N = out
  OBVIOUS
<1>5. ASSUME NEW o \in N PROVE MessageOK(o)'
  <2>1. PICK c \in cts[p] : c.key \in keys /\ o = Derived(c.req, "CANCEL")
    BY <1>4
  <2>2. PICK x \in ctx[p] : x.ct = c.key /\ x.st = key
    BY <2>1
  <2>3. key.method = "INVITE"
    BY <1>2, KeyFacts
  <2>4. c.key.method = "INVITE"
    <3>1. ContextOK(p, x)
      BY DEF TransactionInv
    <3> QED
      BY <2>2, <2>3, <3>1 DEF ContextOK
  <2>5. MessageOK(Derived(c.req, "CANCEL"))'
    BY <1>1, <2>4, DerivedOK
  <2>6. Derived(c.req, "CANCEL")' = Derived(c.req, "CANCEL")
    BY DEF Derived, WriteHeader, SingleVia, ParseVias, Insert, TopMost
  <2> QED
    BY <2>1, <2>5, <2>6
<1> HIDE DEF keys, out
<1>6. \/ net' \subseteq net \cup (N \cup {Response(m, "ok", <<>>, p)})
      \/ net' \subseteq net \cup {Response(m, "481", <<>>, p)}
  <2>1. \/ \E sent \in SUBSET out : Exchange(m, sent \cup {Response(m, "ok", <<>>, p)})
        \/ Exchange(m, {Response(m, "481", <<>>, p)})
    BY DEF CancelHandler, ErrorResponse, out, keys
  <2> QED
    BY <1>4, <2>1 DEF Exchange
<1>7. PICK o1, o2 : o1 = Response(m, "ok", <<>>, p) /\ o2 = Response(m, "481", <<>>, p)
  OBVIOUS
<1>8. MessageOK(o1)' /\ MessageOK(o2)'
  BY <1>3, <1>7 DEF Response
<1>9. CASE net' \subseteq net \cup (N \cup {o1})
  <2>1. PICK M : M = N \cup {o1}
    OBVIOUS
  <2>2. \A o \in M : MessageOK(o)'
    BY <1>5, <1>8, <2>1
  <2>3. net' \subseteq net \cup M
    BY <1>9, <2>1
  <2> QED
    BY <2>2, <2>3, MessagesNew
<1>10. CASE net' \subseteq net \cup {o2}
  <2>1. PICK M : M = {o2}
    OBVIOUS
  <2>2. \A o \in M : MessageOK(o)'
    BY <1>8, <2>1
  <2>3. net' \subseteq net \cup M
    BY <1>10, <2>1
  <2> QED
    BY <2>2, <2>3, MessagesNew
<1> QED
  BY <1>6, <1>7, <1>9, <1>10

\* The response of an INVITE on its way back.
LEMMA RelayOK ==
  ASSUME Types, CallerMade, InvitedInv, MessageInv, TransactionInv, Types', [Next]_vars,
         NEW p \in Proxies, NEW m \in net \cup invited, ResponseHandler(p, m), m.method = "INVITE",
         NEW o \in Relayed(p, m),
         HasCall(p) /\ ({x.st : x \in {y \in ctx[p] : y.ct = ClientKey(m)}} \cap sts[p]) # {}
  PROVE  InviteOK(o)'
<1> DEFINE key   == ClientKey(m)
           bound == {x.st : x \in {y \in ctx[p] : y.ct = key}} \cap sts[p]
           open  == HasCall(p) /\ bound # {}
           gone  == {s \in bound : open /\ s.method = "INVITE" /\ m.code = "ok"}
<1>1. Arrived(p, m) /\ m.code # "request"
  BY DEF ResponseHandler
<1>2. /\ m \in net /\ m \in Messages /\ InviteOK(m) /\ By(m.via[1]) = p
      /\ o \in Messages /\ Len(m.via) > 1
      /\ o.code = m.code /\ o.path = m.path /\ o.rr = m.rr /\ o.method = "INVITE"
      /\ o.from = p /\ o.to = By(m.via[2]) /\ o.via = Tail(m.via)
  BY <1>1, ResponseOut DEF MessageOK
<1>3. PICK i \in invited : Answers(m, i)
  BY <1>1, <1>2 DEF InviteOK
<1>4. /\ m.via \in Seq(Vias) \ {<<>>} /\ i.via \in Seq(Vias) \ {<<>>} /\ Len(m.via) \in Nat
      /\ Len(i.via) = Len(m.via)
      /\ i.via[1].branch = m.via[1].branch /\ \A j \in 2..Len(m.via) : m.via[j] = i.via[j]
      /\ i.from = p
  <2>1. i \in Messages /\ Sound(i)
    BY DEF Types, InvitedInv
  <2>2. /\ m.via \in Seq(Vias) \ {<<>>} /\ i.via \in Seq(Vias) \ {<<>>}
        /\ Len(i.via) = Len(m.via)
        /\ i.via[1].branch = m.via[1].branch /\ \A j \in 2..Len(m.via) : m.via[j] = i.via[j]
    BY <1>2, <1>3, <2>1 DEF Answers, SameTrail, Messages
  <2>3. i.from = p
    BY <1>2, <2>1, <2>2 DEF Sound, FromTop, By
  <2> QED
    BY <2>2, <2>3, NonEmpty
<1>5. Tail(m.via) = Tail(i.via) /\ Tail(m.via)[1] = m.via[2]
  <2> DEFINE w == m.via
             v == i.via
             n == Len(w) - 1
  <2>1. /\ Tail(w) \in Seq(Vias) /\ Len(Tail(w)) = n /\ \A j \in 1..n : Tail(w)[j] = w[j + 1]
        /\ Tail(v) \in Seq(Vias) /\ Len(Tail(v)) = n /\ \A j \in 1..n : Tail(v)[j] = v[j + 1]
    BY <1>4, NonEmpty
  <2>2. n \in Nat /\ n >= 1 /\ Len(w) = n + 1
    BY <1>2, <1>4
  <2>3. \A j \in 2..(n + 1) : w[j] = v[j]
    BY <1>4, <2>2
  <2> HIDE DEF w, v, n
  <2>4. ASSUME NEW j \in 1..n PROVE Tail(w)[j] = Tail(v)[j]
    <3>1. j + 1 \in 2..(n + 1)
      BY <2>2
    <3> QED
      BY <2>1, <2>3, <3>1
  <2>5. 1 \in 1..n /\ 1 + 1 = 2
    BY <2>2
  <2>6. Tail(w)[1] = w[2]
    BY <2>1, <2>5
  <2>7. Tail(w) = Tail(v)
    BY <2>1, <2>4
  <2> QED
    BY <2>6, <2>7 DEF w, v
<1>6. PICK h \in invited : h.to = p /\ SameTrail(o.via, h.via)
  <2>1. Behind(i)
    BY DEF InvitedInv
  <2> QED
    BY <1>2, <1>4, <1>5, <2>1 DEF Behind
<1>7. o.to = By(o.via[1])
  BY <1>2, <1>5
<1>8. ASSUME IsFailure(m.code) PROVE Settled(p, ServerKey(o))'
  <2>1. PICK x \in ctx[p] : x.ct = key /\ x.st \in sts[p]
    OBVIOUS
  <2>2. PICK s : s = x.st
    OBVIOUS
  <2>3. PICK g \in invited :
           /\ x.ct.branch = g.via[1].branch
           /\ x.st.branch = g.via[2].branch /\ x.st.sentBy = g.via[2].sentBy /\ x.st.method = "INVITE"
    <3>1. ContextOK(p, x)
      BY DEF TransactionInv
    <3>2. key.method = "INVITE"
      BY <1>2, KeyFacts
    <3> QED
      BY <2>1, <3>1, <3>2 DEF ContextOK
  <2>4. g = i
    <3>1. key.branch = m.via[1].branch
      BY <1>2, KeyFacts
    <3> QED
      BY <1>4, <2>1, <2>3, <3>1 DEF InvitedInv
  <2>5. s = [branch |-> m.via[2].branch, sentBy |-> m.via[2].sentBy, method |-> "INVITE"]
    <3>1. 2 \in 2..Len(m.via)
      BY <1>2, <1>4
    <3>2. m.via[2] = i.via[2]
      BY <1>4, <3>1
    <3>3. x.st \in ServerKeys
      BY DEF Types
    <3> QED
      BY <2>2, <2>3, <2>4, <3>2, <3>3 DEF ServerKeys
  <2>6. ServerKey(o) = s
    BY <1>2, <1>5, <2>5, KeyFacts
  <2>7. /\ ctx' = [ctx EXCEPT ![p] = {y \in @ : ~(open /\ IsFinal(m.code) /\ y.ct = key)}]
        /\ sts' = [sts EXCEPT ![p] = @ \ gone]
    BY DEF ResponseHandler
  <2>8. IsFinal(m.code) /\ m.code # "ok"
    BY <1>8 DEF IsFailure, IsFinal
  <2>9. gone = {} /\ open
    BY <2>8
  <2> HIDE DEF gone, bound, key, open
  <2>10. s \in sts'[p]
    BY <2>1, <2>2, <2>7, <2>9 DEF Types
  <2>11. ASSUME NEW y \in ctx'[p], y.st = s PROVE FALSE
    <3>1. y \in ctx[p] /\ y.ct # key
      BY <2>7, <2>8, <2>9 DEF Types
    <3>2. y = x
      BY <2>2, <2>11, <3>1 DEF TransactionInv
    <3> QED
      BY <2>1, <3>1, <3>2
  <2>12. Settled(p, s)'
    BY <2>10, <2>11 DEF Settled
  <2> QED
    BY <2>6, <2>12, KeyPrimed
<1>9. (\E g \in invited : Answers(o, g))'
  <2>1. invited \subseteq invited'
    BY Grows
  <2> QED
    BY <1>2, <1>6, <2>1 DEF Answers, SameTrail
<1>10. m.code = "ok" => GoodPath(o.path, o.rr)
  BY <1>1, <1>2 DEF InviteOK
<1> QED
  BY <1>1, <1>2, <1>7, <1>8, <1>9, <1>10 DEF InviteOK, By

\* The response of a BYE on its way back.
LEMMA ByeRelayOK ==
  ASSUME Types, InvitedInv, MessageInv, InDialog => InDialog' /\ dialog' = dialog,
         NEW p \in Proxies, NEW m \in net \cup invited, Arrived(p, m), m.code # "request", m.method = "BYE",
         NEW o \in Relayed(p, m)
  PROVE  PathSuffix(o)' /\ o.to = By(o.via[1])
<1>1. /\ m \in Messages /\ PathSuffix(m) /\ Len(m.via) > 1 /\ o.to = By(m.via[2]) /\ o.via = Tail(m.via)
  BY ResponseOut DEF MessageOK
<1> DEFINE w == m.via
           v == o.via
           n == Len(w) - 1
           path == dialog.path
<1>2. /\ v \in Seq(Vias) /\ Len(v) = n /\ \A j \in 1..n : v[j] = w[j + 1]
      /\ Len(w) \in Nat
  <2>1. w \in Seq(Vias) \ {<<>>}
    BY <1>1 DEF Messages
  <2> QED
    BY <1>1, <2>1, NonEmpty
<1>3. n \in Nat /\ n >= 1 /\ Len(w) = n + 1 /\ Len(path) \in Nat
  BY <1>1, <1>2 DEF Types
<1>4. /\ InDialog /\ Len(w) <= Len(path) /\ Retraceable(w)
      /\ \A j \in 1..Len(w) : By(w[j]) = path[Len(path) - Len(w) + j]
  BY <1>1 DEF PathSuffix
<1> HIDE DEF w, v, n, path
<1>5. Retraceable(v)
  <2>1. ASSUME NEW j \in 1..n PROVE v[j].sentBy = SentBy(By(v[j])) /\ By(v[j]) \in Proxies \cup {Uac}
    <3>1. j + 1 \in 1..Len(w)
      BY <1>3
    <3> QED
      BY <1>2, <1>4, <3>1 DEF Retraceable
  <2>2. ASSUME NEW j \in 2..n PROVE Resolved(v[j]) = By(v[j])
    <3>1. j + 1 \in 2..Len(w) /\ j \in 1..n
      BY <1>3
    <3> QED
      BY <1>2, <1>4, <3>1 DEF Retraceable
  <2> QED
    BY <1>2, <2>1, <2>2 DEF Retraceable
<1>6. ASSUME NEW j \in 1..Len(v) PROVE By(v[j]) = path[Len(path) - Len(v) + j]
  <2>1. j + 1 \in 1..Len(w) /\ Len(path) - Len(w) + (j + 1) = Len(path) - Len(v) + j /\ j \in 1..n
    BY <1>2, <1>3
  <2> QED
    BY <1>2, <1>4, <2>1
<1>7. Len(v) <= Len(path)
  BY <1>2, <1>3, <1>4
<1>8. v[1] = w[2]
  <2>1. 1 \in 1..n /\ 1 + 1 = 2
    BY <1>3
  <2> QED
    BY <1>2, <2>1
<1>9. InDialog' /\ dialog' = dialog
  BY <1>4
<1> QED
  BY <1>1, <1>4, <1>5, <1>6, <1>7, <1>8, <1>9 DEF PathSuffix, w, v, path

\* What responseHandler sends: the ACK of a failure, and the response relayed.
LEMMA ResponsesOK ==
  ASSUME Types, CallerMade, InvitedInv, MessageInv, TransactionInv, Types', [Next]_vars,
         NEW p \in Proxies, NEW m \in net \cup invited, ResponseHandler(p, m)
  PROVE  MessageInv'
<1> DEFINE key   == ClientKey(m)
           tx    == {c \in cts[p] : c.key = key}
           acks  == IF m.method = "INVITE" /\ IsFailure(m.code)
                    THEN {Derived(c.req, "ACK") : c \in tx} ELSE {}
           bound == {x.st : x \in {y \in ctx[p] : y.ct = key}} \cap sts[p]
           open  == HasCall(p) /\ bound # {}
           up    == IF open /\ bound \cap done[p] = {} THEN Relayed(p, m) ELSE {}
<1>0. invited \subseteq invited' /\ (InDialog => InDialog' /\ dialog' = dialog)
  BY Grows
<1>1. Arrived(p, m) /\ m.code # "request" /\ Exchange(m, acks \cup up)
  BY DEF ResponseHandler
<1>2. /\ m \in net /\ m \in Messages /\ MessageOK(m) /\ By(m.via[1]) = p
      /\ m.method \in {"INVITE", "CANCEL", "BYE"}
      /\ \A o \in Relayed(p, m) :
           o \in Messages /\ m.method \in {"INVITE", "BYE"} /\ o.method = m.method /\ o.code = m.code
  BY <1>1, ResponseOut
<1>3. PICK A, U : A = acks /\ U = up
  OBVIOUS
<1>4. ASSUME NEW o \in A PROVE MessageOK(o)'
  <2>1. PICK c \in cts[p] : c.key = key /\ o = Derived(c.req, "ACK")
    BY <1>3, <1>4
  <2>2. m.method = "INVITE" /\ IsFailure(m.code)
    BY <1>3, <1>4
  <2>3. key = [branch |-> m.via[1].branch, method |-> "INVITE"]
    BY <1>2, <2>2, KeyFacts
  <2>4. InviteOK(m)
    BY <1>2, <2>2 DEF MessageOK
  <2>5. PICK i \in invited : Answers(m, i)
    BY <1>1, <2>4 DEF InviteOK
  <2>6. c.req = i
    <3>1. ClientOK(p, c)
      BY DEF TransactionInv
    <3>2. c.req \in invited /\ c.key = ClientKey(c.req) /\ c.req \in Messages
      BY <2>1, <2>3, <3>1 DEF ClientOK, Types
    <3>3. c.req.via[1].branch = m.via[1].branch
      BY <2>1, <2>3, <3>2, KeyFacts
    <3> QED
      BY <2>5, <3>2, <3>3 DEF Answers, SameTrail, InvitedInv
  <2>7. PICK s : s = [branch |-> c.req.via[1].branch, sentBy |-> c.req.via[1].sentBy, method |-> "INVITE"]
    OBVIOUS
  <2>8. s = ServerKey(m)
    <3>1. ServerKey(m) = [branch |-> m.via[1].branch, sentBy |-> m.via[1].sentBy, method |-> "INVITE"]
      BY <1>2, <2>2, KeyFacts
    <3> QED
      BY <2>5, <2>6, <2>7, <3>1 DEF Answers, SameTrail
  <2>9. c.req.to \in Proxies => Settled(c.req.to, s)'
    <3>1. c.req.to = m.from
      BY <2>5, <2>6 DEF Answers
    <3>2. m.from \in Proxies => Settled(m.from, s)
      BY <1>1, <2>2, <2>4, <2>8 DEF InviteOK
    <3> QED
      BY <3>1, <3>2, SettledStays
  <2>10. MessageOK(Derived(c.req, "ACK"))'
    BY <1>0, <2>1, <2>3, <2>7, <2>9, DerivedOK
  <2>11. Derived(c.req, "ACK")' = Derived(c.req, "ACK")
    BY DEF Derived, WriteHeader, SingleVia, ParseVias, Insert, TopMost
  <2> QED
    BY <2>1, <2>10, <2>11
<1>5. ASSUME NEW o \in U PROVE MessageOK(o)'
  <2>1. o \in Relayed(p, m) /\ HasCall(p) /\ bound # {}
    BY <1>3, <1>5
  <2>2. CASE m.method = "INVITE"
    <3>1. InviteOK(o)'
      BY <2>1, <2>2, RelayOK
    <3> QED
      BY <1>2, <2>1, <2>2, <3>1 DEF MessageOK
  <2>3. CASE m.method = "BYE"
    <3>1. PathSuffix(o)' /\ o.to = By(o.via[1])
      BY <1>0, <1>1, <2>1, <2>3, ByeRelayOK
    <3> QED
      BY <1>1, <1>2, <2>1, <2>3, <3>1 DEF MessageOK, By
  <2> QED
    BY <1>2, <2>1, <2>2, <2>3
<1> HIDE DEF acks, up
<1>6. PICK N : N = A \cup U
  OBVIOUS
<1>7. net' \subseteq net \cup N
  BY <1>1, <1>3, <1>6 DEF Exchange
<1>8. \A o \in N : MessageOK(o)'
  BY <1>4, <1>5, <1>6
<1> QED
  BY <1>7, <1>8, MessagesNew

\* The CANCEL of the caller, and its ACK of a failure.
LEMMA CallerHopOK ==
  ASSUME Types, InvitedInv, uac # "idle", invited \subseteq invited', NEW method \in {"ACK", "CANCEL"},
         method = "ACK" => Settled(FirstHop, [branch |-> Branch(Uac, 1), sentBy |-> SentBy(Uac), method |-> "INVITE"])'
  PROVE  MessageOK(Request(method, <<Via(Uac, 1)>>, 1, <<>>, <<>>, <<>>, Uac, FirstHop))'
<1>1. PICK o : o = Request(method, <<Via(Uac, 1)>>, 1, <<>>, <<>>, <<>>, Uac, FirstHop)
  OBVIOUS
<1>2. /\ o \in Messages /\ o.method = method /\ o.code = "request" /\ Len(o.via) = 1 /\ o.via[1] = Via(Uac, 1)
      /\ o.path = <<>> /\ o.from = Uac /\ o.to = FirstHop
  <2> DEFINE empty == <<>>
             r     == Request(method, <<Via(Uac, 1)>>, 1, empty, <<>>, empty, Uac, FirstHop)
  <2>1. empty \in Seq(Nodes) /\ 1 \in Nat /\ method \in Methods
    BY DEF Methods
  <2> HIDE DEF empty
  <2>2. /\ r \in Messages /\ r.method = method /\ r.code = "request" /\ Len(r.via) = 1 /\ r.via[1] = Via(Uac, 1)
        /\ r.path = empty /\ r.from = Uac /\ r.to = FirstHop
    BY <2>1, RequestFacts
  <2>3. o = r
    BY <1>1 DEF empty
  <2> QED
    BY <2>2, <2>3 DEF empty
<1>3. PICK i \in invited : i.from = Uac
  BY DEF InvitedInv
<1>4. i.via[1] = Via(Uac, 1) /\ i.to = FirstHop
  BY <1>3, CallersInvite
<1>5. method = "ACK" => Settled(FirstHop, ServerKey(o))'
  <2>1. Via(Uac, 1).branch = Branch(Uac, 1) /\ Via(Uac, 1).sentBy = SentBy(Uac)
    BY DEF Via
  <2>2. method = "ACK" => ServerKey(o) = [branch |-> Branch(Uac, 1), sentBy |-> SentBy(Uac), method |-> "INVITE"]
    BY <1>2, <2>1, KeyFacts
  <2> QED
    BY <2>2, KeyPrimed
<1>6. (\E g \in invited : g.to = o.to /\ g.from = o.from /\ g.via[1] = o.via[1])'
  BY <1>2, <1>3, <1>4
<1>7. HopOK(o)'
  BY <1>2, <1>5, <1>6 DEF HopOK
<1>8. MessageOK(o)'
  BY <1>2, <1>7 DEF MessageOK
<1> QED
  BY <1>1, <1>8 DEF Request, Via, Branch, SentBy

\* A request of the caller in its dialog.
LEMMA CallerDialogOK ==
  ASSUME Types', DialogInv', InDialog', NEW method \in {"ACK", "BYE"}, NEW f \in Forwards, NEW i \in Nat,
         NEW o, o = Request(method, <<Via(Uac, i)>>, f, dialog'.route, <<>>, dialog'.path, Uac, FirstHop)
  PROVE  MessageOK(o)'
<1> DEFINE path  == dialog'.path
           route == dialog'.route
<1>1. path \in Seq(Nodes) /\ route \in Seq(Nodes) /\ f \in Nat /\ method \in Methods /\ Len(path) \in Nat
      /\ Uac \in Nodes /\ FirstHop \in Proxies /\ Uac \notin Proxies
  BY BoundsAssumption, NodesAssumption, RoutesAssumption DEF Types, Methods, Nodes
<1>2. /\ Len(path) > 1 /\ path[Len(path)] = Uac /\ path[Len(path) - 1] = FirstHop
      /\ Len(route) = Len(path) - 1
      /\ \A j \in 1..(Len(path) - 1) : route[j] = path[Len(path) - j]
  BY DEF DialogInv
<1>a. path # <<>>
  <2>1. Len(<<>>) = 0
    OBVIOUS
  <2> QED
    BY <1>2, <2>1
<1> HIDE DEF path, route
<1>3. /\ o \in Messages /\ o.method = method /\ o.code = "request" /\ Len(o.via) = 1 /\ o.via[1] = Via(Uac, i)
      /\ o.mf = f /\ o.route = route /\ o.path = path /\ o.from = Uac /\ o.to = FirstHop
  <2>1. o = Request(method, <<Via(Uac, i)>>, f, route, <<>>, path, Uac, FirstHop)
    BY DEF route, path
  <2> QED
    BY <1>1, <2>1, RequestFacts
<1>4. /\ By(o.via[1]) = Uac /\ o.via[1].sentBy = SentBy(Uac) /\ o.via[1].received = Nowhere
  BY <1>1, <1>3, ViaFacts
<1>b. Len(o.via) = 1
  BY <1>3
<1>c. PICK n \in Nat : n = Len(path)
  BY <1>1
<1>d. n > 1 /\ n - 1 + 1 = n /\ n - 1 # 0 /\ 1 <= n /\ 1 \in 1..(n - 1) /\ \A j \in 1..(n - 1) : n - 1 + 1 - j = n - j
  BY <1>2, <1>c
<1>5. 1..Len(o.via) = {1} /\ 2..Len(o.via) = {}
  <2>1. 1..1 = {1} /\ 2..1 = {}
    OBVIOUS
  <2> QED
    BY <1>b, <2>1, Zenon
<1>6. Retraceable(o.via)
  BY <1>4, <1>5 DEF Retraceable
<1>7. FromTop(o) /\ Spent(o)
  <2>1. f + 1 = f + 1 /\ o.mf + Len(o.via) = f + 1
    BY <1>3
  <2> QED
    BY <1>1, <1>3, <1>4, <2>1 DEF FromTop, Spent
<1>8. Len(path) - Len(o.via) = n - 1 /\ Len(o.via) <= Len(path)
  BY <1>b, <1>c, <1>d, Zenon
<1>9. \A j \in 1..Len(o.via) : By(o.via[j]) = path[Len(path) - Len(o.via) + j]
  <2>1. path[Len(path) - Len(o.via) + 1] = Uac
    BY <1>2, <1>8, <1>c, <1>d, Zenon
  <2> QED
    BY <1>4, <1>5, <2>1, Zenon
<1>10. \A j \in 1..(n - 1) : o.route[j] = o.path[n - 1 + 1 - j]
  <2>1. \A j \in 1..(n - 1) : o.route[j] = path[n - j]
    BY <1>2, <1>3, <1>c, Zenon
  <2> QED
    BY <1>3, <1>d, <2>1, Zenon
<1>11. o.to = o.route[1] /\ Len(o.route) = n - 1
  BY <1>2, <1>3, <1>c, <1>d, Zenon
<1>12. PathSuffix(o)'
  BY <1>6, <1>8, <1>9 DEF PathSuffix, path
<1>13. OnPath(o)'
  <2>1. Len(dialog.path)' - Len(o.via) = n - 1
    BY <1>8 DEF path
  <2>2. (o.path = dialog.path)'
    BY <1>3 DEF path
  <2>3. o.to = IF n - 1 = 0 THEN Uas ELSE o.route[1]
    BY <1>11, <1>d
  <2> QED
    BY <1>7, <1>10, <1>11, <1>12, <2>1, <2>2, <2>3, Zenon DEF OnPath
<1> QED
  BY <1>3, <1>a, <1>13 DEF MessageOK

\* The route set that the caller learns is the path, from the first proxy on.
LEMMA RouteSet ==
  ASSUME NEW path \in Seq(Nodes), NEW rr \in Seq(Nodes), GoodPath(path, rr)
  PROVE  /\ Len(path) > 1 /\ path[Len(path)] = Uac /\ path[Len(path) - 1] = FirstHop
         /\ \A j \in 1..(Len(path) - 1) : path[j] \in Proxies /\ path[j] # path[j + 1]
         /\ Len(Reverse(rr)) = Len(path) - 1
         /\ \A j \in 1..(Len(path) - 1) : Reverse(rr)[j] = path[Len(path) - j]
<1>1. PICK n \in Nat : n = Len(rr)
  OBVIOUS
<1>2. /\ n > 0 /\ n + 1 > 1 /\ (n + 1) - 1 = n /\ n \in 1..n
      /\ \A j \in 1..n : (n + 1) - j \in 1..n
      /\ \A j \in 1..n : (j \in 1..(n - 1) /\ j + 1 \in 1..n) \/ j = n
  BY <1>1 DEF GoodPath
<1>3. /\ Len(path) = n + 1
      /\ \A j \in 1..n : rr[j] = path[j] /\ rr[j] \in Proxies
      /\ \A j \in 1..(n - 1) : rr[j] # rr[j + 1]
      /\ path[n + 1] = Uac /\ rr[n] = FirstHop
  BY <1>1 DEF GoodPath
<1>4. Uac \notin Proxies
  BY NodesAssumption
<1>5. \A j \in 1..n : path[j] \in Proxies /\ path[j] # path[j + 1]
  <2> SUFFICES ASSUME NEW j \in 1..n PROVE path[j] \in Proxies /\ path[j] # path[j + 1]
    OBVIOUS
  <2>1. CASE j = n
    BY <1>3, <1>4, <2>1
  <2>2. CASE j \in 1..(n - 1) /\ j + 1 \in 1..n
    BY <1>3, <2>2
  <2> QED
    BY <1>2, <2>1, <2>2
<1>6. Len(Reverse(rr)) = n /\ \A j \in 1..n : Reverse(rr)[j] = rr[(n + 1) - j]
  BY <1>1, ReverseFacts
<1>7. \A j \in 1..n : Reverse(rr)[j] = path[(n + 1) - j]
  BY <1>2, <1>3, <1>6, Zenon
<1>8. Len(path) - 1 = n /\ \A j : Len(path) - j = (n + 1) - j
  BY <1>2, <1>3, Zenon
<1>9. Len(path) > 1 /\ path[Len(path)] = Uac /\ path[Len(path) - 1] = FirstHop
  <2>1. path[n] = FirstHop
    BY <1>2, <1>3, Zenon
  <2> QED
    BY <1>2, <1>3, <1>8, <2>1, Zenon
<1>10. \A j \in 1..(Len(path) - 1) : Reverse(rr)[j] = path[Len(path) - j]
  BY <1>7, <1>8, Zenon
<1> QED
  BY <1>5, <1>6, <1>8, <1>9, <1>10, Zenon

\* The caller takes its dialog from a 200 that passed all of the path.
LEMMA DialogStep ==
  ASSUME Types, CallerMade, MessageInv, DialogInv, Types', [Next]_vars
  PROVE  DialogInv'
<1>1. CASE InDialog
  BY <1>1, Grows DEF DialogInv
<1>2. CASE ~InDialog'
  BY <1>2 DEF DialogInv
<1>3. CASE ~InDialog /\ InDialog'
  <2>1. PICK m \in net, f \in Forwards : UacAnswer(m, f) /\ m.code = "ok"
    <3>1. CASE \E p \in Proxies : ProxyStep(p)
      BY <1>3, <3>1, ProxyFrame DEF InDialog, uacVars
    <3>2. CASE \E f \in Forwards : UacInvite(f) \/ UacBye(f)
      BY <1>3, <3>2 DEF InDialog, UacInvite, UacBye
    <3>3. CASE UacCancel
      BY <1>3, <3>3 DEF InDialog, UacCancel
    <3>4. CASE \E m \in net, f \in Forwards : UacAnswer(m, f)
      BY <1>3, <3>4 DEF InDialog, UacAnswer
    <3>5. CASE \E m \in net : UacByeAnswer(m)
      BY <1>3, <3>5 DEF InDialog, UacByeAnswer
    <3>6. CASE \E m \in net, c \in {"ringing", "ok", "fail"} : UasAnswer(m, c)
      BY <1>3, <3>6 DEF InDialog, UasAnswer, uacVars
    <3>7. CASE UNCHANGED vars
      BY <1>3, <3>7 DEF InDialog, vars
    <3> QED
      BY <3>1, <3>2, <3>3, <3>4, <3>5, <3>6, <3>7 DEF Next
  <2>2. m \in Messages /\ m.method = "INVITE" /\ MessageOK(m)
    BY <2>1 DEF Types, UacAnswer, MessageInv
  <2>3. m.path \in Seq(Nodes) /\ m.rr \in Seq(Nodes)
    BY <2>2 DEF Messages
  <2>4. GoodPath(m.path, m.rr)
    BY <2>1, <2>2 DEF MessageOK, InviteOK
  <2>5. dialog' = [route |-> Reverse(m.rr), path |-> m.path]
    BY <2>1 DEF UacAnswer, IsFailure
  <2>6. dialog'.path = m.path /\ dialog'.route = Reverse(m.rr)
    BY <2>5
  <2> DEFINE path  == m.path
             route == Reverse(m.rr)
  <2>7. /\ Len(path) > 1 /\ path[Len(path)] = Uac /\ path[Len(path) - 1] = FirstHop
        /\ \A j \in 1..(Len(path) - 1) : path[j] \in Proxies /\ path[j] # path[j + 1]
        /\ Len(route) = Len(path) - 1
        /\ \A j \in 1..(Len(path) - 1) : route[j] = path[Len(path) - j]
    BY <2>3, <2>4, RouteSet, Zenon
  <2> HIDE DEF path, route
  <2>8. dialog'.path = path /\ dialog'.route = route
    BY <2>6 DEF path, route
  <2> QED
    BY <2>7, <2>8, Zenon DEF DialogInv
<1> QED
  BY <1>1, <1>2, <1>3

\* The INVITE that reaches the callee has recorded its path.
LEMMA CalleePath ==
  ASSUME Types, NEW m \in Messages, Sound(m), m.to = Uas
  PROVE  GoodPath(Path(m.via), m.rr)
<1>1. m.via \in Seq(Vias) \ {<<>>} /\ m.via \in Seq(Vias)
  BY DEF Messages
<1>2. PICK n \in Nat : n = Len(m.via) /\ n >= 1
  BY <1>1, NonEmpty
<1>3. Len(m.rr) = n - 1
  BY <1>2 DEF Sound
<1>4. n # 1
  BY <1>2, NodesAssumption, RoutesAssumption DEF Sound
<1>5. /\ n - 1 + 1 = n /\ n - 1 > 0 /\ n - 1 \in 1..(n - 1) /\ n \in 1..n
      /\ \A j \in 1..(n - 1) : j \in 1..n
      /\ \A j \in 1..(n - 1 - 1) : j \in 1..(n - 1) /\ j + 1 \in 1..(n - 1)
  <2>1. \A k \in Nat : k >= 1 /\ k # 1 =>
          /\ k - 1 + 1 = k /\ k - 1 > 0 /\ k - 1 \in 1..(k - 1) /\ k \in 1..k
          /\ \A j \in 1..(k - 1) : j \in 1..k
          /\ \A j \in 1..(k - 1 - 1) : j \in 1..(k - 1) /\ j + 1 \in 1..(k - 1)
    OBVIOUS
  <2> QED
    BY <1>2, <1>4, <2>1, Zenon
<1>6. Len(Path(m.via)) = n /\ \A j \in 1..n : Path(m.via)[j] = By(m.via[j])
  BY <1>1, <1>2, PathFacts
<1>7. \A j \in 1..(n - 1) : /\ By(m.via[j]) \in Proxies /\ By(m.via[j]) = m.rr[j]
                            /\ By(m.via[j]) # By(m.via[j + 1])
  BY <1>2, Zenon DEF Sound
<1>8. By(m.via[n]) = Uac /\ By(m.via[n - 1]) = FirstHop
  BY <1>2, <1>4 DEF Sound, By, Branch
<1>9. \A j \in 1..(n - 1) : m.rr[j] = Path(m.via)[j] /\ m.rr[j] \in Proxies
  BY <1>5, <1>6, <1>7, Zenon
<1>10. \A j \in 1..(n - 1 - 1) : m.rr[j] # m.rr[j + 1]
  BY <1>5, <1>7, Zenon
<1>11. Path(m.via)[n] = Uac /\ m.rr[n - 1] = FirstHop
  BY <1>5, <1>6, <1>7, <1>8, Zenon
<1> QED
  BY <1>3, <1>5, <1>6, <1>9, <1>10, <1>11, Zenon DEF GoodPath

\* Only requests reach the callee.
LEMMA CalleeGetsRequests ==
  ASSUME Types, InvitedInv, MessageInv, NEW m \in net, m.to = Uas
  PROVE  m.code = "request"
<1> SUFFICES ASSUME m.code # "request" PROVE FALSE
  OBVIOUS
<1>1. m \in Messages /\ MessageOK(m)
  BY DEF Types, MessageInv
<1>2. m.via \in Seq(Vias) \ {<<>>} /\ Len(m.via) \in Nat /\ Len(m.via) >= 1
  BY <1>1, NonEmpty DEF Messages
<1>3. Uas \notin Proxies \cup {Uac}
  BY NodesAssumption
<1>4. 1 \in 1..Len(m.via)
  BY <1>2
<1>5. CASE m.method = "INVITE"
  <2>1. m.to = By(m.via[1])
    BY <1>1, <1>5 DEF MessageOK, InviteOK
  <2>2. PICK i \in invited : Answers(m, i)
    BY <1>1, <1>5 DEF MessageOK, InviteOK
  <2>3. By(m.via[1]) = By(i.via[1]) /\ Len(m.via) = Len(i.via)
    BY <2>2 DEF Answers, SameTrail, By
  <2>4. By(i.via[1]) \in Proxies \cup {Uac}
    BY <1>4, <2>3 DEF InvitedInv, Sound, Retraceable
  <2> QED
    BY <1>3, <2>1, <2>3, <2>4
<1>6. CASE m.method = "BYE"
  BY <1>1, <1>3, <1>4, <1>6 DEF MessageOK, PathSuffix, Retraceable
<1>7. CASE m.method \in {"ACK", "CANCEL"}
  BY <1>1, <1>7 DEF MessageOK
<1> QED
  BY <1>1, <1>5, <1>6, <1>7 DEF Messages, Methods

\* What the callee answers.
LEMMA CalleeOK ==
  ASSUME Types, CallerMade, InvitedInv, MessageInv, [Next]_vars,
         NEW m \in net, NEW c \in {"ringing", "ok", "fail"}, UasAnswer(m, c)
  PROVE  MessageInv'
<1>1. m \in Messages /\ MessageOK(m) /\ m.to = Uas /\ m.method # "ACK" /\ (m.method # "INVITE" => c = "ok")
  BY DEF Types, MessageInv, UasAnswer
<1>2. m.code = "request"
  BY <1>1, CalleeGetsRequests
<1>3. PICK o : o = Response(m, c, Path(m.via), Uas)
  OBVIOUS
<1>4. Uas \in Nodes /\ Path(m.via) \in Seq(Nodes) /\ c \in Codes /\ Uas \notin Proxies
  BY <1>1, PathFacts, NodesAssumption DEF Messages, Nodes, Codes
<1>5. /\ o \in Messages /\ o.method = m.method /\ o.code = c /\ o.via = m.via /\ o.rr = m.rr
      /\ o.path = Path(m.via) /\ o.from = Uas /\ o.to = m.from
  BY <1>1, <1>3, <1>4, ResponseFacts
<1>6. net' \subseteq net \cup {o} /\ UNCHANGED <<invited, uacVars>>
  BY <1>3 DEF UasAnswer
<1>a. c # "request" /\ c # "481" /\ c # "483"
  OBVIOUS
<1>7. MessageOK(o)'
  <2>1. CASE m.method = "INVITE"
    <3>1. m \in invited
      BY <1>1, <1>2, <2>1 DEF MessageOK, InviteOK
    <3>2. Sound(m) /\ FromTop(m)
      BY <3>1 DEF InvitedInv, Sound
    <3>3. GoodPath(o.path, o.rr)
      BY <1>1, <1>5, <3>2, CalleePath
    <3>4. Answers(o, m) /\ o.to = By(o.via[1])
      BY <1>1, <1>5, <3>2 DEF Answers, SameTrail, FromTop
    <3>5. InviteOK(o)'
      BY <1>4, <1>5, <1>6, <1>a, <3>1, <3>3, <3>4 DEF InviteOK
    <3> QED
      BY <1>5, <2>1, <3>5 DEF MessageOK
  <2>2. CASE m.method = "CANCEL"
    <3>1. HopOK(m)
      BY <1>1, <1>2, <2>2 DEF MessageOK
    <3>2. PICK i \in invited : i.from = m.from /\ i.via[1] = m.via[1]
      BY <3>1 DEF HopOK
    <3>3. FromTop(i) /\ Retraceable(i.via) /\ i \in Messages
      BY DEF InvitedInv, Sound, Types
    <3>4. 1 \in 1..Len(i.via)
      BY <3>3, NonEmpty DEF Messages
    <3>5. m.from = By(m.via[1]) /\ m.from \in Proxies \cup {Uac}
      BY <3>2, <3>3, <3>4 DEF FromTop, Retraceable
    <3>6. m.from # Uas
      BY <3>5, NodesAssumption
    <3> QED
      BY <1>5, <1>a, <2>2, <3>1, <3>5, <3>6 DEF MessageOK, HopOK
  <2>3. CASE m.method = "BYE"
    <3>1. PathSuffix(m) /\ FromTop(m)
      BY <1>1, <1>2, <2>3 DEF MessageOK, OnPath
    <3>2. PathSuffix(o)'
      BY <1>5, <1>6, <3>1 DEF PathSuffix, InDialog, uacVars
    <3>3. o.to = By(o.via[1])
      BY <1>5, <3>1 DEF FromTop
    <3> QED
      BY <1>5, <1>a, <2>3, <3>2, <3>3 DEF MessageOK, By
  <2> QED
    BY <1>1, <2>1, <2>2, <2>3 DEF Messages, Methods
<1>8. PICK N : N = {o}
  OBVIOUS
<1>9. net' \subseteq net \cup N
  BY <1>6, <1>8
<1>10. \A x \in N : MessageOK(x)'
  BY <1>7, <1>8
<1> QED
  BY <1>9, <1>10, MessagesNew

\* The same for one new message.
LEMMA MessageNew ==
  ASSUME Types, CallerMade, MessageInv, [Next]_vars,
         NEW o, net' \subseteq net \cup {o}, MessageOK(o)'
  PROVE  MessageInv'
<1>1. PICK N : N = {o}
  OBVIOUS
<1>2. net' \subseteq net \cup N
  BY <1>1
<1>3. \A x \in N : MessageOK(x)'
  BY <1>1
<1> QED
  BY <1>2, <1>3, MessagesNew

\* The same for none.
LEMMA MessagesOnly ==
  ASSUME Types, CallerMade, MessageInv, [Next]_vars, net' \subseteq net
  PROVE  MessageInv'
<1>1. PICK N : N = {}
  OBVIOUS
<1>2. net' \subseteq net \cup N /\ \A x \in N : MessageOK(x)'
  BY <1>1
<1> QED
  BY <1>2, MessagesNew

\* The failure that the caller acknowledges is its first proxy's, for good.
LEMMA CallerFailure ==
  ASSUME Types, InvitedInv, MessageInv, NEW m \in net, m.to = Uac, m.method = "INVITE", IsFailure(m.code)
  PROVE  Settled(FirstHop, [branch |-> Branch(Uac, 1), sentBy |-> SentBy(Uac), method |-> "INVITE"])
<1>1. m \in Messages /\ MessageOK(m) /\ m.code # "request"
  BY DEF Types, MessageInv, IsFailure
<1>2. InviteOK(m) /\ m.to = By(m.via[1])
  BY <1>1 DEF MessageOK, InviteOK
<1>3. PICK i \in invited : Answers(m, i)
  BY <1>1, <1>2 DEF InviteOK
<1>4. /\ m.from = i.to /\ m.via[1].branch = i.via[1].branch /\ m.via[1].sentBy = i.via[1].sentBy
      /\ By(i.via[1]) = Uac
  BY <1>2, <1>3 DEF Answers, SameTrail, By
<1>5. i.from = Uac
  BY <1>4 DEF InvitedInv, Sound, FromTop
<1>6. i.via[1] = Via(Uac, 1) /\ i.to = FirstHop
  BY <1>5, CallersInvite
<1>7. m.from \in Proxies
  BY <1>4, <1>6, RoutesAssumption
<1>8. Settled(m.from, ServerKey(m))
  BY <1>1, <1>2, <1>7 DEF InviteOK
<1>9. ServerKey(m) = [branch |-> m.via[1].branch, sentBy |-> m.via[1].sentBy, method |-> "INVITE"]
  BY <1>1, KeyFacts
<1>10. Via(Uac, 1).branch = Branch(Uac, 1) /\ Via(Uac, 1).sentBy = SentBy(Uac)
  BY DEF Via
<1> QED
  BY <1>4, <1>6, <1>8, <1>9, <1>10

\* The caller's side.
LEMMA CallerOK ==
  ASSUME Types, CallerMade, InvitedInv, MessageInv, DialogInv, Types', DialogInv', [Next]_vars,
         NEW f \in Forwards,
         UacInvite(f) \/ UacBye(f) \/ \E m \in net : UacAnswer(m, f)
  PROVE  MessageInv'
<1>0. invited \subseteq invited'
  BY Grows
<1> DEFINE G == MessageInv'
<1> HIDE DEF G
<1>1. ASSUME UacInvite(f) PROVE G
  <2>1. PICK o : o = Request("INVITE", <<Via(Uac, 1)>>, f, <<>>, <<>>, <<>>, Uac, FirstHop)
    OBVIOUS
  <2>2. o.method = "INVITE" /\ o.code = "request"
    BY <2>1 DEF Request
  <2>3. net' \subseteq net \cup {o} /\ o \in invited'
    BY <1>1, <2>1 DEF UacInvite, Post
  <2>4. MessageOK(o)'
    BY <2>2, <2>3 DEF MessageOK, InviteOK
  <2> QED
    BY <2>3, <2>4, MessageNew DEF G
<1>2. ASSUME UacBye(f) PROVE G
  <2>1. PICK i : i = made[Uac] + 1
    OBVIOUS
  <2>2. i \in Nat
    BY <2>1, BoundsAssumption DEF Types, Nodes
  <2>3. InDialog' /\ dialog' = dialog
    BY <1>2 DEF UacBye, InDialog
  <2>4. PICK o : o = Request("BYE", <<Via(Uac, i)>>, f, dialog'.route, <<>>, dialog'.path, Uac, FirstHop)
    OBVIOUS
  <2>5. MessageOK(o)'
    BY <2>2, <2>3, <2>4, CallerDialogOK
  <2>6. net' \subseteq net \cup {o}
    BY <1>2, <2>1, <2>3, <2>4 DEF UacBye, Post
  <2> QED
    BY <2>5, <2>6, MessageNew DEF G
<1>3. ASSUME NEW m \in net, UacAnswer(m, f) PROVE G
  <2>1. CASE m.code = "ok"
    <3>1. PICK i : i = made[Uac] + 1
      OBVIOUS
    <3>2. i \in Nat
      BY <3>1, BoundsAssumption DEF Types, Nodes
    <3>3. InDialog' /\ dialog' = [route |-> Reverse(m.rr), path |-> m.path]
      BY <1>3, <2>1 DEF UacAnswer, InDialog, IsFailure
    <3>4. PICK o : o = Request("ACK", <<Via(Uac, i)>>, f, dialog'.route, <<>>, dialog'.path, Uac, FirstHop)
      OBVIOUS
    <3>5. MessageOK(o)'
      BY <3>2, <3>3, <3>4, CallerDialogOK
    <3>6. dialog'.route = Reverse(m.rr) /\ dialog'.path = m.path
      BY <3>3
    <3>7. Exchange(m, {Request("ACK", <<Via(Uac, made[Uac] + 1)>>, f, Reverse(m.rr), <<>>,
                               m.path, Uac, FirstHop)})
      BY <1>3, <2>1 DEF UacAnswer, IsFailure
    <3>8. Exchange(m, {o})
      BY <3>1, <3>4, <3>6, <3>7
    <3>9. net' \subseteq net \cup {o}
      BY <3>8 DEF Exchange
    <3> QED
      BY <3>5, <3>9, MessageNew DEF G
  <2>2. CASE IsFailure(m.code)
    <3>1. PICK o : o = Request("ACK", <<Via(Uac, 1)>>, 1, <<>>, <<>>, <<>>, Uac, FirstHop)
      OBVIOUS
    <3>2. PICK s : s = [branch |-> Branch(Uac, 1), sentBy |-> SentBy(Uac), method |-> "INVITE"]
      OBVIOUS
    <3>3. Settled(FirstHop, s)
      BY <1>3, <2>2, <3>2, CallerFailure DEF UacAnswer
    <3>4. Settled(FirstHop, s)'
      BY <3>3, SettledStays, RoutesAssumption
    <3>5. Settled(FirstHop, [branch |-> Branch(Uac, 1), sentBy |-> SentBy(Uac), method |-> "INVITE"])'
      BY <3>2, <3>4 DEF Branch, SentBy
    <3>6. uac # "idle" /\ Exchange(m, {o})
      BY <1>3, <2>2, <3>1 DEF UacAnswer, IsFailure
    <3>7. MessageOK(Request("ACK", <<Via(Uac, 1)>>, 1, <<>>, <<>>, <<>>, Uac, FirstHop))'
      BY <1>0, <3>5, <3>6, CallerHopOK
    <3>8. MessageOK(o)'
      BY <3>1, <3>7 DEF Request, Via, Branch, SentBy
    <3>9. net' \subseteq net \cup {o}
      BY <3>6 DEF Exchange
    <3> QED
      BY <3>8, <3>9, MessageNew DEF G
  <2> QED
    BY <1>3, <2>1, <2>2 DEF UacAnswer
<1> QED
  BY <1>1, <1>2, <1>3 DEF G

\* A request of the dialog goes on.
LEMMA PassedOnPath ==
  ASSUME Types, CallerMade, InvitedInv, MessageInv, DialogInv, [Next]_vars,
         NEW p \in Proxies, NEW m \in net \cup invited, NEW method \in {"BYE", "ACK"},
         IsNew(p, m, method), Decrement(m.mf),
         NEW out, out = Forwarded(p, m, RouteTarget(m.route), RouteOffset(m.route), m.rr)
  PROVE  out \in Messages /\ out.method = method /\ out.code = "request" /\ OnPath(out) /\ MessageOK(out)'
<1>1. m \in Messages /\ m.to = p /\ m.method = method /\ OnPath(m)
  BY NewRequest DEF Methods
<1>2. PassedOn(p, m, out) /\ out.mf > 0 /\ out.route = RouteOffset(m.route) /\ out.to = RouteTarget(m.route)
  BY DialogOut
<1>3. OnPath(out)
  BY <1>1, <1>2, DialogGoesOn
<1>4. out \in Messages /\ out.method = method /\ out.code = "request"
  BY <1>1, <1>2 DEF PassedOn
<1>5. InDialog' /\ dialog' = dialog
  BY <1>3, Grows DEF OnPath, PathSuffix
<1>6. OnPath(out)'
  BY <1>3, <1>5 DEF OnPath, PathSuffix
<1>7. out.path # <<>>
  <2>1. out.path = dialog.path /\ InDialog
    BY <1>3 DEF OnPath, PathSuffix
  <2>2. Len(dialog.path) > 1
    BY <2>1 DEF DialogInv
  <2>3. Len(<<>>) = 0
    OBVIOUS
  <2> QED
    BY <2>1, <2>2, <2>3
<1>8. MessageOK(out)'
  BY <1>4, <1>6, <1>7 DEF MessageOK
<1> QED
  BY <1>3, <1>4, <1>8

\* What a proxy sends is as it should be.
LEMMA ProxyOK ==
  ASSUME Types, CallerMade, InvitedInv, MessageInv, DialogInv, TransactionInv, Types', [Next]_vars,
         NEW p \in Proxies, ProxyStep(p)
  PROVE  MessageInv'
<1>0. invited \subseteq invited' /\ (InDialog => InDialog' /\ dialog' = dialog)
  BY Grows
<1> DEFINE G == MessageInv'
<1> HIDE DEF G
<1>1. ASSUME NEW m \in net \cup invited, NEW n \in Routes(p), InviteForward(p, m, n) PROVE G
  <2>1. PICK o : o = Forwarded(p, m, n, <<>>, <<SentBy(p)>> \o m.rr)
    OBVIOUS
  <2>2. PassedOn(p, m, o) /\ m.method = "INVITE"
    BY <1>1, <2>1, InviteOut DEF InviteForward, IsNew
  <2>3. o \in invited' /\ net' \subseteq net \cup {o}
    BY <1>1, <2>1 DEF InviteForward, Exchange
  <2>4. MessageOK(o)'
    BY <2>2, <2>3 DEF MessageOK, InviteOK, PassedOn
  <2> QED
    BY <2>3, <2>4, MessageNew DEF G
<1>2. ASSUME NEW m \in net \cup invited, InviteRefuse(p, m) PROVE G
  <2>1. PICK code \in {"481", "483", "fail"} : ErrorResponse(p, m, code)
    BY <1>2 DEF InviteRefuse
  <2>2. PICK o : o = Response(m, code, <<>>, p)
    OBVIOUS
  <2>3. MessageOK(Response(m, code, <<>>, p))'
    BY <1>0, <1>2, RefusalOK DEF InviteRefuse
  <2>4. MessageOK(o)'
    BY <2>2, <2>3 DEF Response
  <2>5. net' \subseteq net \cup {o}
    BY <2>1, <2>2 DEF ErrorResponse, Exchange
  <2> QED
    BY <2>4, <2>5, MessageNew DEF G
<1>3. ASSUME NEW m \in net \cup invited, ByeForward(p, m) PROVE G
  <2>1. PICK o : o = Forwarded(p, m, RouteTarget(m.route), RouteOffset(m.route), m.rr)
    OBVIOUS
  <2>2. MessageOK(o)'
    BY <1>3, <2>1, PassedOnPath DEF ByeForward
  <2>3. net' \subseteq net \cup {o}
    BY <1>3, <2>1 DEF ByeForward, Exchange
  <2> QED
    BY <2>2, <2>3, MessageNew DEF G
<1>4. ASSUME NEW m \in net \cup invited, ByeRefuse(p, m) PROVE G
  <2>1. PICK code \in {"481", "483", "fail"} : ErrorResponse(p, m, code)
    BY <1>4 DEF ByeRefuse
  <2>2. PICK o : o = Response(m, code, <<>>, p)
    OBVIOUS
  <2>3. MessageOK(Response(m, code, <<>>, p))'
    BY <1>0, <1>4, ByeRefusalOK DEF ByeRefuse
  <2>4. MessageOK(o)'
    BY <2>2, <2>3 DEF Response
  <2>5. net' \subseteq net \cup {o}
    BY <2>1, <2>2 DEF ErrorResponse, Exchange
  <2> QED
    BY <2>4, <2>5, MessageNew DEF G
<1>5. ASSUME NEW m \in net \cup invited, AckForward(p, m) PROVE G
  <2>1. PICK o : o = Forwarded(p, m, RouteTarget(m.route), RouteOffset(m.route), m.rr)
    OBVIOUS
  <2>2. CASE Decrement(m.mf)
    <3>1. MessageOK(o)'
      BY <1>5, <2>1, <2>2, PassedOnPath DEF AckForward
    <3>2. net' \subseteq net \cup {o}
      BY <1>5, <2>1, <2>2 DEF AckForward, Exchange
    <3> QED
      BY <3>1, <3>2, MessageNew DEF G
  <2>3. CASE ~Decrement(m.mf)
    BY <1>5, <2>3, MessagesOnly DEF AckForward, Exchange, G
  <2> QED
    BY <2>2, <2>3
<1>6. ASSUME NEW m \in net \cup invited, CancelHandler(p, m) PROVE G
  BY <1>6, CancelOK DEF G
<1>7. ASSUME NEW m \in net \cup invited, Absorb(p, m) PROVE G
  BY <1>7, MessagesOnly DEF Absorb, Exchange, G
<1>8. ASSUME NEW m \in net \cup invited, ResponseHandler(p, m) PROVE G
  BY <1>8, ResponsesOK DEF G
<1>9. ASSUME CallRemove(p) PROVE G
  BY <1>9, MessagesOnly DEF CallRemove, G
<1> QED
  BY <1>1, <1>2, <1>3, <1>4, <1>5, <1>6, <1>7, <1>8, <1>9 DEF ProxyStep, G

\* What anybody sends is as it should be.
LEMMA MessageStep ==
  ASSUME Types, CallerMade, InvitedInv, MessageInv, DialogInv, TransactionInv,
         Types', DialogInv', [Next]_vars
  PROVE  MessageInv'
<1>1. CASE \E p \in Proxies : ProxyStep(p)
  BY <1>1, ProxyOK
<1>2. CASE \E f \in Forwards : UacInvite(f) \/ UacBye(f)
  BY <1>2, CallerOK
<1>3. CASE UacCancel
  <2>1. PICK o : o = Request("CANCEL", <<Via(Uac, 1)>>, 1, <<>>, <<>>, <<>>, Uac, FirstHop)
    OBVIOUS
  <2>2. uac # "idle" /\ net' \subseteq net \cup {o}
    BY <1>3, <2>1 DEF UacCancel, Post
  <2>3. MessageOK(Request("CANCEL", <<Via(Uac, 1)>>, 1, <<>>, <<>>, <<>>, Uac, FirstHop))'
    BY <2>2, Grows, CallerHopOK
  <2>4. MessageOK(o)'
    BY <2>1, <2>3 DEF Request, Via, Branch, SentBy
  <2> QED
    BY <2>2, <2>4, MessageNew
<1>4. CASE \E m \in net, f \in Forwards : UacAnswer(m, f)
  BY <1>4, CallerOK
<1>5. CASE \E m \in net : UacByeAnswer(m)
  BY <1>5, MessagesOnly DEF UacByeAnswer, Exchange
<1>6. CASE \E m \in net, c \in {"ringing", "ok", "fail"} : UasAnswer(m, c)
  BY <1>6, CalleeOK
<1>7. CASE UNCHANGED vars
  BY <1>7, MessagesOnly DEF vars
<1> QED
  BY <1>1, <1>2, <1>3, <1>4, <1>5, <1>6, <1>7 DEF Next

--------------------------------------------------------------------------------
(***************************************************************************)
(* The panic.                                                              *)
(***************************************************************************)

\* Where a request of the dialog is, when it has arrived at a proxy.
LEMMA PlaceOnPath ==
  ASSUME Types, DialogInv, NEW p \in Proxies, NEW m \in Messages, OnPath(m), m.to = p
  PROVE  LET left == Len(dialog.path) - Len(m.via) IN
         /\ left \in 1..Len(dialog.path) /\ left \in DOMAIN dialog.path /\ dialog.path[left] = p
         /\ Len(m.via) \in Nat /\ Len(dialog.path) \in Nat /\ Len(dialog.path) - left = Len(m.via)
<1>1. PICK n \in Nat, k \in Nat : n = Len(dialog.path) /\ k = Len(m.via) /\ k >= 1 /\ k <= n
  <2>1. Len(dialog.path) \in Nat /\ Len(m.via) \in Nat /\ Len(m.via) >= 1
    BY NonEmpty DEF Types, Messages
  <2>2. Len(m.via) <= Len(dialog.path)
    BY DEF OnPath, PathSuffix
  <2> QED
    BY <2>1, <2>2
<1>2. dialog.path \in Seq(Nodes) /\ DOMAIN dialog.path = 1..n
  BY <1>1 DEF Types
<1>3. m.to = IF n - k = 0 THEN Uas ELSE m.route[1]
  BY <1>1, Zenon DEF OnPath
<1>4. n - k # 0
  BY <1>3, NodesAssumption
<1>5. \A j \in 1..(n - k) : m.route[j] = dialog.path[n - k + 1 - j]
  BY <1>1, Zenon DEF OnPath
<1>6. 1 \in 1..(n - k) /\ n - k + 1 - 1 = n - k /\ n - k \in 1..n /\ n - (n - k) = k
  <2>1. \A a, b \in Nat : b >= 1 /\ b <= a /\ a - b # 0 =>
          1 \in 1..(a - b) /\ a - b + 1 - 1 = a - b /\ a - b \in 1..a /\ a - (a - b) = b
    OBVIOUS
  <2> QED
    BY <1>1, <1>4, <2>1, Zenon
<1>7. m.route[1] = dialog.path[n - k]
  <2>1. m.route[1] = dialog.path[n - k + 1 - 1]
    BY <1>5, <1>6, Zenon
  <2> QED
    BY <1>6, <2>1, Zenon
<1>8. dialog.path[n - k] = p
  BY <1>3, <1>4, <1>7
<1> QED
  BY <1>1, <1>2, <1>6, <1>8, Zenon

\* At first every proxy runs.
LEMMA InitDead == Init => DeadInv
  BY DEF Init, DeadInv

\* Without a CANCEL, a proxy stops for an ACK only whose Max-Forwards is shorter
\* than its path.
LEMMA DeadStep ==
  ASSUME Types, CallerMade, InvitedInv, MessageInv, DialogInv, DeadInv,
         \A m \in net : m.method = "CANCEL" => cancelled, [Next]_vars
  PROVE  DeadInv'
<1> SUFFICES ASSUME ~cancelled'
             PROVE  (dead' # {} => InDialog') /\ \A p \in dead' : AckSpentAt(p)'
  BY DEF DeadInv
<1>0. InDialog => InDialog' /\ dialog' = dialog
  BY Grows
<1>d. ~cancelled
  BY Grows
<1>e. (dead # {} => InDialog) /\ \A p \in dead : AckSpentAt(p)
  BY <1>d DEF DeadInv
<1>1. CASE dead' = dead
  BY <1>0, <1>1, <1>e DEF AckSpentAt
<1>2. ASSUME NEW p \in Proxies, NEW m \in net \cup invited, AckForward(p, m), ~Decrement(m.mf), dead' = dead \cup {p}
      PROVE  (dead' # {} => InDialog') /\ \A q \in dead' : AckSpentAt(q)'
  <2>1. m \in Messages /\ m.to = p /\ OnPath(m)
    BY <1>2, NewRequest DEF AckForward, Methods
  <2>2. InDialog /\ InDialog' /\ dialog' = dialog
    BY <1>0, <2>1 DEF OnPath, PathSuffix
  <2>3. PICK left : left = Len(dialog.path) - Len(m.via)
    OBVIOUS
  <2>4. left \in DOMAIN dialog.path /\ dialog.path[left] = p /\ Len(m.via) \in Nat
        /\ Len(dialog.path) - left = Len(m.via)
    BY <2>1, <2>3, PlaceOnPath
  <2>5. m.mf \in Nat /\ ~(m.mf - 1 > 0)
    BY <1>2, <2>1 DEF Messages, Decrement
  <2>6. PICK f \in Forwards : m.mf + Len(m.via) = f + 1
    BY <2>1 DEF OnPath, Spent
  <2>7. f <= Len(dialog.path) - left
    <3>1. \A a, b, c \in Nat : ~(a - 1 > 0) /\ a + b = c + 1 => c <= b
      OBVIOUS
    <3>2. f \in Nat
      BY BoundsAssumption
    <3>3. f <= Len(m.via)
      BY <2>4, <2>5, <2>6, <3>1, <3>2, Zenon
    <3> QED
      BY <2>4, <3>3, Zenon
  <2>8. \E i \in DOMAIN dialog.path, g \in Forwards : dialog.path[i] = p /\ g <= Len(dialog.path) - i
    BY <2>4, <2>7, Zenon
  <2>9. \A q \in dead' : AckSpentAt(q)'
    BY <1>2, <1>e, <2>2, <2>8 DEF AckSpentAt
  <2> QED
    BY <2>2, <2>9
<1>3. \/ dead' = dead
      \/ \E p \in Proxies, m \in net \cup invited : AckForward(p, m) /\ ~Decrement(m.mf) /\ dead' = dead \cup {p}
  <2>1. CASE \E p \in Proxies : ProxyStep(p)
    <3>1. PICK p \in Proxies : ProxyStep(p)
      BY <2>1
    <3>2. ASSUME NEW m \in net \cup invited, NEW n \in Routes(p), InviteForward(p, m, n) PROVE dead' = dead
      BY <3>2 DEF InviteForward
    <3>3. ASSUME NEW m \in net \cup invited,
                 InviteRefuse(p, m) \/ ByeForward(p, m) \/ ByeRefuse(p, m)
          PROVE  dead' = dead
      BY <3>3 DEF InviteRefuse, ByeForward, ByeRefuse
    <3>c. ASSUME NEW m \in net \cup invited, CancelHandler(p, m) PROVE dead' = dead
      <4>1. m \in net /\ m.method = "CANCEL"
        BY <3>c, NewRequest DEF CancelHandler, Methods
      <4> QED
        BY <1>d, <4>1
    <3>4. ASSUME NEW m \in net \cup invited, Absorb(p, m) \/ ResponseHandler(p, m) PROVE dead' = dead
      BY <3>4 DEF Absorb, ResponseHandler
    <3>5. CASE CallRemove(p)
      BY <3>5 DEF CallRemove
    <3>6. ASSUME NEW m \in net \cup invited, AckForward(p, m)
          PROVE  dead' = dead \/ (~Decrement(m.mf) /\ dead' = dead \cup {p})
      BY <3>6 DEF AckForward
    <3> QED
      BY <3>1, <3>2, <3>3, <3>c, <3>4, <3>5, <3>6 DEF ProxyStep
  <2>2. CASE UNCHANGED proxyVars
    BY <2>2 DEF proxyVars
  <2> QED
    BY <2>1, <2>2, EndpointFrame
<1> QED
  BY <1>1, <1>2, <1>3

--------------------------------------------------------------------------------
(***************************************************************************)
(* One INVITE and one BYE.                                                 *)
(***************************************************************************)
LEMMA OnePassed ==
  ASSUME NEW method, NEW state, One(method, state), NEW m \in net, NEW N,
         net' = (net \ {m}) \cup N,
         \A x \in N : x.method = method => m.method = method,
         \A x, y \in N : x.method = method /\ y.method = method => x = y,
         uac' = uac \/ uac # state \/ (m.method = method /\ \A x \in N : x.method # method)
  PROVE  One(method, state)'
  BY DEF One

\* The caller sends a request of its own when there is none under way.
LEMMA OnePosted ==
  ASSUME NEW method, NEW state, One(method, state), NEW o, net' = net \cup {o},
         \/ o.method = method /\ uac # state /\ uac' = state
         \/ o.method # method /\ (uac' = uac \/ uac # state)
  PROVE  One(method, state)'
  BY DEF One

\* Without duplicates a handler takes its message off the network.
LEMMA Taken ==
  ASSUME dups = 0, dups' = 0, NEW m, NEW N, Exchange(m, N)
  PROVE  m \in net /\ net' = (net \ {m}) \cup N
  BY DEF Exchange

\* A closed call is opened by an INVITE only.
LEMMA NotReopened ==
  ASSUME Types, [Next]_vars, dups = 0, dups' = 0, \A m \in net : m.method # "INVITE",
         NEW q \in Proxies, call[q].state # "open"
  PROVE  call'[q].state # "open"
<1> DEFINE G == call'[q].state # "open"
<1> HIDE DEF G
<1>0. call \in [Proxies -> [state : {"none", "open", "closed"}, removals : Nat]]
  BY DEF Types
<1>a. Closed(call[q]).state # "open"
  BY DEF Closed
<1>b. ASSUME NEW p \in Proxies, call' = call \/ call' = [call EXCEPT ![p] = Closed(@)] PROVE G
  BY <1>0, <1>a, <1>b DEF G
<1>1. ASSUME NEW p \in Proxies, ProxyStep(p) PROVE G
  <2>1. ASSUME NEW m \in net \cup invited, NEW n \in Routes(p), InviteForward(p, m, n) PROVE G
    <3>1. PICK N : Exchange(m, N)
      BY <2>1 DEF InviteForward
    <3>2. m \in net
      BY <3>1, Taken
    <3> QED
      BY <2>1, <3>2 DEF InviteForward, IsNew
  <2>2. ASSUME NEW m \in net \cup invited, InviteRefuse(p, m) PROVE G
    <3>1. PICK N : Exchange(m, N)
      BY <2>2 DEF InviteRefuse, ErrorResponse
    <3>2. m \in net
      BY <3>1, Taken
    <3> QED
      BY <2>2, <3>2 DEF InviteRefuse, IsNew
  <2>3. ASSUME NEW m \in net \cup invited, ByeForward(p, m) \/ ByeRefuse(p, m) PROVE G
    BY <1>1, <1>b, <2>3 DEF ByeForward, ByeRefuse
  <2>4. ASSUME NEW m \in net \cup invited, AckForward(p, m) \/ Absorb(p, m) PROVE G
    BY <1>1, <1>b, <2>4 DEF AckForward, Absorb
  <2>5. ASSUME NEW m \in net \cup invited, CancelHandler(p, m) PROVE G
    BY <1>1, <1>b, <2>5 DEF CancelHandler
  <2>6. ASSUME NEW m \in net \cup invited, ResponseHandler(p, m) PROVE G
    <3>1. PICK b \in BOOLEAN : call' = [call EXCEPT ![p] = IF b THEN Closed(@) ELSE @]
      BY <2>6 DEF ResponseHandler
    <3> QED
      BY <1>0, <1>a, <3>1 DEF G
  <2>7. ASSUME CallRemove(p) PROVE G
    BY <1>0, <2>7 DEF CallRemove, Removed, G
  <2> QED
    BY <1>1, <2>1, <2>2, <2>3, <2>4, <2>5, <2>6, <2>7 DEF ProxyStep
<1>2. CASE UNCHANGED proxyVars
  BY <1>2 DEF proxyVars, G
<1> QED
  BY <1>1, <1>2, EndpointFrame DEF G

\* What a proxy makes of a message.
Passes(p, m, N) ==
    /\ net' = (net \ {m}) \cup N
    /\ \A x \in N : x.method \in {"INVITE", "BYE"} => x.method = m.method
    /\ \A x, y \in N : x.method \in {"INVITE", "BYE"} /\ y.method \in {"INVITE", "BYE"} => x = y
    /\ \A x \in N : x.method = "BYE" /\ x.code = "ok" =>
         /\ ResponseHandler(p, m) /\ x \in Relayed(p, m)
         /\ call'[p].state # "open"

\* Without duplicates a proxy passes a message on, or an answer to it back.
LEMMA ProxyPasses ==
  ASSUME Types, CallerMade, InvitedInv, MessageInv, DialogInv, TransactionInv, [Next]_vars,
         NEW p \in Proxies, ProxyStep(p), dups = 0, dups' = 0
  PROVE  net' = net \/ \E m \in net : \E N : Passes(p, m, N)
<1> DEFINE G == net' = net \/ \E m \in net : \E N : Passes(p, m, N)
<1> HIDE DEF G
<1>a. ASSUME NEW m \in net \cup invited, NEW o, Exchange(m, {o}), o.method = m.method,
             ~(o.method = "BYE" /\ o.code = "ok")
      PROVE  G
  <2>1. PICK N : N = {o}
    OBVIOUS
  <2>2. m \in net /\ net' = (net \ {m}) \cup N
    BY <1>a, <2>1, Taken
  <2>3. Passes(p, m, N)
    BY <1>a, <2>1, <2>2 DEF Passes
  <2> QED
    BY <2>2, <2>3 DEF G
<1>b. ASSUME NEW m \in net \cup invited, NEW N, Exchange(m, N), \A x \in N : x.method \notin {"INVITE", "BYE"}
      PROVE  G
  <2>1. m \in net /\ net' = (net \ {m}) \cup N
    BY <1>b, Taken
  <2>2. Passes(p, m, N)
    BY <1>b, <2>1 DEF Passes
  <2> QED
    BY <2>1, <2>2 DEF G
<1>c. \A c \in cts[p], method \in {"ACK", "CANCEL"} : Derived(c.req, method).method = method
  <2> SUFFICES ASSUME NEW c \in cts[p], NEW method \in {"ACK", "CANCEL"}
               PROVE  Derived(c.req, method).method = method
    OBVIOUS
  <2>1. c.req \in Messages /\ method \in Methods
    BY DEF Types, Methods
  <2> QED
    BY <2>1, DerivedFacts
<1>1. ASSUME NEW m \in net \cup invited, NEW n \in Routes(p), InviteForward(p, m, n) PROVE G
  <2>1. PICK o : o = Forwarded(p, m, n, <<>>, <<SentBy(p)>> \o m.rr)
    OBVIOUS
  <2>2. PassedOn(p, m, o) /\ m.method = "INVITE" /\ Exchange(m, {o})
    BY <1>1, <2>1, InviteOut DEF InviteForward, IsNew
  <2>3. o.method = m.method /\ o.method # "BYE"
    BY <2>2 DEF PassedOn
  <2> QED
    BY <1>a, <2>2, <2>3
<1>2. ASSUME NEW m \in net \cup invited, InviteRefuse(p, m) \/ ByeRefuse(p, m) PROVE G
  <2>1. PICK code \in {"481", "483", "fail"} : ErrorResponse(p, m, code)
    BY <1>2 DEF InviteRefuse, ByeRefuse
  <2>2. PICK o : o = Response(m, code, <<>>, p)
    OBVIOUS
  <2>3. m \in Messages /\ code \in Codes /\ p \in Nodes
    BY Handled DEF Codes, Nodes
  <2>4. o.method = m.method /\ o.code # "ok"
    BY <2>2, <2>3, ReplyFacts
  <2>5. Exchange(m, {o})
    BY <2>1, <2>2 DEF ErrorResponse
  <2> QED
    BY <1>a, <2>4, <2>5
<1>3. ASSUME NEW m \in net \cup invited, ByeForward(p, m) PROVE G
  <2>1. PICK o : o = Forwarded(p, m, RouteTarget(m.route), RouteOffset(m.route), m.rr)
    OBVIOUS
  <2>2. o.method = m.method /\ o.code = "request"
    BY <1>3, <2>1, PassedOnPath DEF ByeForward, IsNew
  <2>3. Exchange(m, {o})
    BY <1>3, <2>1 DEF ByeForward
  <2> QED
    BY <1>a, <2>2, <2>3
<1>4. ASSUME NEW m \in net \cup invited, AckForward(p, m) PROVE G
  <2>1. PICK o : o = Forwarded(p, m, RouteTarget(m.route), RouteOffset(m.route), m.rr)
    OBVIOUS
  <2>2. CASE Decrement(m.mf)
    <3>1. o.method = m.method /\ m.method = "ACK"
      BY <1>4, <2>1, <2>2, PassedOnPath DEF AckForward, IsNew
    <3>2. Exchange(m, {o})
      BY <1>4, <2>1, <2>2 DEF AckForward
    <3> QED
      BY <1>a, <3>1, <3>2
  <2>3. CASE ~Decrement(m.mf)
    <3>1. Exchange(m, {})
      BY <1>4, <2>3 DEF AckForward
    <3> QED
      BY <1>b, <3>1
  <2> QED
    BY <2>2, <2>3
<1>5. ASSUME NEW m \in net \cup invited, CancelHandler(p, m) PROVE G
  <2> DEFINE key  == [ServerKey(m) EXCEPT !.method = "INVITE"]
             keys == {x.ct : x \in {y \in ctx[p] : y.st = key}}
             out  == {Derived(c.req, "CANCEL") : c \in {d \in cts[p] : d.key \in keys}}
  <2>1. m \in Messages /\ m.method = "CANCEL" /\ p \in Nodes
    BY <1>5, Handled DEF CancelHandler, IsNew, Nodes
  <2>2. \A o \in out : o.method = "CANCEL"
    BY <1>c
  <2>3. \A code \in {"ok", "481"} : Response(m, code, <<>>, p).method = "CANCEL"
    <3> SUFFICES ASSUME NEW code \in {"ok", "481"} PROVE Response(m, code, <<>>, p).method = "CANCEL"
      OBVIOUS
    <3>1. code \in Codes
      BY DEF Codes
    <3> QED
      BY <2>1, <3>1, ReplyFacts
  <2>4. \/ \E sent \in SUBSET out : Exchange(m, sent \cup {Response(m, "ok", <<>>, p)})
        \/ Exchange(m, {Response(m, "481", <<>>, p)})
    BY <1>5 DEF CancelHandler, ErrorResponse
  <2> HIDE DEF out
  <2>5. PICK N : Exchange(m, N) /\ \A x \in N : x.method = "CANCEL"
    BY <2>2, <2>3, <2>4
  <2> QED
    BY <1>b, <2>5
<1>6. ASSUME NEW m \in net \cup invited, Absorb(p, m) PROVE G
  <2>1. Exchange(m, {})
    BY <1>6 DEF Absorb
  <2> QED
    BY <1>b, <2>1
<1>7. ASSUME NEW m \in net \cup invited, ResponseHandler(p, m) PROVE G
  <2> DEFINE key   == ClientKey(m)
             tx    == {c \in cts[p] : c.key = key}
             acks  == IF m.method = "INVITE" /\ IsFailure(m.code)
                      THEN {Derived(c.req, "ACK") : c \in tx} ELSE {}
             bound == {x.st : x \in {y \in ctx[p] : y.ct = key}} \cap sts[p]
             open  == HasCall(p) /\ bound # {}
             up    == IF open /\ bound \cap done[p] = {} THEN Relayed(p, m) ELSE {}
  <2>1. Arrived(p, m) /\ m.code # "request" /\ Exchange(m, acks \cup up)
    BY <1>7 DEF ResponseHandler
  <2>2. /\ m \in net /\ m \in Messages
        /\ \A o \in Relayed(p, m) : o.method = m.method /\ o.code = m.code
        /\ \A o, x \in Relayed(p, m) : o = x
    BY <2>1, ResponseOut
  <2>3. PICK N : N = acks \cup up
    OBVIOUS
  <2>4. net' = (net \ {m}) \cup N
    BY <2>1, <2>3, Taken
  <2>5. \A x \in N : x \in Relayed(p, m) \/ x.method = "ACK"
    BY <1>c, <2>3
  <2>6. ASSUME NEW x \in N, x.method = "BYE", x.code = "ok" PROVE x \in Relayed(p, m) /\ call'[p].state # "open"
    <3>1. x \in up
      BY <1>c, <2>3, <2>6
    <3>2. open /\ x \in Relayed(p, m)
      BY <3>1
    <3>3. ClosesCall(m)
      BY <2>2, <2>6, <3>2 DEF ClosesCall
    <3>4. call' = [call EXCEPT ![p] = IF open /\ ClosesCall(m) THEN Closed(@) ELSE @]
      BY <1>7 DEF ResponseHandler
    <3> HIDE DEF open
    <3>5. call'[p] = Closed(call[p])
      BY <3>2, <3>3, <3>4 DEF Types
    <3> QED
      BY <3>2, <3>5 DEF Closed
  <2> HIDE DEF acks, up
  <2>7. Passes(p, m, N)
    BY <1>7, <2>2, <2>4, <2>5, <2>6 DEF Passes
  <2> QED
    BY <2>2, <2>7 DEF G
<1>8. ASSUME CallRemove(p) PROVE G
  BY <1>8 DEF CallRemove, G
<1> QED
  BY <1>1, <1>2, <1>3, <1>4, <1>5, <1>6, <1>7, <1>8 DEF ProxyStep, G

\* Without duplicates there is one INVITE and one BYE at any time.
LEMMA OneStep ==
  ASSUME Types, CallerMade, InvitedInv, MessageInv, DialogInv, TransactionInv, [Next]_vars,
         dups = 0, dups' = 0, One("INVITE", "calling"), One("BYE", "bye")
  PROVE  One("INVITE", "calling")' /\ One("BYE", "bye")'
<1> DEFINE G == One("INVITE", "calling")' /\ One("BYE", "bye")'
<1> HIDE DEF G
<1>a. ASSUME net' = net, uac' = uac PROVE G
  BY <1>a DEF One, G
<1>1. ASSUME NEW p \in Proxies, ProxyStep(p) PROVE G
  <2>1. uac' = uac
    BY <1>1, ProxyFrame DEF uacVars
  <2>2. CASE net' = net
    BY <1>a, <2>1, <2>2
  <2>3. CASE \E m \in net : \E N : Passes(p, m, N)
    <3>a. PICK m \in net : \E N : Passes(p, m, N)
      BY <2>3
    <3>1. PICK N : Passes(p, m, N)
      BY <3>a
    <3>2. /\ net' = (net \ {m}) \cup N
          /\ \A x \in N : x.method \in {"INVITE", "BYE"} => x.method = m.method
          /\ \A x, y \in N : x.method \in {"INVITE", "BYE"} /\ y.method \in {"INVITE", "BYE"} => x = y
      BY <3>1 DEF Passes
    <3>3. One("INVITE", "calling")'
      BY <2>1, <3>2, OnePassed
    <3>4. One("BYE", "bye")'
      BY <2>1, <3>2, OnePassed
    <3> QED
      BY <3>3, <3>4 DEF G
  <2>4. net' = net \/ \E m \in net : \E N : Passes(p, m, N)
    BY <1>1, ProxyPasses
  <2> QED
    BY <2>2, <2>3, <2>4
<1>2. ASSUME NEW f \in Forwards, UacInvite(f) PROVE G
  <2>1. PICK o : o = Request("INVITE", <<Via(Uac, 1)>>, f, <<>>, <<>>, <<>>, Uac, FirstHop)
    OBVIOUS
  <2>2. o.method = "INVITE"
    BY <2>1 DEF Request
  <2>3. net' = net \cup {o} /\ uac = "idle" /\ uac' = "calling"
    BY <1>2, <2>1 DEF UacInvite, Post
  <2>4. One("INVITE", "calling")' /\ One("BYE", "bye")'
    BY <2>2, <2>3, OnePosted
  <2> QED
    BY <2>4 DEF G
<1>3. ASSUME NEW f \in Forwards, UacBye(f) PROVE G
  <2>1. PICK o : o = Request("BYE", <<Via(Uac, made[Uac] + 1)>>, f, dialog.route, <<>>, dialog.path, Uac, FirstHop)
    OBVIOUS
  <2>2. o.method = "BYE"
    BY <2>1 DEF Request
  <2>3. net' = net \cup {o} /\ uac = "up" /\ uac' = "bye"
    BY <1>3, <2>1 DEF UacBye, Post
  <2>4. One("INVITE", "calling")' /\ One("BYE", "bye")'
    BY <2>2, <2>3, OnePosted
  <2> QED
    BY <2>4 DEF G
<1>4. ASSUME UacCancel PROVE G
  <2>1. PICK o : o = Request("CANCEL", <<Via(Uac, 1)>>, 1, <<>>, <<>>, <<>>, Uac, FirstHop)
    OBVIOUS
  <2>2. o.method = "CANCEL"
    BY <2>1 DEF Request
  <2>3. net' = net \cup {o} /\ uac' = uac
    BY <1>4, <2>1 DEF UacCancel, Post
  <2>4. One("INVITE", "calling")' /\ One("BYE", "bye")'
    BY <2>2, <2>3, OnePosted
  <2> QED
    BY <2>4 DEF G
<1>5. ASSUME NEW m \in net, NEW f \in Forwards, UacAnswer(m, f) PROVE G
  <2>1. PICK o : o.method = "ACK" /\ Exchange(m, {o})
    <3>1. \A via, mf, route, path : Request("ACK", via, mf, route, <<>>, path, Uac, FirstHop).method = "ACK"
      BY DEF Request
    <3>2. \/ Exchange(m, {Request("ACK", <<Via(Uac, made[Uac] + 1)>>, f, Reverse(m.rr), <<>>, m.path, Uac, FirstHop)})
          \/ Exchange(m, {Request("ACK", <<Via(Uac, 1)>>, 1, <<>>, <<>>, <<>>, Uac, FirstHop)})
      BY <1>5 DEF UacAnswer
    <3> QED
      BY <3>1, <3>2, Zenon
  <2>2. m.method = "INVITE" /\ uac = "calling"
    BY <1>5 DEF UacAnswer
  <2>3. PICK N : N = {o}
    OBVIOUS
  <2>4. net' = (net \ {m}) \cup N
    BY <2>1, <2>3, Taken
  <2>5. \A x \in N : x.method = "ACK"
    BY <2>1, <2>3
  <2>6. One("INVITE", "calling")'
    BY <2>2, <2>4, <2>5, OnePassed
  <2>7. One("BYE", "bye")'
    BY <2>2, <2>4, <2>5, OnePassed
  <2> QED
    BY <2>6, <2>7 DEF G
<1>6. ASSUME NEW m \in net, UacByeAnswer(m) PROVE G
  <2>1. PICK N : N = {}
    OBVIOUS
  <2>2. net' = (net \ {m}) \cup N /\ m.method = "BYE" /\ uac = "bye"
    BY <1>6, <2>1, Taken DEF UacByeAnswer
  <2>3. One("INVITE", "calling")'
    BY <2>1, <2>2, OnePassed
  <2>4. One("BYE", "bye")'
    BY <2>1, <2>2, OnePassed
  <2> QED
    BY <2>3, <2>4 DEF G
<1>7. ASSUME NEW m \in net, NEW c \in {"ringing", "ok", "fail"}, UasAnswer(m, c) PROVE G
  <2>1. PICK o : o = Response(m, c, Path(m.via), Uas)
    OBVIOUS
  <2>2. o.method = m.method
    BY <2>1 DEF Response, Types, Messages
  <2>3. PICK N : N = {o}
    OBVIOUS
  <2>4. net' = (net \ {m}) \cup N /\ uac' = uac
    BY <1>7, <2>1, <2>3 DEF UasAnswer, uacVars
  <2>5. \A x \in N : x.method = m.method
    BY <2>2, <2>3
  <2>6. \A x, y \in N : x = y
    BY <2>3
  <2>7. One("INVITE", "calling")'
    BY <2>4, <2>5, <2>6, OnePassed
  <2>8. One("BYE", "bye")'
    BY <2>4, <2>5, <2>6, OnePassed
  <2> QED
    BY <2>7, <2>8 DEF G
<1>8. ASSUME UNCHANGED vars PROVE G
  BY <1>a, <1>8 DEF vars
<1> QED
  BY <1>1, <1>2, <1>3, <1>4, <1>5, <1>6, <1>7, <1>8 DEF Next, G

\* A request of the dialog at the callee has passed the whole path.
LEMMA WholePath ==
  ASSUME Types, DialogInv, NEW m \in Messages, OnPath(m), m.to = Uas
  PROVE  Len(dialog.path) - Len(m.via) = 0
<1>1. PICK n \in Nat, k \in Nat : n = Len(dialog.path) /\ k = Len(m.via) /\ k >= 1 /\ k <= n
  <2>1. Len(dialog.path) \in Nat /\ Len(m.via) \in Nat /\ Len(m.via) >= 1
    BY NonEmpty DEF Types, Messages
  <2>2. Len(m.via) <= Len(dialog.path)
    BY DEF OnPath, PathSuffix
  <2> QED
    BY <2>1, <2>2
<1> SUFFICES ASSUME n - k # 0 PROVE FALSE
  BY <1>1
<1>2. m.to = IF n - k = 0 THEN Uas ELSE m.route[1]
  BY <1>1, Zenon DEF OnPath
<1>3. \A j \in 1..(n - k) : m.route[j] = dialog.path[n - k + 1 - j]
  BY <1>1, Zenon DEF OnPath
<1>4. 1 \in 1..(n - k) /\ n - k + 1 - 1 = n - k /\ n - k \in 1..(n - 1)
  <2>1. \A a, b \in Nat : b >= 1 /\ b <= a /\ a - b # 0 =>
          1 \in 1..(a - b) /\ a - b + 1 - 1 = a - b /\ a - b \in 1..(a - 1)
    OBVIOUS
  <2> QED
    BY <1>1, <2>1, Zenon
<1>5. m.route[1] = dialog.path[n - k]
  <2>1. m.route[1] = dialog.path[n - k + 1 - 1]
    BY <1>3, <1>4, Zenon
  <2> QED
    BY <1>4, <2>1, Zenon
<1>6. \A j \in 1..(n - 1) : dialog.path[j] \in Proxies
  BY <1>1, Zenon DEF OnPath, PathSuffix, DialogInv
<1>7. dialog.path[n - k] \in Proxies
  BY <1>4, <1>6, Zenon
<1> QED
  BY <1>2, <1>5, <1>7, NodesAssumption

\* The response to the BYE that the caller gets has passed it all, too.
LEMMA CallerBye ==
  ASSUME Types, DialogInv, NEW m \in Messages, PathSuffix(m), By(m.via[1]) = Uac
  PROVE  /\ Len(dialog.path) \in Nat /\ Len(dialog.path) - Len(m.via) = Len(dialog.path) - 1
         /\ dialog.path[Len(dialog.path)] = Uac
<1>1. PICK n \in Nat, k \in Nat : n = Len(dialog.path) /\ k = Len(m.via) /\ k >= 1 /\ k <= n
  <2>1. Len(dialog.path) \in Nat /\ Len(m.via) \in Nat /\ Len(m.via) >= 1
    BY NonEmpty DEF Types, Messages
  <2>2. Len(m.via) <= Len(dialog.path)
    BY DEF PathSuffix
  <2> QED
    BY <2>1, <2>2
<1>2. 1 \in 1..k
  BY <1>1
<1>3. By(m.via[1]) = dialog.path[n - k + 1]
  BY <1>1, <1>2, Zenon DEF PathSuffix
<1>4. \A j \in 1..(n - 1) : dialog.path[j] \in Proxies
  BY <1>1, Zenon DEF PathSuffix, DialogInv
<1>5. n - k + 1 \notin 1..(n - 1)
  BY <1>3, <1>4, NodesAssumption
<1>6. k = 1
  <2>1. \A a, b \in Nat : b >= 1 /\ b <= a /\ a - b + 1 \notin 1..(a - 1) => b = 1
    OBVIOUS
  <2> QED
    BY <1>1, <1>5, <2>1, Zenon
<1>7. dialog.path[n] = Uac
  BY <1>1, Zenon DEF PathSuffix, DialogInv
<1> QED
  BY <1>1, <1>6, <1>7, Zenon

\* The 200 of the BYE closes the call of each proxy as it leaves it.
LEMMA ClosedStep ==
  ASSUME Types, CallerMade, InvitedInv, MessageInv, DialogInv, TransactionInv, [Next]_vars,
         dups = 0, dups' = 0, One("INVITE", "calling"), One("BYE", "bye"), ClosedBehind
  PROVE  ClosedBehind'
<1> DEFINE Done(o) == \A j \in 1..(Len(dialog'.path) - Len(o.via)) :
                         dialog'.path[j] \in Proxies => call'[dialog'.path[j]].state # "open"
<1>a. ASSUME NEW m \in net, m.method = "BYE"
      PROVE  /\ m \in Messages /\ MessageOK(m) /\ dialog' = dialog
             /\ \A q \in Proxies : call[q].state # "open" => call'[q].state # "open"
  <2>1. uac = "bye" /\ \A x \in net : x.method # "INVITE"
    BY <1>a DEF One
  <2>2. dialog' = dialog
    BY <2>1, Grows DEF InDialog
  <2>3. \A q \in Proxies : call[q].state # "open" => call'[q].state # "open"
    BY <2>1, NotReopened
  <2>4. m \in Messages /\ MessageOK(m)
    BY DEF Types, MessageInv
  <2> QED
    BY <2>2, <2>3, <2>4
<1>b. ASSUME NEW m \in net, m.method = "BYE", m.code = "ok"
      PROVE  Done(m)
  <2>1. \A j \in 1..(Len(dialog.path) - Len(m.via)) :
          dialog.path[j] \in Proxies => call[dialog.path[j]].state # "open"
    BY <1>b DEF ClosedBehind
  <2>2. dialog' = dialog /\ \A q \in Proxies : call[q].state # "open" => call'[q].state # "open"
    BY <1>a, <1>b
  <2> QED
    BY <2>1, <2>2, Zenon
<1>1. SUFFICES ASSUME NEW o \in net', o \notin net, o.method = "BYE", o.code = "ok" PROVE Done(o)
  BY <1>b DEF ClosedBehind
<1> DEFINE G == Done(o)
<1> HIDE DEF G
<1>2. ASSUME NEW p \in Proxies, ProxyStep(p) PROVE G
  <2>a. PICK m \in net : \E N : Passes(p, m, N)
    <3>1. net' = net \/ \E x \in net : \E N : Passes(p, x, N)
      BY <1>2, ProxyPasses
    <3> QED
      BY <1>1, <3>1
  <2>1. PICK N : Passes(p, m, N)
    BY <2>a
  <2>2. o \in N
    BY <1>1, <2>1 DEF Passes
  <2>3. ResponseHandler(p, m) /\ o \in Relayed(p, m) /\ call'[p].state # "open"
    BY <1>1, <2>1, <2>2 DEF Passes
  <2>4. /\ By(m.via[1]) = p /\ Len(m.via) > 1 /\ o.via = Tail(m.via)
        /\ m.method = "BYE" /\ m.code = "ok"
    <3>1. Arrived(p, m) /\ m.code # "request" /\ m \in net \cup invited
      BY <2>3 DEF ResponseHandler
    <3> QED
      BY <1>1, <2>3, <3>1, ResponseOut
  <2>5. Done(m) /\ m \in Messages /\ MessageOK(m) /\ dialog' = dialog
    BY <1>a, <1>b, <2>4
  <2>6. PathSuffix(m)
    BY <2>4, <2>5 DEF MessageOK
  <2>7. PICK n \in Nat, k \in Nat : n = Len(dialog.path) /\ k = Len(m.via) /\ k > 1 /\ k <= n
    <3>1. Len(dialog.path) \in Nat /\ Len(m.via) \in Nat
      BY <2>5, NonEmpty DEF Types, Messages
    <3>2. Len(m.via) <= Len(dialog.path)
      BY <2>6 DEF PathSuffix
    <3> QED
      BY <2>4, <3>1, <3>2
  <2>8. Len(o.via) = k - 1
    BY <2>4, <2>5, <2>7, NonEmpty DEF Messages
  <2>9. dialog.path[n - k + 1] = p
    <3>1. 1 \in 1..k
      BY <2>7
    <3> QED
      BY <2>4, <2>6, <2>7, <3>1, Zenon DEF PathSuffix
  <2>10. \A j \in 1..(n - (k - 1)) : j \in 1..(n - k) \/ j = n - k + 1
    BY <2>7
  <2>11. \A j \in 1..(n - k) : dialog.path[j] \in Proxies => call'[dialog.path[j]].state # "open"
    BY <2>5, <2>7, Zenon
  <2>12. \A j \in 1..(n - (k - 1)) : dialog.path[j] \in Proxies => call'[dialog.path[j]].state # "open"
    BY <2>3, <2>9, <2>10, <2>11, Zenon
  <2> QED
    BY <2>5, <2>7, <2>8, <2>12, Zenon DEF G
<1>3. ASSUME NEW m \in net, NEW c \in {"ringing", "ok", "fail"}, UasAnswer(m, c) PROVE G
  <2>1. o = Response(m, c, Path(m.via), Uas)
    BY <1>1, <1>3 DEF UasAnswer
  <2>2. m \in Messages /\ m.to = Uas
    BY <1>3 DEF Types, UasAnswer
  <2>3. o.method = m.method /\ o.via = m.via
    BY <2>1, <2>2 DEF Response, Messages
  <2>4. MessageOK(m) /\ dialog' = dialog /\ m.method = "BYE"
    BY <1>1, <1>a, <2>3
  <2>5. m.code = "request"
    BY <2>2, CalleeGetsRequests
  <2>6. OnPath(m)
    BY <2>4, <2>5 DEF MessageOK
  <2>7. Len(dialog.path) - Len(m.via) = 0
    BY <2>2, <2>6, WholePath
  <2>8. 1..(Len(dialog'.path) - Len(o.via)) = {}
    <3>1. 1..0 = {}
      OBVIOUS
    <3> QED
      BY <2>3, <2>4, <2>7, <3>1, Zenon
  <2> QED
    BY <2>8 DEF G
<1>4. ASSUME NEW f \in Forwards, UacInvite(f) PROVE G
  BY <1>1, <1>4 DEF UacInvite, Post, Request
<1>5. ASSUME NEW f \in Forwards, UacBye(f) PROVE G
  BY <1>1, <1>5 DEF UacBye, Post, Request
<1>6. ASSUME UacCancel PROVE G
  BY <1>1, <1>6 DEF UacCancel, Post, Request
<1>7. ASSUME NEW m \in net, NEW f \in Forwards, UacAnswer(m, f) PROVE G
  <2>1. \A via, mf, route, path : Request("ACK", via, mf, route, <<>>, path, Uac, FirstHop).method = "ACK"
    BY DEF Request
  <2>2. \/ Exchange(m, {Request("ACK", <<Via(Uac, made[Uac] + 1)>>, f, Reverse(m.rr), <<>>, m.path, Uac, FirstHop)})
        \/ Exchange(m, {Request("ACK", <<Via(Uac, 1)>>, 1, <<>>, <<>>, <<>>, Uac, FirstHop)})
    BY <1>7 DEF UacAnswer
  <2>3. PICK x : x.method = "ACK" /\ Exchange(m, {x})
    BY <2>1, <2>2, Zenon
  <2> QED
    BY <1>1, <2>3 DEF Exchange
<1>8. ASSUME NEW m \in net, UacByeAnswer(m) PROVE G
  BY <1>1, <1>8 DEF UacByeAnswer, Exchange
<1>9. ASSUME UNCHANGED vars PROVE G
  BY <1>1, <1>9 DEF vars
<1> QED
  BY <1>2, <1>3, <1>4, <1>5, <1>6, <1>7, <1>8, <1>9 DEF Next, G

\* At first there is no message at all.
LEMMA InitToken == Init => TokenInv
  BY DEF Init, TokenInv, One, ClosedBehind, ByeClosesCalls

\* Without duplicates there is one message of each kind, and behind the 200 of
\* the BYE every call is closed.
LEMMA TokenStep ==
  ASSUME Types, CallerMade, InvitedInv, MessageInv, DialogInv, TransactionInv, TokenInv, [Next]_vars
  PROVE  TokenInv'
<1> SUFFICES ASSUME dups' = 0
             PROVE  (One("INVITE", "calling") /\ One("BYE", "bye") /\ ClosedBehind /\ ByeClosesCalls)'
  BY DEF TokenInv
<1>1. dups = 0
  BY Grows, BoundsAssumption DEF Types
<1>2. One("INVITE", "calling") /\ One("BYE", "bye") /\ ClosedBehind /\ ByeClosesCalls
  BY <1>1 DEF TokenInv
<1>3. One("INVITE", "calling")' /\ One("BYE", "bye")' /\ ClosedBehind'
  BY <1>1, <1>2, OneStep, ClosedStep
<1>4. ByeClosesCalls'
  <2>1. SUFFICES ASSUME uac' = "ended", NEW j \in DOMAIN dialog'.path, dialog'.path[j] \in Proxies
                 PROVE  call'[dialog'.path[j]].state # "open"
    BY DEF ByeClosesCalls
  <2>2. CASE uac = "ended"
    <3>1. dialog' = dialog
      BY <2>2, Grows DEF InDialog
    <3>2. call[dialog.path[j]].state # "open"
      BY <1>1, <1>2, <2>1, <2>2, <3>1 DEF ByeClosesCalls
    <3>3. \A m \in net : m.method # "INVITE"
      BY <1>2, <2>2 DEF One
    <3> QED
      BY <1>1, <2>1, <3>1, <3>2, <3>3, NotReopened
  <2>3. CASE uac # "ended"
    <3>1. PICK m \in net : UacByeAnswer(m) /\ m.code = "ok"
      <4>1. CASE \E p \in Proxies : ProxyStep(p)
        BY <2>1, <2>3, <4>1, ProxyFrame DEF uacVars
      <4>2. CASE \E f \in Forwards : UacInvite(f) \/ UacBye(f)
        BY <2>1, <4>2 DEF UacInvite, UacBye
      <4>3. CASE UacCancel
        BY <2>1, <2>3, <4>3 DEF UacCancel
      <4>4. CASE \E m \in net, f \in Forwards : UacAnswer(m, f)
        BY <2>1, <4>4 DEF UacAnswer
      <4>5. CASE \E m \in net : UacByeAnswer(m)
        BY <2>1, <4>5 DEF UacByeAnswer
      <4>6. CASE \E m \in net, c \in {"ringing", "ok", "fail"} : UasAnswer(m, c)
        BY <2>1, <2>3, <4>6 DEF UasAnswer, uacVars
      <4>7. CASE UNCHANGED vars
        BY <2>1, <2>3, <4>7 DEF vars
      <4> QED
        BY <4>1, <4>2, <4>3, <4>4, <4>5, <4>6, <4>7 DEF Next
    <3>2. m \in Messages /\ MessageOK(m) /\ m.method = "BYE" /\ m.to = Uac /\ UNCHANGED <<dialog, call>>
      BY <3>1 DEF Types, MessageInv, UacByeAnswer, proxyVars
    <3>3. PathSuffix(m) /\ By(m.via[1]) = Uac
      BY <3>1, <3>2 DEF MessageOK
    <3>4. PICK n \in Nat : n = Len(dialog.path) /\ Len(dialog.path) - Len(m.via) = n - 1 /\ dialog.path[n] = Uac
      BY <3>2, <3>3, CallerBye
    <3>5. \A i \in 1..(n - 1) : dialog.path[i] \in Proxies => call[dialog.path[i]].state # "open"
      BY <1>2, <3>1, <3>2, <3>4, Zenon DEF ClosedBehind
    <3>6. j \in 1..n
      BY <2>1, <3>2, <3>4 DEF Types
    <3>7. j \in 1..(n - 1) \/ j = n
      BY <3>6
    <3>8. dialog.path[j] \in Proxies /\ Uac \notin Proxies
      BY <2>1, <3>2, NodesAssumption
    <3> QED
      BY <3>2, <3>4, <3>5, <3>7, <3>8
  <2> QED
    BY <2>2, <2>3
<1> QED
  BY <1>3, <1>4

--------------------------------------------------------------------------------
(***************************************************************************)
(* The call states.                                                        *)
(***************************************************************************)
LEMMA InitCall == Init => CallInv
  BY DEF Init, CallInv, NoneClosed, ReadyInv, ByeNotRefused

\* Before the caller's INVITE nothing happens.
LEMMA IdleStep ==
  ASSUME Types, InvitedInv, CallInv, [Next]_vars, uac' = "idle"
  PROVE  net' = {} /\ NoneClosed'
<1>1. uac = "idle"
  <2>1. ASSUME NEW f \in Forwards, UacInvite(f) PROVE FALSE
    BY <2>1 DEF UacInvite
  <2>2. ASSUME NEW p \in Proxies, NEW m \in net \cup invited, NEW n \in Routes(p), InviteForward(p, m, n)
        PROVE  uac' = uac
    BY <2>2 DEF InviteForward, uacVars
  <2> QED
    BY <2>1, <2>2, InvitesElse
<1>2. net = {} /\ invited = {} /\ NoneClosed
  BY <1>1 DEF CallInv, InvitedInv
<1>3. ASSUME NEW p \in Proxies, ProxyStep(p) PROVE FALSE
  <2>1. CallRemove(p)
    BY <1>2, <1>3 DEF ProxyStep
  <2> QED
    BY <1>2, <2>1 DEF CallRemove, NoneClosed
<1>4. CASE \E f \in Forwards : UacInvite(f) \/ UacBye(f)
  BY <1>1, <1>4 DEF UacInvite, UacBye
<1>5. CASE UacCancel
  BY <1>1, <1>5 DEF UacCancel
<1>6. CASE UNCHANGED vars
  BY <1>2, <1>6 DEF vars, NoneClosed
<1> QED
  BY <1>2, <1>3, <1>4, <1>5, <1>6 DEF Next

\* A response is acknowledged, or relayed.
LEMMA ResponseNet ==
  ASSUME Types, NEW p \in Proxies, NEW m, ResponseHandler(p, m)
  PROVE  \E N : Exchange(m, N) /\ \A x \in N : x \in Relayed(p, m) \/ x.method = "ACK"
<1> DEFINE key   == ClientKey(m)
           tx    == {c \in cts[p] : c.key = key}
           acks  == IF m.method = "INVITE" /\ IsFailure(m.code)
                    THEN {Derived(c.req, "ACK") : c \in tx} ELSE {}
           bound == {x.st : x \in {y \in ctx[p] : y.ct = key}} \cap sts[p]
           open  == HasCall(p) /\ bound # {}
           up    == IF open /\ bound \cap done[p] = {} THEN Relayed(p, m) ELSE {}
<1>1. Exchange(m, acks \cup up)
  BY DEF ResponseHandler
<1>2. \A c \in cts[p] : Derived(c.req, "ACK").method = "ACK"
  <2> SUFFICES ASSUME NEW c \in cts[p] PROVE Derived(c.req, "ACK").method = "ACK"
    OBVIOUS
  <2>1. c.req \in Messages /\ "ACK" \in Methods
    BY DEF Types, Methods
  <2> QED
    BY <2>1, DerivedFacts
<1>3. \A x \in acks \cup up : x \in Relayed(p, m) \/ x.method = "ACK"
  BY <1>2
<1> HIDE DEF acks, up
<1> QED
  BY <1>1, <1>3

\* Every CANCEL goes back to the caller's.
LEMMA CancelsStep ==
  ASSUME Types, CallerMade, InvitedInv, MessageInv, DialogInv, TransactionInv, CallInv, [Next]_vars,
         NEW o \in net', o.method = "CANCEL"
  PROVE  cancelled'
<1> DEFINE G == cancelled'
<1> HIDE DEF G
<1>a. ASSUME cancelled PROVE G
  BY <1>a, Grows DEF G
<1>b. ASSUME NEW m \in net, m.method = "CANCEL" PROVE G
  BY <1>a, <1>b DEF CallInv
<1>c. ASSUME NEW m, NEW N, Exchange(m, N), \A x \in N : x.method # "CANCEL" PROVE G
  BY <1>b, <1>c DEF Exchange
<1>1. ASSUME NEW p \in Proxies, ProxyStep(p) PROVE G
  <2>1. ASSUME NEW m \in net \cup invited, NEW n \in Routes(p), InviteForward(p, m, n) PROVE G
    <3>1. PICK x : x = Forwarded(p, m, n, <<>>, <<SentBy(p)>> \o m.rr)
      OBVIOUS
    <3>2. PassedOn(p, m, x) /\ m.method = "INVITE" /\ Exchange(m, {x})
      BY <1>1, <2>1, <3>1, InviteOut DEF InviteForward, IsNew
    <3>3. x.method # "CANCEL"
      BY <3>2 DEF PassedOn
    <3> QED
      BY <1>c, <3>2, <3>3
  <2>2. ASSUME NEW m \in net \cup invited, InviteRefuse(p, m) \/ ByeRefuse(p, m) PROVE G
    <3>1. PICK code \in {"481", "483", "fail"} : ErrorResponse(p, m, code) /\ m.method # "CANCEL"
      BY <2>2 DEF InviteRefuse, ByeRefuse, IsNew
    <3>2. PICK x : x = Response(m, code, <<>>, p)
      OBVIOUS
    <3>3. m \in Messages /\ code \in Codes /\ p \in Nodes
      BY <1>1, Handled DEF Codes, Nodes
    <3>4. x.method # "CANCEL"
      BY <3>1, <3>2, <3>3, ReplyFacts
    <3>5. Exchange(m, {x})
      BY <3>1, <3>2 DEF ErrorResponse
    <3> QED
      BY <1>c, <3>4, <3>5
  <2>3. ASSUME NEW m \in net \cup invited, ByeForward(p, m) PROVE G
    <3>1. PICK x : x = Forwarded(p, m, RouteTarget(m.route), RouteOffset(m.route), m.rr)
      OBVIOUS
    <3>2. x.method = "BYE" /\ Exchange(m, {x})
      BY <1>1, <2>3, <3>1, PassedOnPath DEF ByeForward
    <3> QED
      BY <1>c, <3>2
  <2>4. ASSUME NEW m \in net \cup invited, AckForward(p, m) PROVE G
    <3>1. PICK x : x = Forwarded(p, m, RouteTarget(m.route), RouteOffset(m.route), m.rr)
      OBVIOUS
    <3>2. CASE Decrement(m.mf)
      <4>1. x.method = "ACK" /\ Exchange(m, {x})
        BY <1>1, <2>4, <3>1, <3>2, PassedOnPath DEF AckForward
      <4> QED
        BY <1>c, <4>1
    <3>3. CASE ~Decrement(m.mf)
      <4>1. Exchange(m, {})
        BY <2>4, <3>3 DEF AckForward
      <4> QED
        BY <1>c, <4>1
    <3> QED
      BY <3>2, <3>3
  <2>5. ASSUME NEW m \in net \cup invited, CancelHandler(p, m) PROVE G
    <3>1. m \in net /\ m.method = "CANCEL"
      BY <1>1, <2>5, NewRequest DEF CancelHandler, Methods
    <3> QED
      BY <1>b, <3>1
  <2>6. ASSUME NEW m \in net \cup invited, Absorb(p, m) PROVE G
    <3>1. Exchange(m, {})
      BY <2>6 DEF Absorb
    <3> QED
      BY <1>c, <3>1
  <2>7. ASSUME NEW m \in net \cup invited, ResponseHandler(p, m) PROVE G
    <3>1. PICK N : Exchange(m, N) /\ \A x \in N : x \in Relayed(p, m) \/ x.method = "ACK"
      BY <1>1, <2>7, ResponseNet
    <3>2. \A x \in Relayed(p, m) : x.method \in {"INVITE", "BYE"}
      BY <1>1, <2>7, ResponseOut DEF ResponseHandler
    <3> QED
      BY <1>c, <3>1, <3>2
  <2>8. ASSUME CallRemove(p) PROVE G
    BY <1>b, <2>8 DEF CallRemove
  <2> QED
    BY <1>1, <2>1, <2>2, <2>3, <2>4, <2>5, <2>6, <2>7, <2>8 DEF ProxyStep
<1>2. ASSUME NEW f \in Forwards, UacInvite(f) \/ UacBye(f) PROVE G
  BY <1>b, <1>2 DEF UacInvite, UacBye, Post, Request
<1>3. ASSUME UacCancel PROVE G
  BY <1>3 DEF UacCancel, G
<1>4. ASSUME NEW m \in net, NEW f \in Forwards, UacAnswer(m, f) PROVE G
  <2>1. \A via, mf, route, path : Request("ACK", via, mf, route, <<>>, path, Uac, FirstHop).method = "ACK"
    BY DEF Request
  <2>2. \/ Exchange(m, {Request("ACK", <<Via(Uac, made[Uac] + 1)>>, f, Reverse(m.rr), <<>>, m.path, Uac, FirstHop)})
        \/ Exchange(m, {Request("ACK", <<Via(Uac, 1)>>, 1, <<>>, <<>>, <<>>, Uac, FirstHop)})
    BY <1>4 DEF UacAnswer
  <2>3. PICK x : x.method = "ACK" /\ Exchange(m, {x})
    BY <2>1, <2>2, Zenon
  <2> QED
    BY <1>c, <2>3
<1>5. ASSUME NEW m \in net, UacByeAnswer(m) PROVE G
  BY <1>b, <1>5 DEF UacByeAnswer, Exchange
<1>6. ASSUME NEW m \in net, NEW c \in {"ringing", "ok", "fail"}, UasAnswer(m, c) PROVE G
  <2>1. PICK x : x = Response(m, c, Path(m.via), Uas)
    OBVIOUS
  <2>2. x.method = m.method
    BY <2>1 DEF Response, Types, Messages
  <2>3. net' = (net \ {m}) \cup {x}
    BY <1>6, <2>1 DEF UasAnswer
  <2> QED
    BY <1>b, <2>2, <2>3
<1>7. ASSUME UNCHANGED vars PROVE G
  BY <1>b, <1>7 DEF vars
<1> QED
  BY <1>1, <1>2, <1>3, <1>4, <1>5, <1>6, <1>7 DEF Next, G

\* A step that leaves the calls alone needs a look at the new messages only.
LEMMA ReadyStays ==
  ASSUME ReadyInv, ByeNotRefused, ~cancelled, dups = 0,
         UNCHANGED <<call, uac, dialog>>, NEW N, net' \subseteq net \cup N,
         \A x \in N :
            /\ x.method = "INVITE" /\ ~IsFailure(x.code) =>
                 NoneClosed /\ Open(Path(x.via)) /\ (x.code = "ok" => Open(x.path))
            /\ x.method = "BYE" /\ x.code = "request" => NoneClosed /\ Open(dialog.path)
            /\ ~(x.method = "BYE" /\ x.code = "481")
  PROVE  ReadyInv' /\ ByeNotRefused'
<1>1. NoneClosed' = NoneClosed
  BY DEF NoneClosed
<1>2. \A path : Open(path)' = Open(path)
  BY DEF Open
<1>3. \A x \in net' :
         /\ x.method = "INVITE" /\ ~IsFailure(x.code) =>
              NoneClosed /\ Open(Path(x.via)) /\ (x.code = "ok" => Open(x.path))
         /\ x.method = "BYE" /\ x.code = "request" => NoneClosed /\ Open(dialog.path)
         /\ ~(x.method = "BYE" /\ x.code = "481")
  BY DEF ReadyInv, ByeNotRefused
<1>4. ByeNotRefused'
  BY <1>3 DEF ByeNotRefused
<1>6. Open(dialog.path)' = Open(dialog.path)
  BY DEF Open
<1>7. ReadyInv'
  BY <1>1, <1>2, <1>3, <1>6 DEF ReadyInv, Open, Path, NoneClosed
<1> QED
  BY <1>4, <1>7

\* A step after which the call has failed, or its end is on the way back.
LEMMA ReadyOver ==
  ASSUME uac' # "up",
         \A x \in net' : x.method = "INVITE" => IsFailure(x.code),
         \A x \in net' : x.method = "BYE" => x.code # "request" /\ x.code # "481"
  PROVE  ReadyInv' /\ ByeNotRefused'
  BY DEF ReadyInv, ByeNotRefused

\* The INVITE opens the call at one proxy more.
LEMMA OpenedOneMore ==
  ASSUME Types, NEW p \in Proxies, NEW m \in Messages, NEW out, PassedOn(p, m, out), made[p] \in Nat,
         NoneClosed, Open(Path(m.via)), call' = [call EXCEPT ![p] = Opened(@)]
  PROVE  NoneClosed' /\ Open(Path(out.via))'
<1>0. call \in [Proxies -> [state : {"none", "open", "closed"}, removals : Nat]] /\ p \in Nodes
  BY DEF Types, Nodes
<1>1. \A q \in Proxies : call'[q] = IF q = p THEN Opened(call[p]) ELSE call[q]
  BY <1>0
<1>2. Opened(call[p]).state = "open" /\ Opened(call[p]).removals = call[p].removals
  BY <1>0 DEF Opened
<1>3. NoneClosed'
  BY <1>1, <1>2 DEF NoneClosed
<1>4. m.via \in Seq(Vias) \ {<<>>} /\ out.via \in Seq(Vias) /\ m.via \in Seq(Vias)
  BY DEF PassedOn, Messages
<1>5. PICK k \in Nat : k = Len(m.via) /\ k >= 1 /\ Len(out.via) = k + 1
  BY <1>4, NonEmpty DEF PassedOn
<1>6. /\ Len(Path(m.via)) = k /\ \A j \in 1..k : Path(m.via)[j] = By(m.via[j])
      /\ Len(Path(out.via)) = k + 1 /\ \A j \in 1..(k + 1) : Path(out.via)[j] = By(out.via[j])
  BY <1>4, <1>5, PathFacts
<1>7. By(out.via[1]) = p
  BY <1>0, ViaFacts DEF PassedOn
<1>8. By(out.via[2]) = By(m.via[1])
  <2>1. m.via[1] \in Vias
    BY <1>4, NonEmpty
  <2> QED
    BY <2>1 DEF PassedOn, Marked, By, Vias
<1>9. \A j \in 2..k : By(out.via[j + 1]) = By(m.via[j])
  BY <1>5 DEF PassedOn
<1>10. \A j \in 1..(k + 1) : Path(out.via)[j] = p \/ \E i \in 1..k : Path(out.via)[j] = Path(m.via)[i]
  <2> SUFFICES ASSUME NEW j \in 1..(k + 1) PROVE Path(out.via)[j] = p \/ \E i \in 1..k : Path(out.via)[j] = Path(m.via)[i]
    OBVIOUS
  <2>1. CASE j = 1
    BY <1>6, <1>7, <2>1
  <2>2. CASE j = 2
    <3>1. 1 \in 1..k
      BY <1>5
    <3> QED
      BY <1>6, <1>8, <2>2, <3>1
  <2>3. CASE j # 1 /\ j # 2
    <3>1. j - 1 \in 2..k /\ j - 1 \in 1..k /\ (j - 1) + 1 = j
      BY <1>5, <2>3
    <3> QED
      BY <1>6, <1>9, <3>1
  <2> QED
    BY <2>1, <2>2, <2>3
<1>11. \A i \in 1..k : Path(m.via)[i] \in Proxies => call[Path(m.via)[i]].state = "open"
  BY <1>6 DEF Open
<1>12. \A j \in 1..(k + 1) : Path(out.via)[j] \in Proxies => call'[Path(out.via)[j]].state = "open"
  BY <1>1, <1>2, <1>10, <1>11
<1>13. Open(Path(out.via))'
  <2>1. PICK path : path = Path(out.via)
    OBVIOUS
  <2>3. \A j \in 1..Len(path) : path[j] \in Proxies => call'[path[j]].state = "open"
    BY <1>6, <1>12, <2>1
  <2> QED
    BY <2>1, <2>3 DEF Open, Path
<1> QED
  BY <1>3, <1>13

\* A proxy that passes on an INVITE, a 200 or a BYE leaves the calls open.
LEMMA ProxyReady ==
  ASSUME Types, CallerMade, InvitedInv, MessageInv, DialogInv, TransactionInv, [Next]_vars,
         One("INVITE", "calling"), One("BYE", "bye"), One("INVITE", "calling")', One("BYE", "bye")',
         \A m \in net : m.method # "CANCEL",
         ReadyInv, ByeNotRefused, ~cancelled, dups = 0, dups' = 0,
         NEW p \in Proxies, ProxyStep(p)
  PROVE  ReadyInv' /\ ByeNotRefused'
<1> DEFINE G == ReadyInv' /\ ByeNotRefused'
<1> HIDE DEF G
<1>0. uac' = uac /\ dialog' = dialog /\ made[p] \in Nat /\ p \in Nodes
  BY ProxyFrame, BoundsAssumption DEF uacVars, Types, Nodes
<1>a. ASSUME NEW m \in net, m.method = "INVITE"
      PROVE  /\ uac' = "calling" /\ \A x \in net' : x.method # "BYE"
             /\ \A x \in net \ {m} : x.method # "INVITE"
  BY <1>0, <1>a DEF One
<1>b. ASSUME NEW m \in net, m.method = "BYE"
      PROVE  /\ uac' = "bye" /\ \A x \in net' : x.method # "INVITE"
             /\ \A x \in net \ {m} : x.method # "BYE"
  BY <1>0, <1>b DEF One
<1>1. ASSUME NEW m \in net \cup invited, NEW n \in Routes(p), InviteForward(p, m, n) PROVE G
  <2>1. PICK o : o = Forwarded(p, m, n, <<>>, <<SentBy(p)>> \o m.rr)
    OBVIOUS
  <2>2. PassedOn(p, m, o) /\ m.method = "INVITE" /\ m.code = "request" /\ Exchange(m, {o}) /\ m \in Messages
    BY <1>1, <2>1, InviteOut, Handled DEF InviteForward, IsNew
  <2>3. m \in net /\ net' = (net \ {m}) \cup {o}
    BY <2>2, Taken
  <2>4. NoneClosed /\ Open(Path(m.via))
    BY <2>2, <2>3 DEF ReadyInv, IsFailure
  <2>5. call' = [call EXCEPT ![p] = Opened(@)]
    BY <1>1 DEF InviteForward
  <2>6. NoneClosed' /\ Open(Path(o.via))'
    BY <1>0, <2>2, <2>4, <2>5, OpenedOneMore
  <2>7. o.code = "request"
    BY <2>2 DEF PassedOn
  <2>8. uac' = "calling" /\ \A x \in net' : x.method # "BYE" /\ (x.method = "INVITE" => x = o)
    BY <1>a, <2>2, <2>3
  <2>9. ByeNotRefused'
    BY <2>8 DEF ByeNotRefused
  <2>10. ReadyInv'
    BY <2>6, <2>7, <2>8 DEF ReadyInv
  <2> QED
    BY <2>9, <2>10 DEF G
<1>2. ASSUME NEW m \in net \cup invited, InviteRefuse(p, m) PROVE G
  <2>1. PICK code \in {"481", "483", "fail"} : ErrorResponse(p, m, code) /\ m.method = "INVITE"
    BY <1>2 DEF InviteRefuse, IsNew
  <2>2. PICK o : o = Response(m, code, <<>>, p)
    OBVIOUS
  <2>3. m \in Messages /\ code \in Codes
    BY Handled DEF Codes
  <2>4. o.code = code
    BY <1>0, <2>2, <2>3, ReplyFacts
  <2>5. IsFailure(o.code)
    BY <2>4 DEF IsFailure
  <2>6. m \in net /\ net' = (net \ {m}) \cup {o}
    BY <2>1, <2>2, Taken DEF ErrorResponse
  <2>7. uac' = "calling" /\ \A x \in net' : x.method # "BYE" /\ (x.method = "INVITE" => x = o)
    BY <1>a, <2>1, <2>6
  <2> QED
    BY <2>5, <2>7, ReadyOver DEF G
<1>3. ASSUME NEW m \in net \cup invited, ByeForward(p, m) PROVE G
  <2>1. PICK o : o = Forwarded(p, m, RouteTarget(m.route), RouteOffset(m.route), m.rr)
    OBVIOUS
  <2>2. o.method = "BYE" /\ o.code = "request" /\ Exchange(m, {o})
    BY <1>3, <2>1, PassedOnPath DEF ByeForward
  <2>3. m \in net /\ net' = (net \ {m}) \cup {o}
    BY <2>2, Taken
  <2>4. NoneClosed /\ Open(dialog.path)
    BY <1>3, <2>3 DEF ByeForward, IsNew, ReadyInv
  <2>5. PICK N : N = {o}
    OBVIOUS
  <2>6. net' \subseteq net \cup N /\ \A x \in N : x.method = "BYE" /\ x.code = "request"
    BY <2>2, <2>3, <2>5
  <2>7. UNCHANGED <<call, uac, dialog>>
    BY <1>0, <1>3 DEF ByeForward
  <2> QED
    BY <2>4, <2>6, <2>7, ReadyStays DEF G
<1>4. ASSUME NEW m \in net \cup invited, ByeRefuse(p, m) PROVE G
  <2>1. /\ m \in Messages /\ m.to = p /\ m.code = "request" /\ m.method = "BYE" /\ OnPath(m)
        /\ ErrorResponse(p, m, IF HasCall(p) THEN "483" ELSE "481")
    BY <1>4, NewRequest DEF ByeRefuse, Methods
  <2>2. m \in net
    BY <2>1, Taken DEF ErrorResponse
  <2>3. Open(dialog.path)
    BY <2>1, <2>2 DEF ReadyInv
  <2>4. PICK left : left = Len(dialog.path) - Len(m.via)
    OBVIOUS
  <2>5. left \in 1..Len(dialog.path) /\ dialog.path[left] = p
    BY <2>1, <2>4, PlaceOnPath
  <2>6. HasCall(p)
    BY <2>3, <2>5 DEF Open, HasCall
  <2>7. PICK o : o = Response(m, "483", <<>>, p)
    OBVIOUS
  <2>8. o.code = "483" /\ o.method = "BYE"
    <3>1. "483" \in Codes
      BY DEF Codes
    <3> QED
      BY <1>0, <2>1, <2>7, <3>1, ReplyFacts
  <2>9. net' = (net \ {m}) \cup {o}
    BY <2>1, <2>6, <2>7, Taken DEF ErrorResponse
  <2>10. uac' = "bye" /\ \A x \in net' : x.method # "INVITE" /\ (x.method = "BYE" => x = o)
    BY <1>b, <2>1, <2>2, <2>9
  <2> QED
    BY <2>8, <2>10, ReadyOver DEF G
<1>5. ASSUME NEW m \in net \cup invited, AckForward(p, m) \/ Absorb(p, m) PROVE G
  <2>1. PICK N : Exchange(m, N) /\ \A x \in N : x.method = "ACK"
    <3>1. PICK o : o = Forwarded(p, m, RouteTarget(m.route), RouteOffset(m.route), m.rr)
      OBVIOUS
    <3>2. CASE AckForward(p, m) /\ Decrement(m.mf)
      <4>1. o.method = "ACK" /\ Exchange(m, {o})
        BY <3>1, <3>2, PassedOnPath DEF AckForward
      <4> QED
        BY <4>1
    <3>3. CASE ~(AckForward(p, m) /\ Decrement(m.mf))
      <4>1. Exchange(m, {})
        BY <1>5, <3>3 DEF AckForward, Absorb
      <4> QED
        BY <4>1
    <3> QED
      BY <3>2, <3>3
  <2>2. net' \subseteq net \cup N
    BY <2>1 DEF Exchange
  <2>3. UNCHANGED <<call, uac, dialog>>
    BY <1>0, <1>5 DEF AckForward, Absorb
  <2> QED
    BY <2>1, <2>2, <2>3, ReadyStays DEF G
<1>6. ASSUME NEW m \in net \cup invited, CancelHandler(p, m) PROVE G
  <2>1. m \in net /\ m.method = "CANCEL"
    BY <1>6, NewRequest DEF CancelHandler, Methods
  <2> QED
    BY <2>1
<1>7. ASSUME NEW m \in net \cup invited, ResponseHandler(p, m) PROVE G
  <2>1. PICK N : Exchange(m, N) /\ \A x \in N : x \in Relayed(p, m) \/ x.method = "ACK"
    BY <1>7, ResponseNet
  <2>2. /\ m \in net /\ m \in Messages /\ m.code # "request" /\ m.method \in {"INVITE", "CANCEL", "BYE"}
        /\ \A o \in Relayed(p, m) : /\ Len(m.via) > 1
                                    /\ o.method = m.method /\ o.code = m.code /\ o.path = m.path
                                    /\ o.via = Tail(m.via)
    BY <1>7, ResponseOut DEF ResponseHandler
  <2>3. net' = (net \ {m}) \cup N
    BY <2>1, Taken
  <2>4. CASE m.method = "INVITE" /\ IsFailure(m.code)
    <3>1. uac' = "calling" /\ \A x \in net' : x.method # "BYE" /\ (x.method = "INVITE" => x \in Relayed(p, m))
      BY <1>a, <2>1, <2>2, <2>3, <2>4
    <3> QED
      BY <2>2, <2>4, <3>1, ReadyOver DEF G
  <2>5. CASE m.method = "BYE"
    <3>1. uac' = "bye" /\ \A x \in net' : x.method # "INVITE" /\ (x.method = "BYE" => x \in Relayed(p, m))
      BY <1>b, <2>1, <2>2, <2>3, <2>5
    <3>2. m.code # "481"
      BY <2>2, <2>5 DEF ByeNotRefused
    <3> QED
      BY <2>2, <3>1, <3>2, ReadyOver DEF G
  <2>6. CASE m.method = "INVITE" /\ ~IsFailure(m.code)
    <3>1. ~ClosesCall(m)
      BY <2>6 DEF ClosesCall
    <3>2. PICK b \in BOOLEAN : call' = [call EXCEPT ![p] = IF b /\ ClosesCall(m) THEN Closed(@) ELSE @]
      BY <1>7 DEF ResponseHandler
    <3>3. UNCHANGED <<call, uac, dialog>>
      BY <1>0, <3>1, <3>2 DEF Types
    <3>4. NoneClosed /\ Open(Path(m.via)) /\ (m.code = "ok" => Open(m.path))
      BY <2>2, <2>6 DEF ReadyInv
    <3>5. Len(m.via) > 1 => Open(Path(Tail(m.via)))
      <4> SUFFICES ASSUME Len(m.via) > 1 PROVE Open(Path(Tail(m.via)))
        OBVIOUS
      <4>1. m.via \in Seq(Vias) \ {<<>>} /\ m.via \in Seq(Vias)
        BY <2>2 DEF Messages
      <4>2. PICK k \in Nat : k = Len(m.via)
        BY <4>1
      <4>3. Tail(m.via) \in Seq(Vias) /\ Len(Tail(m.via)) = k - 1 /\ \A j \in 1..(k - 1) : Tail(m.via)[j] = m.via[j + 1]
        BY <4>1, <4>2, NonEmpty
      <4>4. /\ Len(Path(Tail(m.via))) = k - 1
            /\ \A j \in 1..(k - 1) : Path(Tail(m.via))[j] = By(Tail(m.via)[j])
        BY <4>3, PathFacts
      <4>5. Len(Path(m.via)) = k /\ \A j \in 1..k : Path(m.via)[j] = By(m.via[j])
        BY <4>1, <4>2, PathFacts
      <4>6. \A j \in 1..(k - 1) : j + 1 \in 1..k
        OBVIOUS
      <4>7. \A j \in 1..(k - 1) : Path(Tail(m.via))[j] = Path(m.via)[j + 1]
        BY <4>3, <4>4, <4>5, <4>6, Zenon
      <4>8. \A j \in 1..k : Path(m.via)[j] \in Proxies => call[Path(m.via)[j]].state = "open"
        BY <3>4, <4>5, Zenon DEF Open
      <4>9. \A j \in 1..(k - 1) : Path(Tail(m.via))[j] \in Proxies => call[Path(Tail(m.via))[j]].state = "open"
        BY <4>6, <4>7, <4>8, Zenon
      <4> QED
        BY <4>4, <4>9, Zenon DEF Open
    <3>6. \A x \in N :
            /\ x.method = "INVITE" /\ ~IsFailure(x.code) =>
                 NoneClosed /\ Open(Path(x.via)) /\ (x.code = "ok" => Open(x.path))
            /\ x.method # "BYE"
      <4> SUFFICES ASSUME NEW x \in Relayed(p, m)
                   PROVE  NoneClosed /\ Open(Path(x.via)) /\ (x.code = "ok" => Open(x.path))
        BY <2>1, <2>2, <2>6
      <4>1. x.via = Tail(m.via) /\ x.code = m.code /\ x.path = m.path /\ Len(m.via) > 1
        BY <2>2
      <4> QED
        BY <3>4, <3>5, <4>1
    <3>7. net' \subseteq net \cup N
      BY <2>3
    <3> QED
      BY <3>3, <3>6, <3>7, ReadyStays DEF G
  <2> QED
    BY <2>2, <2>4, <2>5, <2>6
<1>8. ASSUME CallRemove(p) PROVE G
  <2>1. ~NoneClosed /\ net' = net
    BY <1>8 DEF CallRemove, NoneClosed
  <2>2. /\ \A m \in net : m.method = "INVITE" => IsFailure(m.code)
        /\ uac # "up"
        /\ \A m \in net : m.method = "BYE" => m.code # "request" /\ m.code # "481"
    BY <2>1 DEF ReadyInv, ByeNotRefused
  <2> QED
    BY <1>0, <2>1, <2>2, ReadyOver DEF G
<1> QED
  BY <1>1, <1>2, <1>3, <1>4, <1>5, <1>6, <1>7, <1>8 DEF ProxyStep, G

\* The calls stay open until a failure or a BYE, and the BYE is not refused.
LEMMA ReadyStep ==
  ASSUME Types, CallerMade, InvitedInv, MessageInv, DialogInv, TransactionInv, CallInv, [Next]_vars,
         One("INVITE", "calling"), One("BYE", "bye"), One("INVITE", "calling")', One("BYE", "bye")',
         ~cancelled, ~cancelled', dups = 0, dups' = 0
  PROVE  ReadyInv' /\ ByeNotRefused'
<1> DEFINE G == ReadyInv' /\ ByeNotRefused'
<1> HIDE DEF G
<1>0. ReadyInv /\ ByeNotRefused /\ \A m \in net : m.method # "CANCEL"
  BY DEF CallInv
<1>1. ASSUME NEW p \in Proxies, ProxyStep(p) PROVE G
  BY <1>0, <1>1, ProxyReady DEF G
<1>2. ASSUME NEW f \in Forwards, UacInvite(f) PROVE G
  <2>1. PICK o : o = Request("INVITE", <<Via(Uac, 1)>>, f, <<>>, <<>>, <<>>, Uac, FirstHop)
    OBVIOUS
  <2>2. o.method = "INVITE" /\ o.code = "request" /\ o.via = <<Via(Uac, 1)>>
    BY <2>1 DEF Request
  <2>3. net = {} /\ NoneClosed /\ net' = {o} /\ uac' = "calling" /\ call' = call
    BY <1>2, <2>1 DEF UacInvite, Post, CallInv, proxyVars
  <2>4. NoneClosed'
    BY <2>3 DEF NoneClosed
  <2>5. Open(Path(o.via))'
    <3>1. Uac \in Nodes /\ Uac \notin Proxies /\ 1 \in Nat
      BY NodesAssumption DEF Nodes
    <3>2. Via(Uac, 1) \in Vias /\ By(Via(Uac, 1)) = Uac
      BY <3>1, ViaFacts
    <3>3. o.via \in Seq(Vias) /\ Len(o.via) = 1 /\ o.via[1] = Via(Uac, 1)
      BY <2>2, <3>2
    <3>4. Len(Path(o.via)) = 1 /\ Path(o.via)[1] = Uac
      <4>1. Len(Path(o.via)) = Len(o.via) /\ \A j \in 1..Len(o.via) : Path(o.via)[j] = By(o.via[j])
        BY <3>3, PathFacts
      <4> QED
        BY <3>2, <3>3, <4>1
    <3>5. PICK path : path = Path(o.via)
      OBVIOUS
    <3>6. \A j \in 1..Len(path) : path[j] \notin Proxies
      BY <3>1, <3>4, <3>5
    <3> QED
      BY <3>5, <3>6 DEF Open, Path
  <2>6. ByeNotRefused'
    BY <2>2, <2>3 DEF ByeNotRefused
  <2>7. ReadyInv'
    BY <2>2, <2>3, <2>4, <2>5 DEF ReadyInv
  <2> QED
    BY <2>6, <2>7 DEF G
<1>3. ASSUME NEW f \in Forwards, UacBye(f) PROVE G
  <2>1. PICK o : o = Request("BYE", <<Via(Uac, made[Uac] + 1)>>, f, dialog.route, <<>>, dialog.path, Uac, FirstHop)
    OBVIOUS
  <2>2. o.method = "BYE" /\ o.code = "request"
    BY <2>1 DEF Request
  <2>3. /\ net' = net \cup {o} /\ uac = "up" /\ uac' = "bye" /\ UNCHANGED <<call, dialog>>
    BY <1>3, <2>1 DEF UacBye, Post, proxyVars
  <2>4. NoneClosed /\ Open(dialog.path)
    BY <1>0, <2>3 DEF ReadyInv
  <2>5. NoneClosed' /\ Open(dialog.path)'
    BY <2>3, <2>4 DEF NoneClosed, Open
  <2>6. \A x \in net' : x.method # "INVITE" /\ (x.method = "BYE" => x = o)
    BY <2>2, <2>3 DEF One
  <2>7. ByeNotRefused'
    BY <2>2, <2>6 DEF ByeNotRefused
  <2>8. ReadyInv'
    BY <2>3, <2>5, <2>6 DEF ReadyInv
  <2> QED
    BY <2>7, <2>8 DEF G
<1>4. ASSUME UacCancel PROVE G
  BY <1>4 DEF UacCancel
<1>5. ASSUME NEW m \in net, NEW f \in Forwards, UacAnswer(m, f) PROVE G
  <2>1. uac' \in {"up", "end"}
    BY <1>5 DEF UacAnswer
  <2>2. \A x \in net' : x.method # "INVITE" /\ x.method # "BYE"
    BY <2>1 DEF One
  <2>3. CASE uac' = "end"
    BY <2>2, <2>3, ReadyOver DEF G
  <2>4. CASE uac' = "up"
    <3>1. /\ m.method = "INVITE" /\ m.code = "ok" /\ call' = call
          /\ dialog' = [route |-> Reverse(m.rr), path |-> m.path]
      BY <1>5, <2>4 DEF UacAnswer, proxyVars
    <3>2. NoneClosed /\ Open(m.path)
      BY <1>0, <3>1 DEF ReadyInv, IsFailure
    <3>3. dialog'.path = m.path
      BY <3>1
    <3>4. NoneClosed' /\ Open(dialog.path)'
      BY <3>1, <3>2, <3>3 DEF NoneClosed, Open
    <3>5. ByeNotRefused'
      BY <2>2 DEF ByeNotRefused
    <3>6. ReadyInv'
      BY <2>2, <3>4 DEF ReadyInv
    <3> QED
      BY <3>5, <3>6 DEF G
  <2> QED
    BY <2>1, <2>3, <2>4
<1>6. ASSUME NEW m \in net, UacByeAnswer(m) PROVE G
  <2>1. uac' \in {"ended", "refused"}
    BY <1>6 DEF UacByeAnswer
  <2>2. \A x \in net' : x.method # "INVITE" /\ x.method # "BYE"
    BY <2>1 DEF One
  <2> QED
    BY <2>1, <2>2, ReadyOver DEF G
<1>7. ASSUME NEW m \in net, NEW c \in {"ringing", "ok", "fail"}, UasAnswer(m, c) PROVE G
  <2>1. PICK o : o = Response(m, c, Path(m.via), Uas)
    OBVIOUS
  <2>2. m \in Messages /\ m.to = Uas
    BY <1>7 DEF UasAnswer, Types
  <2>3. o.method = m.method /\ o.via = m.via /\ o.code = c /\ o.path = Path(m.via)
    BY <2>1, <2>2 DEF Response, Messages
  <2>4. m.code = "request"
    BY <2>2, CalleeGetsRequests
  <2>5. m.method = "INVITE" => NoneClosed /\ Open(Path(m.via))
    BY <1>0, <2>4 DEF ReadyInv, IsFailure
  <2>6. PICK N : N = {o}
    OBVIOUS
  <2>7. net' \subseteq net \cup N /\ UNCHANGED <<call, uac, dialog>>
    BY <1>7, <2>1, <2>6 DEF UasAnswer, uacVars, proxyVars
  <2>8. \A x \in N :
          /\ x.method = "INVITE" /\ ~IsFailure(x.code) =>
               NoneClosed /\ Open(Path(x.via)) /\ (x.code = "ok" => Open(x.path))
          /\ x.code \notin {"request", "481"}
    BY <2>3, <2>5, <2>6
  <2> QED
    BY <1>0, <2>7, <2>8, ReadyStays DEF G
<1>8. ASSUME UNCHANGED vars PROVE G
  <2>1. PICK N : N = {}
    OBVIOUS
  <2>2. net' \subseteq net \cup N /\ UNCHANGED <<call, uac, dialog>>
    BY <1>8 DEF vars
  <2> QED
    BY <1>0, <2>1, <2>2, ReadyStays DEF G
<1> QED
  BY <1>1, <1>2, <1>3, <1>4, <1>5, <1>6, <1>7, <1>8 DEF Next, G

\* The call states keep to the call.
LEMMA CallStep ==
  ASSUME Types, CallerMade, InvitedInv, MessageInv, DialogInv, TransactionInv, TokenInv, CallInv,
         Types', TokenInv', [Next]_vars
  PROVE  CallInv'
<1>1. uac' = "idle" => net' = {} /\ NoneClosed'
  BY IdleStep
<1>2. \A m \in net' : m.method = "CANCEL" => cancelled'
  BY CancelsStep
<1>3. ASSUME ~cancelled', dups' = 0 PROVE ReadyInv' /\ ByeNotRefused'
  <2>1. dups = 0
    BY <1>3, Grows, BoundsAssumption DEF Types
  <2>2. ~cancelled
    BY <1>3, Grows
  <2>3. /\ One("INVITE", "calling") /\ One("BYE", "bye")
        /\ One("INVITE", "calling")' /\ One("BYE", "bye")'
    BY <1>3, <2>1 DEF TokenInv
  <2> QED
    BY <1>3, <2>1, <2>2, <2>3, ReadyStep
<1>4. ByeNotRefused'
  <2>1. CASE ~cancelled' /\ dups' = 0
    BY <1>3, <2>1
  <2>2. CASE ~(~cancelled' /\ dups' = 0)
    BY <2>2 DEF ByeNotRefused
  <2> QED
    BY <2>1, <2>2
<1> QED
  BY <1>1, <1>2, <1>3, <1>4 DEF CallInv

--------------------------------------------------------------------------------
(***************************************************************************)
(* The invariant, and what follows from it.                                *)
(***************************************************************************)
LEMMA InitIInv == Init => IInv
  BY InitTypes, InitInvited, InitMessages, InitTransactions, InitDead, InitToken, InitCall DEF IInv

\* Every step keeps the whole invariant.
LEMMA StepIInv == IInv /\ [Next]_vars => IInv'
<1> SUFFICES ASSUME IInv, [Next]_vars PROVE IInv'
  OBVIOUS
<1>0. /\ Types /\ CallerMade /\ InvitedInv /\ MessageInv /\ DialogInv
      /\ TransactionInv /\ DeadInv /\ TokenInv /\ CallInv
  BY DEF IInv
<1>1. Types' /\ CallerMade'
  BY <1>0, TypesStep
<1>2. InvitedInv'
  BY <1>0, <1>1, InvitedStep
<1>3. DialogInv'
  BY <1>0, <1>1, DialogStep
<1>4. TransactionInv'
  BY <1>0, <1>1, TransactionStep
<1>5. MessageInv'
  BY <1>0, <1>1, <1>3, MessageStep
<1>6. DeadInv'
  BY <1>0, DeadStep DEF CallInv
<1>7. TokenInv'
  BY <1>0, TokenStep
<1>8. CallInv'
  BY <1>0, <1>1, <1>7, CallStep
<1> QED
  BY <1>1, <1>2, <1>3, <1>4, <1>5, <1>6, <1>7, <1>8 DEF IInv

\* The invariant holds whatever the proxies receive, and in which order.
THEOREM ForwardingInvariant == Spec => []IInv
  BY InitIInv, StepIInv, PTL DEF Spec

\* In particular, a response that is sent has the address of a node there is
\* (proxy_response_controller.go 79-83).
THEOREM ForwardingTypeCorrect == Spec => []TypeOK
<1>1. Types => TypeOK
  <2> SUFFICES ASSUME Types PROVE TypeOK
    OBVIOUS
  <2>1. \A m \in net : /\ m.method \in Methods /\ m.code \in Codes
                       /\ m.mf \in Nat /\ m.from \in Nodes /\ m.to \in Nodes
    BY DEF Types, Messages
  <2>2. \A p \in Proxies : \A k \in sts[p] \cup done[p] : k.method \in Methods \ {"ACK"}
    BY DEF Types, ServerKeys
  <2>3. cancelled \in BOOLEAN
    BY Zenon DEF Types
  <2>4. /\ dups \in 0..MaxDups /\ made \in [Nodes -> 0..MaxBranch]
        /\ call \in [Proxies -> [state : {"none", "open", "closed"}, removals : Nat]]
        /\ dead \subseteq Proxies
        /\ uac \in {"idle", "calling", "up", "end", "bye", "ended", "refused"}
    BY DEF Types
  <2> QED
    BY <2>1, <2>2, <2>3, <2>4, Zenon DEF TypeOK
<1> QED
  BY <1>1, ForwardingInvariant, PTL DEF IInv

\* Every response goes to who wrote the Via on top, whatever its sent-by says,
\* because every proxy marked the Via of a sender that sent-by does not lead to
\* (proxy_request_controller.go 130-147, proxy_response_controller.go 66-90).
THEOREM ResponsesGoBack == Spec => []ResponsesRetrace
<1>1. Types /\ MessageInv => ResponsesRetrace
  <2> SUFFICES ASSUME Types, MessageInv, NEW m \in net, m.code # "request"
               PROVE  m.to = m.via[1].branch[1]
    BY DEF ResponsesRetrace
  <2>1. MessageOK(m) /\ m.method \in Methods
    BY DEF MessageInv, Types, Messages
  <2>2. m.to = By(m.via[1])
    BY <2>1 DEF MessageOK, InviteOK, Methods
  <2> QED
    BY <2>2 DEF By
<1> QED
  BY <1>1, ForwardingInvariant, PTL DEF IInv

\* Every hop costs one of Max-Forwards, so that an INVITE in a circle of proxies
\* ends after as many as the caller allowed (header.go 569-576).
THEOREM HopsAreBounded == Spec => []HopsBounded
<1>1. Types /\ InvitedInv /\ MessageInv => HopsBounded
  <2> SUFFICES ASSUME Types, InvitedInv, MessageInv, NEW m \in net, m.code = "request",
                      m.method = "INVITE" \/ m.path # <<>>
               PROVE  Spent(m)
    BY DEF HopsBounded, Spent
  <2>1. MessageOK(m) /\ m.method \in Methods
    BY DEF MessageInv, Types, Messages
  <2>2. CASE m.method = "INVITE"
    BY <2>1, <2>2 DEF MessageOK, InviteOK, InvitedInv, Sound
  <2>3. CASE m.method = "CANCEL"
    BY <2>1, <2>3 DEF MessageOK, HopOK
  <2>4. CASE m.method = "ACK" \/ m.method = "BYE"
    BY <2>1, <2>4 DEF MessageOK, OnPath
  <2> QED
    BY <2>1, <2>2, <2>3, <2>4 DEF Methods
<1> QED
  BY <1>1, ForwardingInvariant, PTL DEF IInv

\* The CANCEL and the ACK that a proxy derives have the one Via of the INVITE
\* that it sent to the same node (message.go 767-906, transaction.go 829-847).
THEOREM DerivedMatch == Spec => []DerivedRequestsMatch
<1>1. MessageInv => DerivedRequestsMatch
  BY DEF MessageInv, MessageOK, HopOK, DerivedRequestsMatch
<1> QED
  BY <1>1, ForwardingInvariant, PTL DEF IInv

\* The requests of a dialog take the way of its INVITE, also where that passed
\* a proxy twice (proxy_request_controller.go 80-88, 149-192).
THEOREM DialogOnPath == Spec => []DialogStaysOnPath
<1>1. Types /\ InvitedInv /\ MessageInv /\ DialogInv => DialogStaysOnPath
  <2> SUFFICES ASSUME Types, InvitedInv, MessageInv, DialogInv,
                      NEW m \in net, m.code = "request", m.path # <<>>, m.to = Uas
               PROVE  Path(m.via) = m.path /\ m.route = <<>>
    BY DEF DialogStaysOnPath
  <2>1. MessageOK(m) /\ m \in Messages /\ m.method \in Methods
    BY DEF MessageInv, Types, Messages
  <2>2. OnPath(m)
    <3>1. m.method # "INVITE"
      BY <2>1 DEF MessageOK, InviteOK, InvitedInv, Sound
    <3>2. m.method # "CANCEL"
      BY <2>1 DEF MessageOK, HopOK
    <3> QED
      BY <2>1, <3>1, <3>2 DEF MessageOK
  <2>3. Len(dialog.path) - Len(m.via) = 0
    BY <2>1, <2>2, WholePath
  <2>4. m.via \in Seq(Vias) /\ dialog.path \in Seq(Nodes) /\ m.route \in Seq(Nodes)
    BY <2>1 DEF Messages, Types
  <2>5. PICK n \in Nat : n = Len(dialog.path) /\ n = Len(m.via)
    <3>1. Len(dialog.path) \in Nat /\ Len(m.via) \in Nat
      BY <2>4
    <3>2. \A a, b \in Nat : a - b = 0 => a = b
      OBVIOUS
    <3> QED
      BY <2>3, <3>1, <3>2, Zenon
  <2>6. m.path = dialog.path /\ Len(m.route) = 0
    BY <2>2, <2>3, Zenon DEF OnPath
  <2>7. \A j \in 1..n : By(m.via[j]) = dialog.path[j]
    <3>1. \A j \in 1..n : By(m.via[j]) = dialog.path[n - n + j]
      BY <2>2, <2>5, Zenon DEF OnPath, PathSuffix
    <3>2. \A j \in 1..n : n - n + j = j
      OBVIOUS
    <3> QED
      BY <3>1, <3>2, Zenon
  <2>8. Path(m.via) \in Seq(Nodes) /\ Len(Path(m.via)) = n /\ \A j \in 1..n : Path(m.via)[j] = By(m.via[j])
    BY <2>4, <2>5, PathFacts
  <2>9. Path(m.via) = dialog.path
    <3>1. \A s \in Seq(Nodes) : Len(s) = n => s = [j \in 1..n |-> s[j]]
      OBVIOUS
    <3>2. dialog.path = [j \in 1..n |-> dialog.path[j]] /\ Path(m.via) = [j \in 1..n |-> Path(m.via)[j]]
      BY <2>4, <2>5, <2>8, <3>1, Zenon
    <3>3. \A j \in 1..n : Path(m.via)[j] = dialog.path[j]
      BY <2>7, <2>8, Zenon
    <3>4. [j \in 1..n |-> Path(m.via)[j]] = [j \in 1..n |-> dialog.path[j]]
      BY <3>3, Zenon
    <3> QED
      BY <3>2, <3>4, Zenon
  <2>10. m.route = <<>>
    BY <2>4, <2>6
  <2> QED
    BY <2>6, <2>9, <2>10
<1> QED
  BY <1>1, ForwardingInvariant, PTL DEF IInv

\* Without a CANCEL, and whatever else is lost, overtaken or duplicated, a
\* handler panics over the error response of an ACK alone, and that needs a
\* caller that starts the ACK with fewer Max-Forwards than its path has proxies
\* (proxy_request_controller.go 150-200, 387-394).
THEOREM SpentAcksOnly == Spec => []OnlySpentAcksPanic
<1>1. DeadInv => OnlySpentAcksPanic
  BY DEF DeadInv, OnlySpentAcksPanic
<1> QED
  BY <1>1, ForwardingInvariant, PTL DEF IInv

\* The 200 of a BYE has closed the call at every proxy that it passed
\* (proxy_response_controller.go 92-108).
THEOREM ByeClosesAll == Spec => []ByeClosesCalls
<1>1. TokenInv => ByeClosesCalls
  BY DEF TokenInv, ByeClosesCalls
<1> QED
  BY <1>1, ForwardingInvariant, PTL DEF IInv

\* Nobody but a failure, a CANCEL or a BYE takes a call state away
\* (proxy_request_controller.go 202-206, proxy_server.go 118-264).
THEOREM ByesAccepted == Spec => []ByeNotRefused
  BY ForwardingInvariant, PTL DEF IInv, CallInv
================================================================================

------------------------------ MODULE MessageSyntax ----------------------------
(***************************************************************************)
(* A peer sends a URI, an address, lists of addresses and of Vias, a       *)
(* header or a datagram, element by element; whatever it has sent so far   *)
(* is read, written and read again by the next hop, with the operators of  *)
(* SipUri, HeaderFields and MessageReader.                                 *)
(***************************************************************************)
EXTENDS MessageReader

CONSTANTS
    Parts,     \* by name: what is sent, how it starts, its elements, how many more
    MaxBody    \* bound on the length of a body

VARIABLES
    part,      \* the name of what is being sent
    input      \* the elements sent so far

vars == <<part, input>>

\* What each kind of input consists of.
Elements ==
    [uri      |-> Char,
     address  |-> Text,
     contacts |-> [display : Text, uri : Text, param : Text],
     vias     |-> Seq([SentProtocol : Text, SentBy : Text, RawParameter : Text]),
     header   |-> Line,
     sizes    |-> Nat \ {0}]

ASSUME PartsAssumption ==
    \A p \in DOMAIN Parts :
        /\ Parts[p].what \in DOMAIN Elements
        /\ Parts[p].start \in Seq(Elements[Parts[p].what])
        /\ Parts[p].elements \subseteq Elements[Parts[p].what]
        /\ Parts[p].more \in Nat

Sent(what) == Parts[part].what = what

Init == part \in DOMAIN Parts /\ input = Parts[part].start

Send(c) ==
    /\ Len(input) < Len(Parts[part].start) + Parts[part].more
    /\ input' = Append(input, c)
    /\ UNCHANGED part

Next == \E c \in Parts[part].elements : Send(c)

Spec == Init /\ [][Next]_vars

--------------------------------------------------------------------------------
\* A URI that Parse accepts is the same URI after String and Parse (uri.go
\* 457-815): what is escaped in the user, the password and the host is what the
\* next hop takes apart again.  Left out are the fragment, which String loses, a
\* URI without a scheme, and a semicolon that was escaped in the zone of the
\* host: String writes it as it is, and the next hop takes it for the beginning of
\* the parameters.
UriSurvives ==
    Sent("uri") =>
        LET u == Parse(input)
        IN  u # NoUri /\ u.Scheme # <<>> /\ ~Has(input, "#") /\ ~Has(u.Host, ";")
                => Parse(String(u)) = u

\* The addresses that ParseNameAddr can read back: in brackets, or nothing
\* follows them.  Quotes, backslashes and brackets inside of the parts are not
\* kept, and neither is a blank at the end, which the number sign of an empty
\* fragment protected from being trimmed.
Stable(t) ==
    /\ t.Addr # NoAddr
    /\ t.Addr.Uri.Scheme # <<>> /\ t.Addr.Uri.Fragment = <<>>
    /\ ~Has(t.Addr.Uri.Host, ";") /\ Last(String(t.Addr.Uri)) # " "
    /\ NeedsBrackets(t.Addr) \/ t.RawParameter = <<>>
    /\ (ToSet(t.Addr.DisplayName) \cup ToSet(String(t.Addr.Uri))) \cap {"\"", "\\"} = {}
    /\ ToSet(String(t.Addr.Uri)) \cap {"<", ">"} = {}

\* A To that is read is the same To after it was written and read by the next
\* hop: display name, URI and header parameters (the tag) do not run into each
\* other (header.go 74-160, 175-212).
AddressSurvives ==
    Sent("address") =>
        LET t == ParseTo(FlattenSeq(input)) IN Stable(t) => ParseTo(ToText(t)) = t

\* The items of a list in one field.
Joined(items) ==
    FlattenSeq([i \in DOMAIN items |-> IF i = 1 THEN items[i] ELSE <<",", " ">> \o items[i]])

\* An item of a list of addresses, as a peer puts it together.
ItemText(it) ==
    (IF it.display = <<>> THEN <<>> ELSE <<"\"">> \o it.display \o <<"\"", " ">>)
    \o <<"<">> \o it.uri \o <<">">> \o it.param

NoneAtEnds(s, cut) == s # <<>> => s[1] \notin cut /\ Last(s) \notin cut

\* An address that a list can hold: quotes in the name are escaped, and the
\* parameters have no comma, which ends them even if it is quoted.
ItemSyntax(it) ==
    /\ \A i \in DOMAIN it.display : it.display[i] = "\"" => i # 1 /\ it.display[i - 1] = "\\"
    /\ NoneAtEnds(it.display, {" ", "\"", "\\"})
    /\ ToSet(it.uri) \cap {"<", ">", "\""} = {} /\ NoneAtEnds(it.uri, Blank)
    /\ Parse(it.uri) # NoUri /\ Parse(it.uri).Path # <<"*">>
    /\ it.param # <<>> => it.param[1] = ";" /\ ~Has(it.param, ",") /\ NoneAtEnds(it.param, Blank)

\* A list of addresses is split between its items only, and each item into its
\* own name, URI and parameters, whatever commas, brackets and quotes are inside
\* of them (header.go 112-160, 668-690).
AddressesKeepItems ==
    Sent("contacts") /\ (\A i \in DOMAIN input : ItemSyntax(input[i])) =>
        ParseContacts(Joined([i \in DOMAIN input |-> ItemText(input[i])])) =
            [i \in DOMAIN input |->
                [Addr         |-> [DisplayName |-> input[i].display, Uri |-> Parse(input[i].uri)],
                 RawParameter |-> Param(input[i].param)]]

\* A Via that a field can hold: commas in the parameters are quoted.
ViaSyntax(via) ==
    /\ via.SentProtocol # <<>> /\ ~Has(via.SentProtocol, " ") /\ via.SentProtocol[1] # ","
    /\ via.SentBy # <<>> /\ NoneAtEnds(via.SentBy, Blank)
    /\ ToSet(via.SentBy) \cap {";", ","} = {}
    /\ NoneAtEnds(via.RawParameter, {" ", ";"})
    /\ ParamsEnd(via.RawParameter) = 0
    /\ Cardinality({q \in DOMAIN via.RawParameter : via.RawParameter[q] = "\""}) % 2 = 0

\* The fields of a message, several Vias in one.
ViaFields(fields) ==
    [i \in DOMAIN fields |-> Joined([k \in DOMAIN fields[i] |-> ViaString(fields[i][k])])]

\* However the Vias are spread over fields, each is read as it was sent, the
\* topmost is the first one, and all are written in the order they came in: the
\* response travels back along the same path (header.go 290-335, 361-408).
ViasKeepOrder ==
    LET sent == FlattenSeq(input)
        v    == AllVias(ViaFields(input))
    IN  Sent("vias") /\ (\A i \in DOMAIN sent : ViaSyntax(sent[i])) =>
            /\ v = Reverse(sent)
            /\ sent # <<>> => TopMost(v) = sent[1]
            /\ WriteVias(v) = [i \in DOMAIN sent |-> ViaString(sent[i])]

\* The lists of a message, of addresses and of Vias, are split between their
\* items only and keep their order, however the items are spread over fields and
\* whatever separators are inside of them (header.go 112-160, 290-408, 668-690).
ListsKeepItems == AddressesKeepItems /\ ViasKeepOrder

Read(lines) == readMessage(Append(lines, Empty))

NoPanics(m) == m # Dropped /\ m.CSeq # Panics /\ Panics \notin ToSet(m.Via)

\* A value ends in a blank if its last continuation is empty; the next hop does
\* not see the blank.
NoBlankAtEnd(h) ==
    \A key \in {"Subject", "Max-Forwards"} :
        \A i \in DOMAIN h[key] : TrimRight(h[key][i], Blank) = h[key][i]

\* A Via with nothing behind its protocol, and a Call-ID that was only "@", have
\* no text that could be read again.
NothingEmpty(m) ==
    /\ \A i \in DOMAIN m.Via : m.Via[i].SentBy # <<>> \/ m.Via[i].RawParameter # <<>>
    /\ m.CallID # Nil => CallIDText(m.CallID) # <<>>

Readable(m) ==
    /\ NoPanics(m)
    /\ NothingEmpty(m)
    /\ NoBlankAtEnd(m.Header)
    /\ \A t \in {m.To, m.From} : t = Nil \/ Stable(t)
    /\ \A i \in DOMAIN m.Contact : m.Contact[i] = StarContact \/ Stable(m.Contact[i])

SameMessage(m, n) ==
    /\ [n EXCEPT !.Header = <<>>] = [m EXCEPT !.Header = <<>>]
    /\ n.Header["Subject"] = m.Header["Subject"]
    /\ m.MaxForwards = Nil => n.Header["Max-Forwards"] = m.Header["Max-Forwards"]

Survives(m) == Readable(m) => SameMessage(m, readMessage(writeHeader(m)))

\* What the next hop reads is the message that was read: the fields taken apart
\* by the proxy and those it passes on, repeated ones in their order (message.go
\* 230-292, 540-667).  A name with a blank and further values of To are lost.
MessageSurvives == Sent("header") => Survives(Read(input))

\* The lines with field i folded at position p of its value.
Folded(lines, i, p) ==
    SubSeq(lines, 1, i - 1)
    \o <<[lines[i] EXCEPT !.value = Upto(lines[i].value, p)], Fold(After(lines[i].value, p))>>
    \o SubSeq(lines, i + 1, Len(lines))

\* A single blank in a value, between two characters or before the first.
SingleBlanks(v) ==
    {p \in 1..(Len(v) - 1) : v[p] = " " /\ v[p + 1] # " " /\ (p = 1 \/ v[p - 1] # " ")}

\* A field that is folded at a single blank reads like the same field on one line
\* (reader.go 79-97, 128-172).
FoldingIsInvisible ==
    Sent("header") =>
        \A i \in DOMAIN input : input[i].kind = "field" =>
            \A p \in SingleBlanks(input[i].value) :
                Read(Folded(input, i, p)) = Read(input)

\* The body is what follows the header, all of it if the datagram fits into the
\* buffer (message.go 608-619): lines of any length before it do not eat it up.
BodyIsWhole ==
    Sent("sizes") =>
        \A n \in 0..MaxBody :
            SumOf(input) + n <= BufSize => bodyLength(input, n) = n
================================================================================

------------------------------ MODULE HeaderFields -----------------------------
(***************************************************************************)
(* The header fields that the proxy takes apart and writes anew,           *)
(* src/sip/header.go: To and From, the lists Contact, Route and            *)
(* Record-Route, and Via.  Texts are those of SipUri; blank stands for the *)
(* blanks that the code trims.                                             *)
(***************************************************************************)
EXTENDS SipUri

Blank == {" "}

validToken(s) ==
    \A i \in DOMAIN s : \/ s[i] \in Alnum \cup {"#", "$", "%", "&", "*", "+", "-", "."}
                        \/ IsPct(s[i]) \/ s[i] = BadPct

--------------------------------------------------------------------------------
(***************************************************************************)
(* NameAddr: a display name and a URI, then what follows them.             *)
(***************************************************************************)
NoAddr == [Error |-> TRUE]

\* The quotes that open or close a quoted part.
Quotes(s) == {i \in DOMAIN s : s[i] = "\"" /\ (i = 1 \/ s[i - 1] # "\\")}

\* A bug: quotes do not hide anything.
NeverQuoted(s, i) == FALSE

Quoted(s, i) == Cardinality({q \in Quotes(s) : q < i}) % 2 = 1

\* The first c from position i on that is not quoted; 0 if there is none.
FirstOutside(s, c, i) ==
    SelectInSeq([k \in DOMAIN s |-> k >= i /\ s[k] = c /\ ~Quoted(s, k)], LAMBDA b : b)

NewNameAddr(display, uri) ==
    IF uri = NoUri THEN NoAddr ELSE [DisplayName |-> display, Uri |-> uri]

\* The display name before "<" and the URI up to ">", or up to the end if there
\* is no "<"; a quote or a "<" that is left open is an error.
NameAddrAt(s, lt, gt) ==
    LET ue == IF gt = 0 THEN Len(s) + 1 ELSE gt IN
    IF Quoted(s, ue) \/ (lt # 0 /\ gt = 0)
    THEN [Addr |-> NoAddr, trail |-> <<>>]
    ELSE [Addr  |-> NewNameAddr(IF lt = 0 THEN <<>> ELSE Trim(Upto(s, lt), {" ", "\""}),
                                Parse(Trim(SubSeq(s, lt + 1, ue - 1), {" ", "<", ">"}))),
          trail |-> TrimLeft(SubSeq(s, ue, Len(s)), {" ", "<", ">"})]

\* [Addr, trail].
ParseNameAddr(s) ==
    LET lt == FirstOutside(s, "<", 1)
    IN  NameAddrAt(s, lt, IF lt = 0 THEN 0 ELSE FirstOutside(s, ">", lt + 1))

InBrackets(u) == <<"<">> \o String(u) \o <<">">>

\* A bug: a user name that is no token is written without brackets.
NameAddrStringBare(a) ==
    IF a.DisplayName = <<>> THEN String(a.Uri)
    ELSE a.DisplayName \o <<" ">> \o InBrackets(a.Uri)

\* NameAddr.String: brackets unless the URI is plain and stands alone.
NeedsBrackets(a) ==
    \/ a.DisplayName # <<>>
    \/ a.Uri.RawParameter # <<>>
    \/ ~validToken(UserString(a.Uri.User))
    \/ ~validToken(a.Uri.Host)

NameAddrString(a) ==
    CASE a.DisplayName = <<>> ->
           IF NeedsBrackets(a) THEN InBrackets(a.Uri) ELSE String(a.Uri)
      [] a.DisplayName # <<>> /\ validToken(a.DisplayName) ->
           a.DisplayName \o <<" ">> \o InBrackets(a.Uri)
      [] OTHER ->
           <<"\"">> \o a.DisplayName \o <<"\"">> \o <<" ">> \o InBrackets(a.Uri)

--------------------------------------------------------------------------------
(***************************************************************************)
(* To, From, Contact, Route: a NameAddr and parameters.                    *)
(***************************************************************************)
Param(s) == Trim(s, {" ", ";"})

NewToHeader(n) == [Addr |-> n.Addr, RawParameter |-> Param(n.trail)]

ParseTo(s) == NewToHeader(ParseNameAddr(s))

WithParam(s, param) == IF param = <<>> THEN s ELSE s \o <<";">> \o param

ToText(t) == WithParam(NameAddrString(t.Addr), t.RawParameter)

\* newContactHeader: the star keeps no parameters.
StarContact == [Star |-> TRUE]

newContactHeader(addr, param) ==
    IF addr # NoAddr /\ addr.Uri.Path = <<"*">>
    THEN StarContact
    ELSE [Addr |-> addr, RawParameter |-> param]

ContactText(c) == IF c = StarContact THEN <<"*">> ELSE ToText(c)

\* ParseContacts and ParseNameAddrFormats: one address, its parameters up to
\* the next comma, and the rest in the same way.
ParseContacts(s) ==
    LET contacts[t \in Text] ==
            IF t = <<>> THEN <<>>
            ELSE LET n   == ParseNameAddr(t)
                     res == split(n.trail, ",")
                 IN  <<newContactHeader(n.Addr, Param(res[1]))>>
                     \o contacts[Trim(res[2], Blank)]
    IN  contacts[s]

--------------------------------------------------------------------------------
(***************************************************************************)
(* Via: protocol, sent-by and parameters; several in one field.  Vias are  *)
(* kept with the topmost last, as the stack that Insert and Pop work on.   *)
(***************************************************************************)
\* The end of the parameters: the first comma outside of quotes (here every
\* quote counts).
ParamsEnd(s) ==
    SelectInSeq([k \in DOMAIN s |->
                    /\ s[k] = ","
                    /\ Cardinality({q \in 1..k : s[q] = "\""}) % 2 = 0], LAMBDA b : b)

TopMost(v) == Last(v)

\* Reading a Via without a blank indexes past the end of the split.
Panics == [Panic |-> TRUE]

\* The Via of a protocol and what follows it, with sent-by up to position by, and
\* the text that is left behind its parameters.
ViaOf(protocol, rest, by) ==
    LET params == IF by = 0 THEN <<>> ELSE SubSeq(rest, by, Len(rest))
        end    == ParamsEnd(params)
    IN  [via  |-> [SentProtocol |-> protocol,
                   SentBy       |-> Trim(IF by = 0 THEN rest ELSE Upto(rest, by), Blank),
                   RawParameter |-> Param(IF end = 0 THEN params ELSE Upto(params, end))],
         left |-> IF end = 0 THEN <<>> ELSE Trim(SubSeq(params, end, Len(params)), {" ", ","})]

\* The first Via of a text, and the text that is left.
FirstVia(text) ==
    LET s    == Trim(text, Blank)
        sp   == IndexByte(s, " ")
        rest == Trim(After(s, sp), Blank)
    IN  IF sp = 0 THEN [via |-> Panics, left |-> <<>>]
        ELSE ViaOf(Upto(s, sp), rest, SelectInSeq(rest, LAMBDA d : d \in {";", ","}))

\* ParseVias, which gives each Via to ViaHeaders.Append: below the ones that are
\* there.
ParseVias(text, v) ==
    LET vias[t \in Text] ==
            IF t = <<>> THEN <<>> ELSE <<FirstVia(t).via>> \o vias[FirstVia(t).left]
    IN  Reverse(vias[text]) \o v

ViaString(via) == WithParam(via.SentProtocol \o <<" ">> \o via.SentBy, via.RawParameter)

\* ViaHeaders.WriteHeader: one field for each, the topmost first.
WriteVias(v) == [i \in DOMAIN v |-> ViaString(Reverse(v)[i])]

--------------------------------------------------------------------------------
(***************************************************************************)
(* Call-ID, CSeq and Max-Forwards.  A number is its sign and its digits    *)
(* without leading zeros; numbers beyond 32 bits are left out, which CSeq  *)
(* reduces on writing.                                                     *)
(***************************************************************************)
IsNumber(s) ==
    LET d == IF s # <<>> /\ s[1] \in {"+", "-"} THEN Tail(s) ELSE s
    IN  d # <<>> /\ ToSet(d) \subseteq Digits

\* strconv.Atoi and back.
Itoa(s) ==
    LET d == TrimLeft(s, {"+", "-", "0"})
    IN  IF d = <<>> THEN <<"0">> ELSE IF s[1] = "-" THEN <<"-">> \o d ELSE d

\* nil, for a field that is absent or no number.
Nil == [Nil |-> TRUE]

ParseCallID(s) ==
    LET id == split(s, "@") IN [Identifier |-> Trim(id[1], Blank), Host |-> Trim(id[2], Blank)]

CallIDText(c) == IF c.Host = <<>> THEN c.Identifier ELSE c.Identifier \o <<"@">> \o c.Host

\* Like Via, a CSeq without a blank indexes past the end of the split.
ParseCSeq(s) ==
    LET t == Trim(s, Blank)
        p == split(t, " ")
    IN  CASE ~Has(t, " ")                  -> Panics
          [] Has(t, " ") /\ IsNumber(p[1]) -> [Sequence |-> Itoa(p[1]), Method |-> Trim(p[2], Blank)]
          [] OTHER                         -> Nil

CSeqText(c) == c.Sequence \o <<" ">> \o c.Method

ParseMaxForwards(s) == IF IsNumber(s) THEN [Remains |-> Itoa(s)] ELSE Nil

MaxForwardsText(m) == m.Remains
================================================================================

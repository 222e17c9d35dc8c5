--------------------------------- MODULE SipUri --------------------------------
(***************************************************************************)
(* Reading and writing of URIs, src/sip/uri.go.  A text is a sequence of   *)
(* characters; a character class of the code is represented by one or two  *)
(* of its members.  The three characters of an escape are one element:     *)
(* Pct[c] stands for c in hexadecimal, BadPct for a percent sign that no   *)
(* two hexadecimal digits follow.  A percent sign of its own therefore     *)
(* occurs in values, which are sequences over Plain, and never in a text,  *)
(* a sequence over Char.                                                   *)
(*                                                                         *)
(* A URI whose rest starts with a slash is handed to net/url and is left   *)
(* out.                                                                    *)
(***************************************************************************)
EXTENDS Naturals, Sequences, FiniteSets, SequencesExt

Letters  == {"a", "b"}
Capitals == {"A"}
Digits   == {"0", "1"}
Ctl      == "CTL"                                  \* below blank, or DEL
Reserved == {"$", "&", "+", ",", "/", ":", ";", "=", "?", "@"}
Other    == {"#", "*", "[", "]", "<", ">", "\"", "\\", " ", "%", "-", ".", Ctl}
Plain    == Letters \cup Capitals \cup Digits \cup Reserved \cup Other

CONSTANTS
    Pct,       \* by character: its escape
    BadPct

\* An escape stands for one character, and is none itself.
ASSUME EscapeAssumption ==
    /\ DOMAIN Pct = Plain
    /\ \A c, d \in Plain : Pct[c] = Pct[d] => c = d
    /\ \A c \in Plain : Pct[c] \notin Plain \cup {"ERROR", BadPct}
    /\ BadPct \notin Plain \cup {"ERROR"}

Char == (Plain \ {"%"}) \cup {Pct[c] : c \in Plain} \cup {BadPct}
Text == Seq(Char)

--------------------------------------------------------------------------------
(***************************************************************************)
(* The functions of Go's package strings that the code uses.               *)
(***************************************************************************)
Has(s, c) == c \in ToSet(s)

\* strings.IndexByte, LastIndexByte, counted from 1; 0 if there is none.
IndexByte(s, c)     == SelectInSeq(s, LAMBDA d : d = c)
LastIndexByte(s, c) == SelectLastInSeq(s, LAMBDA d : d = c)

Upto(s, i)  == SubSeq(s, 1, i - 1)
After(s, i) == SubSeq(s, i + 1, Len(s))

TrimLeft(s, cut) ==
    LET i == SelectInSeq(s, LAMBDA d : d \notin cut)
    IN  IF i = 0 THEN <<>> ELSE SubSeq(s, i, Len(s))

TrimRight(s, cut) == SubSeq(s, 1, SelectLastInSeq(s, LAMBDA d : d \notin cut))

Trim(s, cut) == TrimRight(TrimLeft(s, cut), cut)

\* split(s, sep, true): the two parts, the second empty if there is no sep.
split(s, sep) ==
    LET i == IndexByte(s, sep)
    IN  IF i = 0 THEN <<s, <<>>>> ELSE <<Upto(s, i), After(s, i)>>

--------------------------------------------------------------------------------
(***************************************************************************)
(* Escaping.                                                               *)
(***************************************************************************)
Alnum      == Letters \cup Capitals \cup Digits
Mark       == {"-", "."}
HostDelims == {"$", "&", "*", "+", ",", ";", "=", ":", "[", "]", "<", ">", "\""}

\* What stands for itself, by part of the URI.
Unescaped(mode) ==
    Alnum \cup Mark \cup
    CASE mode \in {"host", "zone"} -> HostDelims
      [] mode = "user"             -> Reserved \ {"@", "/", "?", ":"}
      [] mode = "fragment"         -> Reserved \cup {"*"}

\* A bug: a colon in the user name is left as it is.
shouldEscapeNoColon(c, mode) == c \notin Unescaped(mode) \cup {":"}

shouldEscape(c, mode) == c \notin Unescaped(mode)

escape(s, mode) == [i \in DOMAIN s |-> IF shouldEscape(s[i], mode) THEN Pct[s[i]] ELSE s[i]]

IsPct(t) == \E c \in Plain : t = Pct[c]
Unpct(t) == CHOOSE c \in Plain : t = Pct[c]

\* Which elements of a text unescape refuses.
Refused(t, mode) ==
    \/ t = BadPct
    \/ /\ mode = "host" /\ IsPct(t)
       /\ t # Pct["%"]
    \/ /\ mode = "zone" /\ IsPct(t)
       /\ Unpct(t) \notin {"%", " "}
       /\ shouldEscape(Unpct(t), "host")
    \/ /\ mode \in {"host", "zone"} /\ t \in Plain
       /\ shouldEscape(t, mode)

canUnescape(s, mode) == \A i \in DOMAIN s : ~Refused(s[i], mode)

unescape(s) == [i \in DOMAIN s |-> IF IsPct(s[i]) THEN Unpct(s[i]) ELSE s[i]]

--------------------------------------------------------------------------------
(***************************************************************************)
(* Parse.  User is <<>> for nil, <<name>> or <<name, password>>.           *)
(***************************************************************************)
NoUri == [Error |-> TRUE]

\* A URI of the form scheme:rest, or all rest.
getscheme(s) ==
    LET i == IndexByte(s, ":") IN
    IF /\ i > 1
       /\ s[1] \in Letters \cup Capitals
       /\ \A k \in 1..(i - 1) : s[k] \in Alnum \cup {"+", "-", "."}
    THEN <<Upto(s, i), After(s, i)>>
    ELSE <<<<>>, s>>

MissingScheme(s) == s # <<>> /\ s[1] = ":"

ToLower(s) == [i \in DOMAIN s |-> IF s[i] = "A" THEN "a" ELSE s[i]]

validOptionalPort(s) == s = <<>> \/ (s[1] = ":" /\ \A i \in 2..Len(s) : s[i] \in Digits)

\* parseHost: NoHost, or host[:port] with the escapes taken away.  In brackets,
\* %25 begins a zone, which may escape more.
NoHost == <<"ERROR">>

parseHost(h) ==
    LET close  == LastIndexByte(h, "]")
        colon  == LastIndexByte(h, ":")
        zone   == IndexByte(Upto(h, close), Pct["%"])
        inner  == h # <<>> /\ h[1] = "["
        portOK == IF inner THEN close # 0 /\ validOptionalPort(After(h, close))
                           ELSE colon = 0 \/ validOptionalPort(SubSeq(h, colon, Len(h)))
        hostOK == IF inner /\ zone # 0
                  THEN /\ canUnescape(Upto(h, zone), "host")
                       /\ canUnescape(SubSeq(h, zone, close - 1), "zone")
                       /\ canUnescape(SubSeq(h, close, Len(h)), "host")
                  ELSE canUnescape(h, "host")
    IN  IF portOK /\ hostOK THEN unescape(h) ELSE NoHost

validUserinfo(s) ==
    \A i \in DOMAIN s :
        \/ s[i] \in Alnum \cup Mark \cup {":", "$", "&", "*", "+", ",", ";", "=", "@"}
        \/ IsPct(s[i]) \/ s[i] = BadPct

userinfo(s) == IF Has(s, ":") THEN split(s, ":") ELSE <<s>>

\* user@host;parameter; the parts of User are still escaped.
parseAuthority(s) ==
    LET at == LastIndexByte(s, "@")
        hp == split(After(s, at), ";")
    IN  [User |-> IF at = 0 THEN <<>> ELSE userinfo(Upto(s, at)),
         Host |-> parseHost(hp[1]), RawParameter |-> hp[2]]

\* The single question mark at the end that makes ForceQuery.
OnlyMark(s) == s # <<>> /\ Last(s) = "?" /\ IndexByte(s, "?") = Len(s)

NewUri(scheme, auth, force, query) ==
    [Scheme |-> ToLower(scheme), User |-> [i \in DOMAIN auth.User |-> unescape(auth.User[i])],
     Host |-> auth.Host, Path |-> <<>>, RawParameter |-> auth.RawParameter,
     ForceQuery |-> force, RawQuery |-> query, Fragment |-> <<>>]

NoAuthority == [User |-> <<>>, Host |-> <<>>, RawParameter |-> <<>>]

authorityOK(auth) ==
    /\ auth.Host # NoHost
    /\ \A i \in DOMAIN auth.User : /\ validUserinfo(auth.User[i])
                                  /\ canUnescape(auth.User[i], "user")

WithAuthority(scheme, auth, force, query) ==
    IF authorityOK(auth) THEN NewUri(scheme, auth, force, query) ELSE NoUri

parse(s) ==
    LET sch  == getscheme(s)
        rest == split(sch[2], "?")
    IN  CASE s = <<"*">> ->
               [NewUri(<<>>, NoAuthority, FALSE, <<>>) EXCEPT !.Path = <<"*">>]
          [] Has(s, Ctl) \/ MissingScheme(s) -> NoUri
          [] OTHER -> WithAuthority(sch[1], parseAuthority(rest[1]), OnlyMark(sch[2]), rest[2])

setFragment(uri, frag) ==
    IF uri = NoUri \/ ~canUnescape(frag, "fragment")
    THEN NoUri
    ELSE [uri EXCEPT !.Fragment = unescape(frag)]

\* Parse: the fragment is cut off first.
Parse(s) ==
    LET cut == split(s, "#") IN setFragment(parse(cut[1]), cut[2])

--------------------------------------------------------------------------------
(***************************************************************************)
(* String.  EscapedFragment is the method of the embedded, empty url.URL:  *)
(* nothing follows the number sign.                                        *)
(***************************************************************************)
UserString(u) ==
    CASE u = <<>>    -> <<>>
      [] Len(u) = 1  -> escape(u[1], "user")
      [] Len(u) = 2  -> escape(u[1], "user") \o <<":">> \o escape(u[2], "user")

String(u) ==
    (IF u.Scheme = <<>> THEN <<>> ELSE u.Scheme \o <<":">>)
    \o (IF u.User = <<>> THEN <<>> ELSE UserString(u.User) \o <<"@">>)
    \o escape(u.Host, "host")
    \o u.Path
    \o (IF u.RawParameter = <<>> THEN <<>> ELSE <<";">> \o u.RawParameter)
    \o (IF u.ForceQuery \/ u.RawQuery # <<>> THEN <<"?">> \o u.RawQuery ELSE <<>>)
    \o (IF u.Fragment = <<>> THEN <<>> ELSE <<"#">>)
================================================================================

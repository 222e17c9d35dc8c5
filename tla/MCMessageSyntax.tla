----------------------------- MODULE MCMessageSyntax ---------------------------
(***************************************************************************)
(* Model checking of MessageSyntax: texts over the characters that matter  *)
(* for each part, from beginnings that are reached in practice.            *)
(***************************************************************************)
EXTENDS MessageSyntax

Part(what, start, elements, more) ==
    [what |-> what, start |-> start, elements |-> elements, more |-> more]

MCPct    == [c \in Plain |-> "%" \o c]
MCBadPct == "%!"

Scheme == <<"a", ":">>
Uri    == <<"a", ":", "b">>
Quote  == "\""

UriChars ==
    {"a", "A", "1", ":", "@", ";", "?", "[", "]", " ", Pct[":"], Pct["@"], Pct["%"], Pct["a"],
     Pct[";"], BadPct}

AddressTexts ==
    {<<"a">>, <<"<">>, <<">">>, <<Quote>>, <<"\\">>, <<";">>, <<" ">>, <<Pct[":"], "@">>, Uri,
     <<"<">> \o Uri, <<"?", "a", " ", "#">>}

Contacts ==
    [display : {<<>>, <<"a", "<", ",", "b">>, <<"a", "\\", Quote, ">", "b">>},
     uri     : {Uri, Uri \o <<",", "1", ";", "a">>},
     param   : {<<>>, <<";", "a", "=", "1">>}]

Via(n, param) == [SentProtocol |-> <<"a", "/", "b">>, SentBy |-> <<"b", ":", n>>, RawParameter |-> param]
Branch(n)     == Via(n, <<"b", "=", n>>)
QuotedVia(n)  == Via(n, <<"b", "=", Quote, ",", " ", Quote>>)
Vias          == {Via("0", <<>>), Branch("1"), QuotedVia("0")}
ViaLists      == {<<v>> : v \in Vias} \cup (Vias \X Vias)

Lines ==
    {Field("To", "canonical", <<"a", " ", "<">> \o Uri \o <<">", ";", "a", "=", "1">>),
     Field("To", "other", <<"<">> \o Uri \o <<";", "b", ">">>),
     Field("To ", "canonical", Uri),
     Field("To", "compact", Uri),
     Field("From", "canonical", <<>>),
     Field("Via", "canonical", ViaString(Branch("1"))),
     Field("Via", "other", ViaString(Branch("0")) \o <<",">> \o ViaString(QuotedVia("0"))),
     Field("Via", "canonical", <<"a", " ", ",">>),
     Field("Contact", "canonical", <<"*">>),
     Field("Contact", "canonical", <<"<">> \o Uri \o <<">", ",", "a", "<">> \o Uri \o <<">">>),
     Field("Cseq", "other", <<"0", "1", " ", "A">>),
     Field("Cseq", "canonical", <<"a", " ", "A">>),
     Field("Call-Id", "canonical", <<"a", "@", "b">>),
     Field("Call-Id", "canonical", <<"@">>),
     Field("Max-Forwards", "canonical", <<"1">>),
     Field("Max-Forwards", "canonical", <<"a">>),
     Field("Subject", "canonical", <<"a", " ", "b">>),
     Field("Subject", "other", <<" ", "a", " ", " ", "b", " ">>),
     Fold(<<"1">>), Fold(<<>>), Bare, Empty}

MCParts ==
    [uri      |-> Part("uri", Scheme, UriChars, 4),
     host     |-> Part("uri", Uri \o <<"@">>, UriChars, 3),
     address  |-> Part("address", <<>>, AddressTexts, 5),
     contacts |-> Part("contacts", <<>>, Contacts, 3),
     vias     |-> Part("vias", <<>>, ViaLists, 3),
     header   |-> Part("header", <<>>, Lines, 3),
     sizes    |-> Part("sizes", <<>>, 1..5, 5)]
================================================================================

------------------------------ MODULE MessageReader ----------------------------
(***************************************************************************)
(* Reading a datagram into a message and writing a message,                *)
(* src/sip/reader.go and src/sip/message.go.  A header is a sequence of    *)
(* lines: a field (name, the form its name is written in, value), a        *)
(* continuation, a line without a colon, the empty line.  Values are texts *)
(* of SipUri.                                                              *)
(***************************************************************************)
EXTENDS HeaderFields

CONSTANTS
    BufSize,   \* bytes in the buffer of bufio.Reader, 4096
    Room       \* bytes of Body, 4096

ASSUME BufferAssumption == BufSize \in Nat \ {0} /\ Room \in Nat \ {0} /\ Room >= BufSize

\* Names in the order of their lower-case spelling.  "To " is a name with a
\* blank before the colon.
Names == <<"Call-Id", "Contact", "Cseq", "From", "Max-Forwards", "Subject", "To", "To ", "Via">>

Field(name, form, value) ==
    [kind |-> "field", name |-> name, form |-> form, value |-> value]
Fold(value) == [kind |-> "fold", value |-> value]
Bare        == [kind |-> "bare"]
Empty       == [kind |-> "empty"]

Line ==
    [kind : {"field"}, name : ToSet(Names), form : {"canonical", "other", "compact"}, value : Text]
    \cup [kind : {"fold"}, value : Text] \cup {Bare, Empty}

--------------------------------------------------------------------------------
(***************************************************************************)
(* ReadMIMEHeader.                                                         *)
(***************************************************************************)
\* The continuations of line i are the lines that follow it; the lines, trimmed,
\* are joined by one blank, and blanks before the value are skipped.
Folds(lines, i) ==
    {n \in 0..(Len(lines) - i) : \A k \in 1..n : lines[i + k].kind = "fold"}

\* A bug: the lines are joined without a blank.
readContinuedLineTight(lines, i) ==
    TrimLeft(FlattenSeq([k \in 1..(Max(Folds(lines, i)) + 1) |->
                            Trim(lines[i + k - 1].value, Blank)]), Blank)

readContinuedLine(lines, i) ==
    TrimLeft(FlattenSeq([k \in 1..(Max(Folds(lines, i)) + 1) |->
                            IF k = 1 THEN TrimRight(lines[i].value, Blank)
                            ELSE <<" ">> \o Trim(lines[i + k - 1].value, Blank)]), Blank)

\* The key of a field: a name with a blank stays as it is.  The letter of the
\* compact form is looked for with IndexByte(key, 0), which finds nothing, so
\* that the key becomes empty.
canonicalKey(line) == IF line.form = "compact" THEN "" ELSE line.name

HeaderEnd(lines) == SelectInSeq(lines, LAMBDA l : l.kind = "empty")

\* The whole message is dropped for a line without a colon, for a continuation
\* of nothing, and if the empty line is missing.
Malformed(lines) ==
    \/ HeaderEnd(lines) = 0
    \/ lines[1].kind = "fold"
    \/ \E i \in 1..HeaderEnd(lines) : lines[i].kind = "bare"

\* Line by line, the value of a field is appended to the values of its key.
ReadMIMEHeader(lines) ==
    [key \in ToSet(Names) |->
        LET values[i \in 0..HeaderEnd(lines)] ==
                IF i = 0 THEN <<>>
                ELSE IF lines[i].kind = "field" /\ canonicalKey(lines[i]) = key
                THEN Append(values[i - 1], readContinuedLine(lines, i))
                ELSE values[i - 1]
        IN  values[HeaderEnd(lines)]]

--------------------------------------------------------------------------------
(***************************************************************************)
(* readMessage, parseHeader.                                               *)
(***************************************************************************)
\* Header.Get, and the parser unless the value is missing or empty.
First(h, key, Parser(_)) ==
    IF h[key] = <<>> \/ h[key][1] = <<>> THEN Nil ELSE Parser(h[key][1])

AllVias(values) ==
    LET vias[i \in 0..Len(values)] ==
            IF i = 0 THEN <<>> ELSE ParseVias(values[i], vias[i - 1])
    IN  vias[Len(values)]

parseHeader(h) ==
    [To          |-> First(h, "To", ParseTo),
     From        |-> First(h, "From", ParseTo),
     CallID      |-> First(h, "Call-Id", ParseCallID),
     CSeq        |-> First(h, "Cseq", ParseCSeq),
     MaxForwards |-> First(h, "Max-Forwards", ParseMaxForwards),
     Via         |-> AllVias(h["Via"]),
     Contact     |-> FlattenSeq([i \in DOMAIN h["Contact"] |-> ParseContacts(h["Contact"][i])]),
     Header      |-> h]

Dropped == [Dropped |-> TRUE]

readMessage(lines) ==
    IF Malformed(lines) THEN Dropped ELSE parseHeader(ReadMIMEHeader(lines))

\* The buffer is refilled from the beginning of a line that it does not hold
\* to the end; a line longer than the buffer is read in pieces.
Refill(buffered, pos, size, total) ==
    IF pos + size <= buffered THEN buffered
    ELSE Min({total, pos + BufSize * ((size - 1) \div BufSize) + BufSize})

\* The position after n lines, and up to where the datagram was buffered.
ReadLines(sizes, total) ==
    LET read[n \in 0..Len(sizes)] ==
            IF n = 0 THEN <<0, 0>>
            ELSE <<read[n - 1][1] + sizes[n],
                   Refill(read[n - 1][2], read[n - 1][1], sizes[n], total)>>
    IN  read[Len(sizes)]

SumOf(sizes) == ReadLines(sizes, 0)[1]

\* A bug: Body is half as long.
bodyLengthHalf(sizes, body) == Min({body, Room \div 2})

\* The length of the body that is read: one Read, which takes what is buffered,
\* or, from an empty buffer, what fits into Body.
bodyLength(sizes, body) ==
    LET total == SumOf(sizes) + body
        r     == ReadLines(sizes, total)
    IN  IF r[1] < r[2] THEN Min({Room, r[2] - r[1]}) ELSE Min({Room, total - r[1]})

--------------------------------------------------------------------------------
(***************************************************************************)
(* writeHeader: the parsed fields first, then the others in the order of   *)
(* their names.  Values looks a name up in its canonical spelling, which   *)
(* "To " does not have.                                                    *)
(***************************************************************************)
Written(name, values) == [i \in DOMAIN values |-> Field(name, "canonical", values[i])]

\* A bug: Contact is written again with the other fields.
ignoresNoContact(parsed) ==
    ({parsed[i].name : i \in DOMAIN parsed} \ {"Contact"}) \cup {"Via", "To "}

\* The names that are not written again.
ignores(parsed) == {parsed[i].name : i \in DOMAIN parsed} \cup {"Via", "Contact", "To "}

writeHeader(msg) ==
    LET one(name, v, Writer(_)) == IF v = Nil THEN <<>> ELSE Written(name, <<Writer(v)>>)
        parsed ==
            one("To", msg.To, ToText) \o one("From", msg.From, ToText)
            \o Written("Via", WriteVias(msg.Via))
            \o one("Max-Forwards", msg.MaxForwards, MaxForwardsText)
            \o one("Call-Id", msg.CallID, CallIDText)
            \o one("Cseq", msg.CSeq, CSeqText)
            \o Written("Contact", [i \in DOMAIN msg.Contact |-> ContactText(msg.Contact[i])])
        others(name) == IF name \in ignores(parsed) THEN <<>> ELSE msg.Header[name]
    IN  parsed
        \o FlattenSeq([i \in DOMAIN Names |-> Written(Names[i], others(Names[i]))])
        \o <<Empty>>
================================================================================

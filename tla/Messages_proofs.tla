---------------------------- MODULE Messages_proofs ----------------------------
(***************************************************************************)
(* What the next hop reads of a message is the message that was read, for  *)
(* every header.                                                           *)
(***************************************************************************)
EXTENDS MessageSyntax_proofs

--------------------------------------------------------------------------------
(***************************************************************************)
(* Messages.  A header is written name by name, so that the fields of a    *)
(* name are next to each other (Holds), and the lines of a name are read   *)
(* to the values that were written for it (BlockRead).  Every value has    *)
(* no blank at its ends (Whole) and is read to what it was written for.    *)
(***************************************************************************)
\* What TrimLeft takes away.
LEMMA TrimLeftRest ==
  ASSUME NEW S, NEW s \in Seq(S), NEW cut
  PROVE  \E a \in Seq(S) : /\ TrimLeft(s, cut) \in Seq(S) /\ s = a \o TrimLeft(s, cut)
                          /\ \A i \in 1..Len(a) : a[i] \in cut
<1> DEFINE I == {i \in 1..Len(s) : s[i] \notin cut}
<1>1. PICK n : n = SelectInSeq(s, LAMBDA d : d \notin cut)
  OBVIOUS
<1>2. n = IF I # {} THEN Min(I) ELSE 0
  BY <1>1 DEF SelectInSeq
<1>3. PICK t : t = TrimLeft(s, cut)
  OBVIOUS
<1>4. t = IF n = 0 THEN <<>> ELSE SubSeq(s, n, Len(s))
  BY <1>1, <1>3 DEF TrimLeft
<1>5. Len(s) \in Nat /\ s \o <<>> = s
  OBVIOUS
<1>6. \E a \in Seq(S) : t \in Seq(S) /\ s = a \o t /\ \A i \in 1..Len(a) : a[i] \in cut
  <2>1. CASE I = {}
    <3>1. n = 0 /\ t = <<>> /\ t \in Seq(S)
      BY <1>2, <1>4, <2>1
    <3>2. s = s \o t
      BY <1>5, <3>1
    <3>3. \A i \in 1..Len(s) : s[i] \in cut
      BY <2>1
    <3> QED
      BY <3>1, <3>2, <3>3
  <2>2. CASE I # {}
    <3>1. I \in SUBSET Nat
      OBVIOUS
    <3>2. n \in I /\ \A j \in I : n <= j
      <4> HIDE DEF I
      <4> QED
        BY <1>2, <2>2, <3>1, MinIsLeast
    <3>3. n \in 1..Len(s) /\ \A j \in 1..(n - 1) : s[j] \in cut
      BY <3>2
    <3>4. PICK k : k = n - 1
      OBVIOUS
    <3>5. k \in 0..Len(s) /\ k + 1 = n /\ n # 0
      BY <3>3, <3>4
    <3>6. PICK a : a = SubSeq(s, 1, k)
      OBVIOUS
    <3>7. a \in Seq(S) /\ Len(a) = k /\ \A j \in 1..k : a[j] = s[j]
      BY <3>5, <3>6
    <3>8. SubSeq(s, n, Len(s)) \in Seq(S) /\ s = SubSeq(s, 1, k) \o SubSeq(s, n, Len(s))
      BY <3>5, Halves
    <3>9. t \in Seq(S) /\ s = a \o t
      BY <3>5, <3>6, <3>8, <1>4
    <3>10. \A j \in 1..Len(a) : a[j] \in cut
      BY <3>3, <3>4, <3>7
    <3> QED
      BY <3>7, <3>9, <3>10
  <2> QED
    BY <2>1, <2>2
<1> QED
  BY <1>3, <1>6

\* What Trim takes away.
LEMMA TrimRest ==
  ASSUME NEW S, NEW s \in Seq(S), NEW cut
  PROVE  \E a, c \in Seq(S) : /\ s = a \o (Trim(s, cut) \o c)
                              /\ \A i \in 1..Len(a) : a[i] \in cut
                              /\ \A i \in 1..Len(c) : c[i] \in cut
<1>1. PICK t : t = TrimLeft(s, cut)
  OBVIOUS
<1>2. PICK a \in Seq(S) : t \in Seq(S) /\ s = a \o t /\ \A i \in 1..Len(a) : a[i] \in cut
  BY <1>1, TrimLeftRest
<1>3. PICK c \in Seq(S) : t = TrimRight(t, cut) \o c /\ \A i \in 1..Len(c) : c[i] \in cut
  BY <1>2, TrimRightRest
<1>4. TrimRight(t, cut) = Trim(s, cut)
  BY <1>1, Zenon DEF Trim
<1> QED
  BY <1>2, <1>3, <1>4, Zenon

\* Parameters that no comma divides.
Undivided(p) == p \in Seq(Char) /\ \A j \in 1..Len(p) : ~Splits(p, j)

\* The text q is within z behind a, which has no quotes.
Placed(a, q, z, m) ==
    /\ a \in Seq(Char) /\ q \in Seq(Char) /\ m = Len(a)
    /\ \A i \in 1..Len(a) : a[i] # DQ
    /\ \A i \in 1..m : z[i] = a[i]
    /\ \A i \in 1..Len(q) : z[m + i] = q[i]
SameSplits(q, z, m) == \A j \in 1..Len(q) : Splits(z, m + j) <=> Splits(q, j)

\* Without quotes before it, a text is divided where it is divided within another one.
LEMMA SplitsWithin ==
  ASSUME NEW a, NEW q, NEW z, NEW m, Placed(a, q, z, m)
  PROVE  SameSplits(q, z, m)
<1>0. /\ a \in Seq(Char) /\ q \in Seq(Char) /\ m = Len(a)
      /\ \A i \in 1..Len(a) : a[i] # DQ
      /\ \A i \in 1..m : z[i] = a[i]
      /\ \A i \in 1..Len(q) : z[m + i] = q[i]
  BY Zenon DEF Placed
<1>1. m \in Nat /\ Len(q) \in Nat
  BY <1>0
<1>2. QuotesTo(z, m) = 0
  <2>1. {i \in 1..m : z[i] = DQ} = {}
    BY <1>0
  <2> QED
    BY <2>1, FS_EmptySet DEF QuotesTo
<1>3. PICK n : n = Len(q)
  OBVIOUS
<1>4. Within(q, z, m, n)
  BY <1>0, <1>1, <1>3, Zenon DEF Within
<1>5. QuotesWithin(q, z, m, n)
  BY <1>4, QuotesToShift, Zenon
<1>6. ASSUME NEW j \in 1..n PROVE Splits(z, m + j) <=> Splits(q, j)
  <2>1. j \in 0..n
    BY <1>1, <1>3
  <2>2. QuotesTo(z, m + j) = 0 + QuotesTo(q, j)
    BY <1>2, <1>5, <2>1, Zenon DEF QuotesWithin
  <2>3. QuotesTo(q, j) \in Nat
    BY <2>1, <1>1, <1>3, QuotesToNext
  <2>4. QuotesTo(z, m + j) = QuotesTo(q, j)
    BY <2>2, <2>3
  <2>5. z[m + j] = q[j]
    BY <1>0, <1>3
  <2> QED
    BY <2>4, <2>5, Zenon DEF Splits
<1> QED
  BY <1>3, <1>6, Zenon DEF SameSplits

\* What is between two divided parts, and what Param takes away, divides nothing.
LEMMA UndividedInside ==
  ASSUME NEW z, Undivided(z)
  PROVE  Undivided(Param(z))
<1>1. z \in Seq(Char) /\ \A j \in 1..Len(z) : ~Splits(z, j)
  BY Zenon DEF Undivided
<1>2. PICK q : q = Param(z)
  OBVIOUS
<1>3. q = Trim(z, ParamCut)
  BY <1>2, Zenon DEF Param, ParamCut
<1>4. q \in Seq(Char)
  BY <1>1, <1>3, Trimmed
<1>5. PICK a, c \in Seq(Char) : z = a \o (Trim(z, ParamCut) \o c) /\ \A i \in 1..Len(a) : a[i] \in ParamCut
  BY <1>1, TrimRest
<1>6. PICK m : m = Len(a)
  OBVIOUS
<1>7. PICK qc : qc = q \o c
  OBVIOUS
<1>8. PICK n : n = Len(q)
  OBVIOUS
<1>9. PICK k : k = Len(c)
  OBVIOUS
<1>10. Over(Char, a, m) /\ Over(Char, q, n) /\ Over(Char, c, k)
  <2>1. Len(a) \in Nat /\ Len(q) \in Nat /\ Len(c) \in Nat
    BY <1>4, <1>5, SeqFacts, Zenon
  <2> QED
    BY <2>1, <1>4, <1>5, <1>6, <1>8, <1>9, Zenon DEF Over
<1>11. PutTogether(Char, qc, q, n, c, k)
  BY <1>7, <1>10, Together, Zenon
<1>12. qc \in Seq(Char) /\ Len(qc) = n + k /\ n \in Nat /\ k \in Nat /\ \A i \in 1..n : qc[i] = q[i]
  BY <1>10, <1>11, Zenon DEF PutTogether, Over
<1>13. z = a \o qc
  BY <1>3, <1>5, <1>7, Zenon
<1>14. PICK l : l = Len(qc)
  OBVIOUS
<1>15. Over(Char, qc, l)
  BY <1>12, <1>14, SeqFacts, Zenon DEF Over
<1>16. PutTogether(Char, z, a, m, qc, l)
  BY <1>10, <1>13, <1>15, Together, Zenon
<1>17. /\ Len(z) = m + l /\ m \in Nat /\ l = n + k
       /\ \A i \in 1..m : z[i] = a[i]
       /\ \A i \in 1..l : z[m + i] = qc[i]
  BY <1>10, <1>12, <1>14, <1>16, Zenon DEF PutTogether, Over
<1>18. \A i \in 1..Len(q) : z[m + i] = q[i]
  BY <1>8, <1>12, <1>17
<1>19. \A i \in 1..Len(a) : a[i] # DQ
  <2>1. DQ \notin ParamCut
    BY DEF DQ, ParamCut
  <2> QED
    BY <2>1, <1>5, Zenon
<1>20. \A j \in 1..Len(q) : Splits(z, m + j) <=> Splits(q, j)
  <2>1. \A i \in 1..m : z[i] = a[i]
    BY <1>17
  <2> QED
    <3>1. Placed(a, q, z, m)
      BY <2>1, <1>4, <1>5, <1>6, <1>18, <1>19, Zenon DEF Placed
    <3> QED
      BY <3>1, SplitsWithin DEF SameSplits
<1>21. ASSUME NEW j \in 1..Len(q) PROVE ~Splits(q, j)
  <2>1. m + j \in 1..Len(z)
    BY <1>8, <1>12, <1>17
  <2> QED
    BY <2>1, <1>1, <1>20
<1> QED
  BY <1>2, <1>4, <1>21, Zenon DEF Undivided

\* The semicolon before them does not divide parameters.
LEMMA UndividedText ==
  ASSUME NEW q, Undivided(q)
  PROVE  Undivided(ParamText(";", q))
<1>0. q \in Seq(Char) /\ \A j \in 1..Len(q) : ~Splits(q, j)
  BY Zenon DEF Undivided
<1>1. CASE q = <<>>
  BY <1>1, Zenon DEF ParamText
<1>2. CASE q # <<>>
  <2>1. PICK a : a = <<";">>
    OBVIOUS
  <2>2. PICK p : p = a \o q
    OBVIOUS
  <2>3. ParamText(";", q) = p
    BY <1>2, <2>1, <2>2, Zenon DEF ParamText
  <2>4. a \in Seq(Char) /\ Len(a) = 1 /\ a[1] # "," /\ a[1] # DQ
    <3>1. ";" \in Char /\ ";" # "," /\ ";" # DQ
      BY DEF Char, Plain, Reserved, DQ
    <3>2. \A c \in Char : <<c>> \in Seq(Char) /\ Len(<<c>>) = 1 /\ <<c>>[1] = c
      OBVIOUS
    <3> QED
      BY <2>1, <3>1, <3>2, Zenon
  <2>5. PICK n : n = Len(q)
    OBVIOUS
  <2>6. Over(Char, a, 1) /\ Over(Char, q, n) /\ n \in Nat
    <3>1. 1 \in Nat /\ Len(q) \in Nat
      BY <1>0
    <3> QED
      BY <3>1, <1>0, <2>4, <2>5, Zenon DEF Over
  <2>7. PutTogether(Char, p, a, 1, q, n)
    BY <2>2, <2>6, Together, Zenon
  <2>8. /\ p \in Seq(Char) /\ Len(p) = 1 + n
        /\ \A i \in 1..1 : p[i] = a[i]
        /\ \A i \in 1..n : p[1 + i] = q[i]
    BY <2>7 DEF PutTogether
  <2>9. \A j \in 1..Len(q) : Splits(p, 1 + j) <=> Splits(q, j)
    <3>1. \A i \in 1..Len(a) : a[i] # DQ
      <4>1. \A i \in 1..1 : i = 1
        OBVIOUS
      <4> QED
        BY <2>4, <4>1, Zenon
    <3>2. PICK m : m = Len(a)
      OBVIOUS
    <3>3. m = 1
      BY <2>4, <3>2, Zenon
    <3>4. /\ \A i \in 1..m : p[i] = a[i]
          /\ \A i \in 1..Len(q) : p[m + i] = q[i]
      BY <2>5, <2>8, <3>3
    <3>5. \A j \in 1..Len(q) : Splits(p, m + j) <=> Splits(q, j)
      <4>1. Placed(a, q, p, m)
        BY <1>0, <2>4, <3>1, <3>2, <3>4, Zenon DEF Placed
      <4> QED
        BY <4>1, SplitsWithin DEF SameSplits
    <3> QED
      BY <3>3, <3>5, Zenon
  <2>10. ASSUME NEW j \in 1..Len(p) PROVE ~Splits(p, j)
    <3>1. CASE j = 1
      <4>1. p[1] = a[1]
        BY <2>8
      <4> QED
        BY <2>4, <3>1, <4>1, Zenon DEF Splits
    <3>2. CASE j # 1
      <4>1. PICK k : k = j - 1
        OBVIOUS
      <4>2. k \in 1..Len(q) /\ j = 1 + k
        BY <2>5, <2>6, <2>8, <3>2, <4>1
      <4> QED
        BY <1>0, <2>9, <4>2, Zenon
    <3> QED
      BY <3>1, <3>2
  <2> QED
    BY <2>3, <2>8, <2>10, Zenon DEF Undivided
<1> QED
  BY <1>1, <1>2

\* The parameters of a Via are not divided before they end.
LEMMA UndividedBefore ==
  ASSUME NEW s \in Seq(Char), NEW end, end = ParamsEnd(s),
         NEW q, q = IF end = 0 THEN s ELSE Upto(s, end)
  PROVE  Undivided(q)
<1>1. end \in 0..Len(s) /\ (end = 0 => \A j \in 1..Len(s) : ~Splits(s, j))
  BY ParamsEndIs
<1>2. CASE end = 0
  BY <1>1, <1>2, Zenon DEF Undivided
<1>3. CASE end # 0
  <2>1. PICK J : J = {j \in 1..Len(s) : Splits(s, j)}
    OBVIOUS
  <2>2. J \in SUBSET Nat
    BY <2>1
  <2>3. J # {}
    <3>1. CASE J = {}
      <4>1. \A j \in 1..Len(s) : ~Splits(s, j)
        BY <2>1, <3>1, Zenon
      <4>2. ParamsEnd(s) = 0
        BY <4>1, ParamsEndIs
      <4> QED
        BY <1>3, <4>2
    <3> QED
      BY <3>1
  <2>4. PICK k \in J : \A y \in J : k <= y
    BY <2>2, <2>3, Least
  <2>5. k \in 1..Len(s) /\ Splits(s, k)
    BY <2>1, <2>4, Zenon
  <2>6. ASSUME NEW j \in 1..(k - 1) PROVE ~Splits(s, j)
    <3>1. CASE Splits(s, j)
      <4>1. j \in 1..Len(s) /\ ~(k <= j)
        BY <2>5
      <4>2. j \in J
        BY <2>1, <3>1, <4>1, Zenon
      <4> QED
        BY <2>4, <4>1, <4>2, Zenon
    <3> QED
      BY <3>1
  <2>7. ParamsEnd(s) = k
    BY <2>5, <2>6, ParamsEndIs
  <2>8. k = end
    BY <2>7
  <2>9. q = Upto(s, k)
    BY <1>3, <2>8, Zenon
  <2>10. q \in Seq(Char) /\ Len(q) = k - 1 /\ \A i \in 1..(k - 1) : q[i] = s[i]
    <3>1. k \in 1..Len(s)
      BY <2>5
    <3>2. \A i \in 1..Len(s) : /\ Upto(s, i) \in Seq(Char) /\ Len(Upto(s, i)) = i - 1
                              /\ \A j \in 1..(i - 1) : Upto(s, i)[j] = s[j]
      BY CutAt
    <3> QED
      BY <3>1, <3>2, <2>9, Zenon
  <2>11. PICK a : a = <<>>
    OBVIOUS
  <2>12. a \in Seq(Char) /\ Len(a) = 0
    BY <2>11
  <2>13. PICK m : m = Len(a)
    OBVIOUS
  <2>14. \A i \in 1..Len(q) : s[m + i] = q[i] /\ m + i = i
    BY <2>5, <2>10, <2>12, <2>13
  <2>15. \A j \in 1..Len(q) : Splits(s, m + j) <=> Splits(q, j)
    <3>1. (\A i \in 1..Len(a) : a[i] # DQ) /\ (\A i \in 1..m : s[i] = a[i])
      BY <2>12, <2>13
    <3>2. \A i \in 1..Len(q) : s[m + i] = q[i]
      BY <2>14
    <3>3. q \in Seq(Char)
      BY <2>10
    <3>4. Placed(a, q, s, m)
      BY <2>12, <2>13, <3>1, <3>2, <3>3, Zenon DEF Placed
    <3> QED
      BY <3>4, SplitsWithin DEF SameSplits
  <2>16. \A j \in 1..Len(q) : ~Splits(q, j)
    BY <2>6, <2>10, <2>14, <2>15
  <2> QED
    BY <2>10, <2>16, Zenon DEF Undivided
<1> QED
  BY <1>2, <1>3

\* The sent-by has none of the characters that end it.
LEMMA ByBefore ==
  ASSUME NEW s \in Seq(Char), NEW by, by = ByEnd(s),
         NEW w, w = IF by = 0 THEN s ELSE Upto(s, by)
  PROVE  w \in Seq(Char \ BySep)
<1>1. PICK J : J = {j \in 1..Len(s) : s[j] \in BySep}
  OBVIOUS
<1>2. J \in SUBSET Nat
  BY <1>1
<1>3. CASE J = {}
  <2>1. \A j \in 1..Len(s) : s[j] \notin BySep
    BY <1>1, <1>3, Zenon
  <2>2. w = s
    BY <2>1, ByEndIs
  <2>3. \A j \in 1..Len(s) : s[j] \in Char \ BySep
    BY <2>1
  <2> QED
    BY <2>2, <2>3, SeqOver
<1>4. CASE J # {}
  <2>1. PICK k \in J : \A y \in J : k <= y
    BY <1>2, <1>4, Least
  <2>2. k \in 1..Len(s) /\ s[k] \in BySep
    BY <1>1, <2>1, Zenon
  <2>3. ASSUME NEW j \in 1..(k - 1) PROVE s[j] \notin BySep
    <3>1. CASE s[j] \in BySep
      <4>1. j \in 1..Len(s) /\ ~(k <= j)
        BY <2>2
      <4>2. j \in J
        BY <1>1, <3>1, <4>1, Zenon
      <4> QED
        BY <2>1, <4>1, <4>2, Zenon
    <3> QED
      BY <3>1
  <2>4. ByEnd(s) = k
    BY <2>2, <2>3, ByEndIs
  <2>5. w = Upto(s, k)
    BY <2>2, <2>4
  <2>6. w \in Seq(Char) /\ Len(w) = k - 1 /\ \A i \in 1..(k - 1) : w[i] = s[i]
    <3>1. k \in 1..Len(s)
      BY <2>2
    <3>2. \A i \in 1..Len(s) : /\ Upto(s, i) \in Seq(Char) /\ Len(Upto(s, i)) = i - 1
                              /\ \A j \in 1..(i - 1) : Upto(s, i)[j] = s[j]
      BY CutAt
    <3> QED
      BY <3>1, <3>2, <2>5, Zenon
  <2>7. \A i \in 1..Len(w) : w[i] \in Char \ BySep
    BY <2>3, <2>6
  <2> QED
    BY <2>6, <2>7, SeqOver
<1> QED
  BY <1>3, <1>4

\* A Via that was read.
ViaIsRead(via) ==
    /\ via.SentProtocol \in Seq(Char \ {" "}) /\ via.SentProtocol # <<>>
    /\ via.SentBy \in Seq(Char \ BySep) /\ Ends(via.SentBy, Blank)
    /\ Undivided(via.RawParameter) /\ Ends(via.RawParameter, ParamCut)
    /\ via = ViaRecord(via.SentProtocol, via.SentBy, via.RawParameter)

\* ... as FirstVia takes it apart.
LEMMA FirstViaParts ==
  ASSUME NEW t \in Seq(Char), FirstVia(t).via # Panics
  PROVE  ViaIsRead(FirstVia(t).via)
<1>1. PICK s : s = Trim(t, Blank)
  OBVIOUS
<1>2. PICK sp : sp = IndexByte(s, " ")
  OBVIOUS
<1>3. PICK rest : rest = Trim(After(s, sp), Blank)
  OBVIOUS
<1>4. PICK by : by = ByEnd(rest)
  OBVIOUS
<1>5. PICK params : params = ParamsFrom(rest, by)
  OBVIOUS
<1>6. PICK end : end = ParamsEnd(params)
  OBVIOUS
<1>7. ViaAt(t, s, sp, rest, params)
  BY <1>1, <1>2, <1>3, <1>4, <1>5, Zenon DEF ViaAt
<1>8. sp # 0
  <2>1. CASE sp = 0
    <3>1. FirstVia(t) = [via |-> Panics, left |-> <<>>]
      BY <1>7, <2>1, FirstViaAt, Zenon
    <3>2. \A v, l : [via |-> v, left |-> l].via = v
      OBVIOUS
    <3> QED
      BY <3>1, <3>2, Zenon
  <2> QED
    BY <2>1
<1>9. PICK l : FirstVia(t) =
                 [via |-> ViaRecord(Upto(s, sp), ByUpto(rest, by), ParamUpto(params, end)), left |-> l]
  <2>1. FirstVia(t) =
          [via  |-> ViaRecord(Upto(s, sp), ByUpto(rest, ByEnd(rest)), ParamUpto(params, ParamsEnd(params))),
           left |-> LeftFrom(params, ParamsEnd(params))]
    BY <1>7, <1>8, FirstViaAt, Zenon
  <2> QED
    BY <2>1, <1>4, <1>6, Zenon
<1>10. PICK a : a = Upto(s, sp)
  OBVIOUS
<1>11. PICK b : b = ByUpto(rest, by)
  OBVIOUS
<1>12. PICK q : q = ParamUpto(params, end)
  OBVIOUS
<1>13. FirstVia(t).via = ViaRecord(a, b, q)
  <2>1. \A v : [via |-> v, left |-> l].via = v
    OBVIOUS
  <2> QED
    BY <2>1, <1>9, <1>10, <1>11, <1>12, Zenon
<1>14. s \in Seq(Char) /\ (s # <<>> => s[1] \notin Blank)
  BY <1>1, Trimmed
<1>15. /\ sp \in 0..Len(s) /\ s[sp] = " "
       /\ \A i \in 1..(sp - 1) : s[i] # " "
  BY <1>2, <1>8, <1>14, IndexByteIsFirst
<1>16. sp \in 1..Len(s)
  <2>1. s \in Seq(Char) /\ sp \in 0..Len(s)
    BY <1>14, <1>15, Zenon
  <2> QED
    BY <2>1, <1>8
<1>17. a \in Seq(Char \ {" "}) /\ a # <<>>
  <2>1. /\ a \in Seq(Char) /\ Len(a) = sp - 1
        /\ \A k \in 1..(sp - 1) : a[k] = s[k]
    BY <1>10, <1>14, <1>16, CutAt
  <2>2. ASSUME NEW k \in 1..Len(a) PROVE a[k] \in Char \ {" "}
    <3>1. k \in 1..(sp - 1)
      BY <2>1
    <3>2. a[k] # " "
      BY <2>1, <1>15, <3>1, Zenon
    <3>3. a[k] \in Char
      BY <2>1
    <3> QED
      BY <3>2, <3>3, Zenon
  <2>3. sp # 1
    <3>1. s # <<>>
      BY <1>14, <1>16
    <3>2. s[1] # " "
      BY <3>1, <1>14, Zenon DEF Blank
    <3> QED
      BY <3>2, <1>15
  <2>4. Len(a) # 0
    BY <2>1, <2>3, <1>16
  <2> QED
    <3>1. a \in Seq(Char \ {" "})
      BY <2>1, <2>2, SeqOver
    <3>2. Len(<<>>) = 0
      OBVIOUS
    <3> QED
      BY <3>1, <3>2, <2>4, Zenon
<1>18. After(s, sp) \in Seq(Char)
  BY <1>14, <1>16, CutAt
<1>19. rest \in Seq(Char)
  BY <1>3, <1>18, Trimmed
<1>20. b \in Seq(Char \ BySep) /\ Ends(b, Blank)
  <2>1. PICK w : w = IF by = 0 THEN rest ELSE Upto(rest, by)
    OBVIOUS
  <2>2. w \in Seq(Char \ BySep)
    BY <2>1, <1>4, <1>19, ByBefore
  <2>3. b = Trim(w, Blank)
    BY <2>1, <1>11, Zenon DEF ByUpto
  <2> QED
    BY <2>2, <2>3, Trimmed DEF Ends
<1>21. params \in Seq(Char)
  <2>1. CASE by = 0
    BY <2>1, <1>5 DEF ParamsFrom
  <2>2. CASE by # 0
    <3>1. by \in 1..Len(rest)
      BY <2>2, <1>4, <1>19, ByEndIs
    <3>2. params = SubSeq(rest, by, Len(rest))
      BY <2>2, <1>5, Zenon DEF ParamsFrom
    <3> QED
      BY <3>1, <3>2, <1>19
  <2> QED
    BY <2>1, <2>2
<1>22. Undivided(q) /\ Ends(q, ParamCut)
  <2>1. PICK z : z = IF end = 0 THEN params ELSE Upto(params, end)
    OBVIOUS
  <2>2. Undivided(z)
    BY <2>1, <1>6, <1>21, UndividedBefore
  <2>3. q = Param(z)
    BY <2>1, <1>12, Zenon DEF ParamUpto
  <2>4. Undivided(q)
    BY <2>2, <2>3, UndividedInside, Zenon
  <2>5. q = Trim(z, ParamCut) /\ z \in Seq(Char)
    BY <2>2, <2>3, Zenon DEF Param, ParamCut, Undivided
  <2> QED
    BY <2>4, <2>5, Trimmed DEF Ends
<1>23. PICK via : via = ViaRecord(a, b, q)
  OBVIOUS
<1>24. via.SentProtocol = a /\ via.SentBy = b /\ via.RawParameter = q
  BY <1>23 DEF ViaRecord
<1>25. ViaIsRead(via)
  BY <1>17, <1>20, <1>22, <1>23, <1>24, Zenon DEF ViaIsRead
<1> QED
  BY <1>13, <1>23, <1>25, Zenon

\* What follows the semicolon of the parameters.
LEMMA ParamTextEnds ==
  ASSUME NEW q \in Seq(Char), Ends(q, ParamCut), q # <<>>, NEW p, p = ParamText(";", q)
  PROVE  p \in Seq(Char) /\ p # <<>> /\ p[1] = ";" /\ p[Len(p)] = q[Len(q)]
<1>1. PICK e : e = <<";">>
  OBVIOUS
<1>2. e \in Seq(Char) /\ e # <<>> /\ e[1] = ";"
  <2>1. ";" \in Char
    BY DEF Char, Plain, Reserved
  <2>2. <<";">> \in Seq(Char) /\ <<";">> # <<>> /\ Same(<<";">>[1], ";")
    BY <2>1, Single, Zenon
  <2> QED
    BY <1>1, <2>2, Zenon DEF Same
<1>3. p = e \o q
  BY <1>1, Zenon DEF ParamText
<1>4. p \in Seq(Char) /\ p # <<>> /\ p[1] = e[1]
  <2>1. e \o q \in Seq(Char) /\ e \o q # <<>> /\ Same((e \o q)[1], e[1])
    BY <1>2, FrontOf, Zenon
  <2> QED
    BY <1>3, <2>1, Zenon DEF Same
<1>5. p[Len(p)] = q[Len(q)]
  <2>1. Same((e \o q)[Len(e \o q)], q[Len(q)])
    BY <1>2, BackOf, Zenon
  <2> QED
    BY <1>3, <2>1, Zenon DEF Same
<1> QED
  BY <1>2, <1>4, <1>5, Zenon

\* Sent-by and parameters that have something in them.
ByAndParam(by, q, p, x) ==
    /\ by \in Seq(Char \ BySep) /\ by \in Seq(Char) /\ Ends(by, Blank)
    /\ Undivided(q) /\ q \in Seq(Char) /\ Ends(q, ParamCut)
    /\ by # <<>> \/ q # <<>>
    /\ p = ParamText(";", q) /\ p \in Seq(Char) /\ Param(p) = q
    /\ x = by \o p

\* ... do not begin or end with a blank.
LEMMA ByAndParamEnds ==
  ASSUME NEW by, NEW q, NEW p, NEW x, ByAndParam(by, q, p, x)
  PROVE  x \in Seq(Char) /\ Whole(x, Blank) /\ (p # <<>> => p[1] \in BySep)
<1>1. /\ by \in Seq(Char) /\ Ends(by, Blank)
      /\ q \in Seq(Char) /\ Ends(q, ParamCut)
      /\ by # <<>> \/ q # <<>>
      /\ p = ParamText(";", q) /\ p \in Seq(Char)
      /\ x = by \o p
  BY Zenon DEF ByAndParam
<1>2. by # <<>> => by[1] \notin Blank /\ by[Len(by)] \notin Blank
  BY <1>1, Zenon DEF Ends
<1>3. p # <<>> => p[1] = ";" /\ p[Len(p)] \notin Blank
  <2> SUFFICES ASSUME p # <<>> PROVE p[1] = ";" /\ p[Len(p)] \notin Blank
    OBVIOUS
  <2>1. q # <<>>
    BY <1>1, Zenon DEF ParamText
  <2>2. p[1] = ";" /\ p[Len(p)] = q[Len(q)]
    BY <1>1, <2>1, ParamTextEnds, Zenon
  <2>3. q[Len(q)] \notin ParamCut
    BY <1>1, <2>1, Zenon DEF Ends
  <2> QED
    BY <2>2, <2>3, Zenon DEF ParamCut, Blank
<1>4. ";" \notin Blank /\ ";" \in BySep
  BY DEF Blank, BySep
<1>5. x \in Seq(Char)
  BY <1>1, TogetherOver, Zenon
<1>6. CASE by = <<>>
  <2>1. Same(<<>> \o p, p)
    BY <1>1, SeqFacts, Zenon
  <2>2. x = p
    BY <2>1, <1>1, <1>6, Zenon DEF Same
  <2>3. p # <<>>
    <3>1. q # <<>>
      BY <1>1, <1>6, Zenon
    <3> QED
      BY <3>1, <1>1, ParamTextEnds, Zenon
  <2> QED
    BY <2>2, <2>3, <1>3, <1>4, <1>5, Zenon DEF Whole
<1>7. CASE by # <<>>
  <2>1. x # <<>> /\ x[1] = by[1]
    <3>1. by \o p # <<>> /\ Same((by \o p)[1], by[1])
      BY <1>1, <1>7, FrontOf, Zenon
    <3> QED
      BY <3>1, <1>1, Zenon DEF Same
  <2>2. x[Len(x)] \notin Blank
    <3>1. CASE p = <<>>
      <4>1. Same(by \o <<>>, by)
        BY <1>1, SeqFacts, Zenon
      <4>2. x = by
        BY <4>1, <3>1, <1>1, Zenon DEF Same
      <4> QED
        BY <4>2, <1>2, <1>7, Zenon
    <3>2. CASE p # <<>>
      <4>1. Same((by \o p)[Len(by \o p)], p[Len(p)])
        BY <1>1, <3>2, BackOf, Zenon
      <4>2. x[Len(x)] = p[Len(p)]
        BY <4>1, <1>1, Zenon DEF Same
      <4> QED
        BY <4>2, <3>2, <1>3, Zenon
    <3> QED
      BY <3>1, <3>2
  <2> QED
    BY <2>1, <2>2, <1>2, <1>3, <1>4, <1>5, <1>7, Zenon DEF Whole
<1> QED
  BY <1>6, <1>7

\* ... and are taken apart where they were put together.
LEMMA ByAndParamRead ==
  ASSUME NEW by, NEW q, NEW p, NEW x, ByAndParam(by, q, p, x)
  PROVE  /\ Same(ParamsFrom(x, ByEnd(x)), p)
         /\ Same(ByUpto(x, ByEnd(x)), by)
         /\ Same(ParamUpto(p, ParamsEnd(p)), q)
         /\ Same(LeftFrom(p, ParamsEnd(p)), <<>>)
<1>1. /\ by \in Seq(Char \ BySep) /\ by \in Seq(Char) /\ Ends(by, Blank)
      /\ Undivided(q)
      /\ p = ParamText(";", q) /\ p \in Seq(Char) /\ Param(p) = q
      /\ x = by \o p
  BY Zenon DEF ByAndParam
<1>2. p # <<>> => p[1] \in BySep
  BY ByAndParamEnds, Zenon
<1>3. PICK m : m = Len(by)
  OBVIOUS
<1>4. PICK n : n = Len(p)
  OBVIOUS
<1>5. Over(Char, by, m) /\ Over(Char, p, n)
  <2>1. Len(by) \in Nat /\ Len(p) \in Nat
    BY <1>1, SeqFacts, Zenon
  <2> QED
    BY <2>1, <1>1, <1>3, <1>4, Zenon DEF Over
<1>6. PutTogether(Char, x, by, m, p, n)
  BY <1>1, <1>5, Together, Zenon
<1>7. /\ x \in Seq(Char) /\ Len(x) = m + n /\ m \in Nat /\ n \in Nat
      /\ \A j \in 1..m : x[j] = by[j]
      /\ \A j \in 1..n : x[m + j] = p[j]
  BY <1>5, <1>6, Zenon DEF PutTogether, Over
<1>8. \A j \in 1..m : by[j] \notin BySep
  <2>1. by \in Seq(Char \ BySep)
    BY <1>1
  <2> QED
    BY <2>1, <1>3
<1>9. Trim(by, Blank) = by
  <2>1. by # <<>> => by[1] \notin Blank /\ by[Len(by)] \notin Blank
    BY <1>1, Zenon DEF Ends
  <2>2. by \in Seq(Char)
    BY <1>1
  <2> QED
    BY <2>1, <2>2, TrimNothing
<1>10. ParamsFrom(x, ByEnd(x)) = p /\ ByUpto(x, ByEnd(x)) = by
  <2>1. CASE p = <<>>
    <3>1. x = by
      <4>1. Same(by \o <<>>, by)
        BY <1>1, SeqFacts, Zenon
      <4> QED
        BY <4>1, <2>1, <1>1, Zenon DEF Same
    <3>2. ByEnd(x) = 0
      BY <3>1, <1>1, <1>3, <1>8, ByEndIs
    <3> QED
      BY <2>1, <3>1, <3>2, <1>9, Zenon DEF ParamsFrom, ByUpto
  <2>2. CASE p # <<>>
    <3>1. n # 0
      BY <2>2, <1>1, <1>4, EmptySeq
    <3>2. x[m + 1] \in BySep
      <4>1. 1 \in 1..n
        BY <3>1, <1>7
      <4>2. x[m + 1] = p[1]
        BY <4>1, <1>7, Zenon
      <4> QED
        BY <2>2, <4>2, <1>2, Zenon
    <3>3. m + 1 \in 1..Len(x) /\ (m + 1) - 1 = m /\ m + 1 # 0
      BY <3>1, <1>7
    <3>4. \A j \in 1..m : x[j] \notin BySep
      BY <1>7, <1>8
    <3>5. ByEnd(x) = m + 1
      BY <3>2, <3>3, <3>4, <1>7, ByEndIs
    <3>6. /\ Same(Upto(x, m + 1), by)
          /\ Same(SubSeq(x, m + 1, Len(x)), p)
      BY <1>1, <1>3, CutBehind, Zenon
    <3> QED
      BY <3>3, <3>5, <3>6, <1>9, Zenon DEF ParamsFrom, ByUpto, Same
  <2> QED
    BY <2>1, <2>2
<1>11. ParamsEnd(p) = 0
  <2>1. Undivided(p)
    BY <1>1, UndividedText, Zenon
  <2>2. p \in Seq(Char) /\ \A j \in 1..Len(p) : ~Splits(p, j)
    BY <2>1, Zenon DEF Undivided
  <2> QED
    BY <2>2, ParamsEndIs
<1> QED
  BY <1>1, <1>10, <1>11, Zenon DEF ParamUpto, LeftFrom, Same

\* A Via that has something behind its protocol is read as it is written.
ViaReads(via) ==
    /\ ViaString(via) \in Seq(Char) /\ Whole(ViaString(via), Blank)
    /\ FirstVia(ViaString(via)).via = via /\ FirstVia(ViaString(via)).left = <<>>

\* What was read from a Via field is written so that it is read again.
LEMMA ViaWritten ==
  ASSUME NEW via, ViaIsRead(via), via.SentBy # <<>> \/ via.RawParameter # <<>>
  PROVE  ViaReads(via)
<1>1. PICK a : a = via.SentProtocol
  OBVIOUS
<1>2. PICK by : by = via.SentBy
  OBVIOUS
<1>3. PICK q : q = via.RawParameter
  OBVIOUS
<1>4. /\ a \in Seq(Char \ {" "}) /\ a # <<>>
      /\ by \in Seq(Char \ BySep) /\ Ends(by, Blank)
      /\ Undivided(q) /\ Ends(q, ParamCut)
      /\ via = ViaRecord(a, by, q)
      /\ by # <<>> \/ q # <<>>
  BY <1>1, <1>2, <1>3, Zenon DEF ViaIsRead
<1>5. q \in Seq(Char)
  BY <1>4, Zenon DEF Undivided
<1>6. a \in Seq(Char) /\ by \in Seq(Char)
  <2>1. Char \ {" "} \subseteq Char /\ Char \ BySep \subseteq Char
    OBVIOUS
  <2> QED
    BY <2>1, <1>4, SeqSub, Zenon
<1>7. PICK p : p = ParamText(";", q)
  OBVIOUS
<1>8. q # <<>> => q[1] \notin ParamCut /\ q[Len(q)] \notin ParamCut
  BY <1>4, Zenon DEF Ends
<1>9. p \in Seq(Char) /\ Param(p) = q /\ \A s \in Seq(Char) : WithParam(s, q) = s \o p
  BY <1>5, <1>7, <1>8, ParamKept, Zenon
<1>10. PICK x : x = by \o p
  OBVIOUS
<1>11. ByAndParam(by, q, p, x)
  BY <1>4, <1>5, <1>6, <1>7, <1>9, <1>10, Zenon DEF ByAndParam
<1>12. x \in Seq(Char) /\ x # <<>> /\ x[1] \notin Blank /\ x[Len(x)] \notin Blank
  BY <1>11, ByAndParamEnds, Zenon DEF Whole
<1>13. PICK e : e = <<" ">>
  OBVIOUS
<1>14. " " \in Char /\ e \in Seq(Char)
  <2>1. " " \in Char
    BY DEF Char, Plain, Other
  <2>2. <<" ">> \in Seq(Char)
    BY <2>1, Single, Zenon
  <2> QED
    BY <2>1, <2>2, <1>13, Zenon
<1>15. PICK ae : ae = a \o e
  OBVIOUS
<1>16. ae \in Seq(Char) /\ ae # <<>> /\ ae[1] = a[1]
  <2>1. a \o e \in Seq(Char) /\ a \o e # <<>> /\ Same((a \o e)[1], a[1])
    BY <1>4, <1>6, <1>14, FrontOf, Zenon
  <2> QED
    BY <2>1, <1>15, Zenon DEF Same
<1>17. PICK t : t = ViaString(via)
  OBVIOUS
<1>18. t = ae \o x
  <2>1. via.SentProtocol \o <<" ">> \o via.SentBy = ae \o by
    BY <1>1, <1>2, <1>13, <1>15, Zenon
  <2>2. ae \o by \in Seq(Char)
    BY <1>6, <1>16, TogetherOver, Zenon
  <2>3. t = WithParam(ae \o by, q)
    BY <1>3, <1>17, <2>1, Zenon DEF ViaString
  <2>4. t = (ae \o by) \o p
    BY <1>9, <2>2, <2>3, Zenon
  <2>5. Same((ae \o by) \o p, ae \o (by \o p))
    BY <1>6, <1>9, <1>16, Regrouped, Zenon
  <2> QED
    BY <2>4, <2>5, <1>10, Zenon DEF Same
<1>19. t = a \o <<" ">> \o x
  BY <1>13, <1>15, <1>18, Zenon
<1>20. t \in Seq(Char) /\ t # <<>> /\ t[1] = a[1] /\ t[Len(t)] = x[Len(x)]
  <2>1. ae \o x \in Seq(Char) /\ ae \o x # <<>> /\ Same((ae \o x)[1], ae[1])
    BY <1>12, <1>16, FrontOf, Zenon
  <2>2. Same((ae \o x)[Len(ae \o x)], x[Len(x)])
    BY <1>12, <1>16, BackOf, Zenon
  <2> QED
    BY <2>1, <2>2, <1>16, <1>18, Zenon DEF Same
<1>21. a[1] \notin Blank
  <2>1. a[1] \in Char \ {" "}
    BY <1>4, SeqFacts, Zenon
  <2> QED
    BY <2>1 DEF Blank
<1>22. Whole(t, Blank)
  BY <1>12, <1>20, <1>21, Zenon DEF Whole
<1>23. \A z : z \in Seq(Char) /\ z[1] \notin Blank /\ z[Len(z)] \notin Blank => Trim(z, Blank) = z
  BY TrimNothing
<1>24. Trim(t, Blank) = t /\ Trim(x, Blank) = x
  BY <1>12, <1>20, <1>21, <1>23, Zenon
<1>25. PICK m : m = Len(a) + 1
  OBVIOUS
<1>26. IndexByte(t, " ") = m
  <2>1. \A c : c \in Char /\ a \in Seq(Char \ {c}) => IndexByte(a \o <<c>> \o x, c) = Len(a) + 1
    BY <1>12, FirstFound
  <2> QED
    BY <2>1, <1>4, <1>14, <1>19, <1>25, Zenon
<1>27. Upto(t, m) = a /\ After(t, m) = x
  <2>1. /\ Upto(a \o <<" ">> \o x, Len(a) + 1) = a
        /\ After(a \o <<" ">> \o x, Len(a) + 1) = x
    BY <1>6, <1>12, <1>14, JointParts
  <2> QED
    BY <2>1, <1>19, <1>25, Zenon
<1>28. m # 0
  <2>1. Len(a) + 1 # 0
    BY <1>6, SeqFacts, Zenon
  <2> QED
    BY <2>1, <1>25, Zenon
<1>29. /\ Same(ParamsFrom(x, ByEnd(x)), p)
       /\ Same(ByUpto(x, ByEnd(x)), by)
       /\ Same(ParamUpto(p, ParamsEnd(p)), q)
       /\ Same(LeftFrom(p, ParamsEnd(p)), <<>>)
  BY <1>11, ByAndParamRead, Zenon
<1>30. /\ ParamsFrom(x, ByEnd(x)) = p /\ ByUpto(x, ByEnd(x)) = by
       /\ ParamUpto(p, ParamsEnd(p)) = q /\ LeftFrom(p, ParamsEnd(p)) = <<>>
  BY <1>29, Zenon DEF Same
<1>31. ViaAt(t, t, m, x, p)
  BY <1>24, <1>26, <1>27, <1>30, Zenon DEF ViaAt
<1>32. FirstVia(t) =
         [via  |-> ViaRecord(Upto(t, m), ByUpto(x, ByEnd(x)), ParamUpto(p, ParamsEnd(p))),
          left |-> LeftFrom(p, ParamsEnd(p))]
  BY <1>28, <1>31, FirstViaAt, Zenon
<1>33. FirstVia(t) = [via |-> via, left |-> <<>>]
  BY <1>4, <1>27, <1>30, <1>32, Zenon
<1>34. \A v, l : [via |-> v, left |-> l].via = v /\ [via |-> v, left |-> l].left = l
  OBVIOUS
<1> QED
  <2>1. FirstVia(t).via = via /\ FirstVia(t).left = <<>>
    BY <1>33, <1>34, Zenon
  <2> QED
    BY <2>1, <1>17, <1>20, <1>22, Zenon DEF ViaReads

\* Every item of a list is the first one of some text.
LEMMA ItemsOver ==
  ASSUME NEW f, NEW h, NEW n, Items(f, h, n), Shortens(n),
         NEW H, \A t \in Text : t # <<>> => h[t] \in H
  PROVE  \A t \in Text : f[t] \in Seq(H)
<1>1. \A t \in Text : f[t] = IF t = <<>> THEN <<>> ELSE <<h[t]>> \o f[n[t]]
  BY Zenon DEF Items
<1>2. \A t \in Text : t # <<>> => n[t] \in Text /\ Len(n[t]) < Len(t)
  BY Zenon DEF Shortens
<1>3. \A t \in Text : Len(t) \in Nat
  BY DEF Text
<1> DEFINE T == {k \in Nat : \E t \in Text : Len(t) = k /\ f[t] \notin Seq(H)}
<1>4. T = {}
  <2> SUFFICES ASSUME T # {} PROVE FALSE
    OBVIOUS
  <2>1. PICK k \in T : \A j \in T : k <= j
    BY Least
  <2>2. PICK t \in Text : Len(t) = k /\ f[t] \notin Seq(H)
    BY <2>1
  <2>3. t # <<>>
    <3>1. <<>> \in Seq(H)
      OBVIOUS
    <3> QED
      BY <1>1, <2>2, <3>1, Zenon
  <2>4. PICK u : u = n[t]
    OBVIOUS
  <2>5. u \in Text /\ Len(u) < Len(t)
    BY <1>2, <2>2, <2>3, <2>4, Zenon
  <2>6. f[u] \in Seq(H)
    <3>1. Len(u) \in Nat /\ ~(k <= Len(u))
      BY <1>3, <2>2, <2>5
    <3>2. Len(u) \notin T
      BY <2>1, <3>1
    <3> QED
      BY <2>5, <3>1, <3>2
  <2>7. <<h[t]>> \in Seq(H)
    <3>1. h[t] \in H
      BY <2>2, <2>3
    <3> QED
      BY <3>1, Single, Zenon
  <2>8. <<h[t]>> \o f[u] \in Seq(H)
    BY <2>6, <2>7, TogetherOver, Zenon
  <2> QED
    BY <1>1, <2>2, <2>3, <2>4, <2>8, Zenon
<1> QED
  <2> SUFFICES ASSUME NEW t \in Text PROVE f[t] \in Seq(H)
    OBVIOUS
  <2>1. Len(t) \in Nat
    BY <1>3
  <2> QED
    BY <1>4, <2>1

\* A text of one item.
LEMMA OneItem ==
  ASSUME NEW f, NEW h, NEW n, Items(f, h, n), NEW t \in Text, t # <<>>, n[t] = <<>>
  PROVE  Same(f[t], <<h[t]>>)
<1>1. \A s \in Text : f[s] = IF s = <<>> THEN <<>> ELSE <<h[s]>> \o f[n[s]]
  BY Zenon DEF Items
<1>2. <<>> \in Text
  BY DEF Text
<1>3. f[<<>>] = <<>>
  BY <1>1, <1>2, Zenon
<1>4. f[t] = <<h[t]>> \o <<>>
  BY <1>1, <1>3, Zenon
<1>5. <<h[t]>> \in Seq({h[t]})
  <2>1. h[t] \in {h[t]}
    OBVIOUS
  <2> QED
    BY <2>1, Single, Zenon
<1>6. Same(<<h[t]>> \o <<>>, <<h[t]>>)
  BY <1>5, SeqFacts, Zenon
<1> QED
  BY <1>4, <1>6, Zenon DEF Same

\* What FirstVia finds in a text.
SomeVias == {FirstVia(t).via : t \in Text}

\* Every Via of a message was found in some text.
LEMMA ViasFound ==
  ASSUME NEW values \in Seq(Text)
  PROVE  AllVias(values) \in Seq(SomeVias)
<1>1. PICK N : N = Len(values)
  OBVIOUS
<1>2. N \in Nat /\ \A i \in 1..N : values[i] \in Text
  BY <1>1
<1>3. PICK g : StackSteps(values, N, g)
  BY <1>1, <1>2, AllViasSteps, Zenon
<1>4. /\ AllVias(values) = g[N]
      /\ g[0] = NoVias
      /\ \A i \in 1..N : g[i] = ParseVias(values[i], g[i - 1])
  BY <1>3, Zenon DEF StackSteps
<1>5. PICK f : Items(f, FirstVias, ViasLeft) /\ \A s, v : ParseVias(s, v) = Reverse(f[s]) \o v
  BY ViasRead, Zenon
<1>6. \A t \in Text : f[t] \in Seq(SomeVias)
  <2>1. \A t \in Text : t # <<>> => FirstVias[t] \in SomeVias
    BY DEF FirstVias, SomeVias
  <2> QED
    BY <1>5, <2>1, ViasShorten, ItemsOver
<1>7. PICK R : R = Seq(SomeVias)
  OBVIOUS
<1> DEFINE G == {i \in 0..N : g[i] \in R}
<1>8. 0 \in G
  <2>1. NoVias \in Seq(SomeVias)
    BY DEF NoVias
  <2>2. g[0] \in R
    BY <2>1, <1>4, <1>7, Zenon
  <2> QED
    BY <2>2, <1>2
<1>9. ASSUME NEW i \in 1..N, i - 1 \in G PROVE i \in G
  <2>1. g[i - 1] \in Seq(SomeVias)
    BY <1>7, <1>9
  <2>2. f[values[i]] \in Seq(SomeVias)
    BY <1>2, <1>6
  <2>3. Reverse(f[values[i]]) \in Seq(SomeVias)
    BY <2>2, ReverseTwice, Zenon
  <2>4. Reverse(f[values[i]]) \o g[i - 1] \in Seq(SomeVias)
    BY <2>1, <2>3, TogetherOver, Zenon
  <2>5. g[i] \in R
    BY <2>4, <1>4, <1>5, <1>7, Zenon
  <2> QED
    BY <2>5, <1>2
<1>10. \A i \in 1..N : i - 1 \in G => i \in G
  BY <1>9
<1> HIDE DEF G
<1>11. \A i \in 0..N : i \in G
  BY <1>2, <1>8, <1>10, StepByStep
<1>12. N \in G
  BY <1>2, <1>11
<1>13. g[N] \in R
  BY <1>12 DEF G
<1> QED
  BY <1>4, <1>7, <1>13, Zenon

\* Vias that are written, each in a field of its own, are read again.
LEMMA ViasWritten ==
  ASSUME NEW S, NEW v \in Seq(S), \A i \in 1..Len(v) : ViaReads(v[i])
  PROVE  Same(AllVias(WriteVias(v)), v)
<1>1. PICK N : N = Len(v)
  OBVIOUS
<1>2. N \in Nat /\ DOMAIN v = 1..N
  BY <1>1
<1>3. PICK r : r = Reverse(v)
  OBVIOUS
<1>4. Len(r) = N /\ \A i \in 1..N : r[i] = v[(N - i) + 1]
  BY <1>1, <1>3, ReverseParts
<1>5. PICK w : w = WriteVias(v)
  OBVIOUS
<1>6. w = [i \in 1..N |-> ViaString(r[i])]
  BY <1>2, <1>3, <1>5, Zenon DEF WriteVias
<1>7. Len(w) = N /\ \A i \in 1..N : w[i] = ViaString(r[i])
  BY <1>2, <1>6
<1>8. PICK g : StackSteps(w, N, g)
  BY <1>2, <1>7, AllViasSteps, Zenon
<1>9. /\ AllVias(w) = g[N]
      /\ g[0] = NoVias
      /\ \A i \in 1..N : g[i] = ParseVias(w[i], g[i - 1])
  BY <1>8, Zenon DEF StackSteps
<1>10. PICK f : Items(f, FirstVias, ViasLeft) /\ \A s, u : ParseVias(s, u) = Reverse(f[s]) \o u
  BY ViasRead, Zenon
<1>11. ASSUME NEW i \in 1..N PROVE f[w[i]] = <<r[i]>>
  <2>1. ViaReads(r[i])
    <3>1. (N - i) + 1 \in 1..N
      BY <1>2
    <3>2. ViaReads(v[(N - i) + 1])
      BY <1>1, <3>1
    <3> QED
      BY <1>4, <3>2
  <2>2. PICK t : t = w[i]
    OBVIOUS
  <2>3. t = ViaString(r[i])
    BY <1>7, <2>2
  <2>4. t \in Text /\ t # <<>> /\ FirstVia(t).via = r[i] /\ FirstVia(t).left = <<>>
    BY <2>1, <2>3, Zenon DEF ViaReads, Whole, Text
  <2>5. FirstVias[t] = FirstVia(t).via /\ ViasLeft[t] = FirstVia(t).left
    BY <2>4 DEF FirstVias, ViasLeft
  <2>6. Same(f[t], <<FirstVias[t]>>)
    BY <1>10, <2>4, <2>5, OneItem, Zenon
  <2> QED
    BY <2>2, <2>4, <2>5, <2>6, Zenon DEF Same
<1>12. PICK T : T = [i \in 0..N |-> SubSeq(v, (N - i) + 1, N)]
  OBVIOUS
<1>13. T[0] = NoVias /\ T[N] = v
  <2>1. SubSeq(v, (N - 0) + 1, N) = <<>> /\ SubSeq(v, (N - N) + 1, N) = v
    BY <1>1, <1>2
  <2>2. 0 \in 0..N /\ N \in 0..N
    BY <1>2
  <2> QED
    BY <1>12, <2>1, <2>2, Zenon DEF NoVias
<1>14. ASSUME NEW i \in 1..N PROVE T[i] = <<r[i]>> \o T[i - 1]
  <2>1. PICK k : k = (N - i) + 1
    OBVIOUS
  <2>2. k \in 1..N /\ (N - (i - 1)) + 1 = k + 1 /\ i \in 0..N /\ i - 1 \in 0..N
    BY <1>2, <2>1
  <2>3. T[i] = SubSeq(v, k, N) /\ T[i - 1] = SubSeq(v, k + 1, N)
    <3>1. \A j \in 0..N : T[j] = SubSeq(v, (N - j) + 1, N)
      BY <1>12
    <3> QED
      BY <2>1, <2>2, <3>1
  <2>4. SubSeq(v, k, N) = <<v[k]>> \o SubSeq(v, k + 1, N)
    BY <1>1, <2>2
  <2> QED
    BY <1>4, <2>1, <2>3, <2>4
<1>15. \A i \in 1..N : Reverse(<<r[i]>>) = <<r[i]>>
  BY DEF Reverse
<1> DEFINE G == {i \in 0..N : g[i] = T[i]}
<1>16. 0 \in G
  BY <1>2, <1>9, <1>13
<1>17. ASSUME NEW i \in 1..N, i - 1 \in G PROVE i \in G
  <2>1. g[i - 1] = T[i - 1]
    BY <1>17
  <2>2. g[i] = Reverse(f[w[i]]) \o g[i - 1]
    BY <1>9, <1>10, Zenon
  <2>3. g[i] = T[i]
    BY <2>1, <2>2, <1>11, <1>14, <1>15, Zenon
  <2> QED
    BY <2>3, <1>2
<1>18. \A i \in 1..N : i - 1 \in G => i \in G
  BY <1>17
<1> HIDE DEF G
<1>19. \A i \in 0..N : i \in G
  BY <1>2, <1>16, <1>18, StepByStep
<1>20. N \in G
  BY <1>2, <1>19
<1>21. g[N] = T[N]
  BY <1>20 DEF G
<1> QED
  BY <1>5, <1>9, <1>13, <1>21, Zenon DEF Same

\* FlattenSeq takes one-element sequences together.
LEMMA FlattenSingles ==
  ASSUME NEW S, NEW s \in Seq(S), NEW e, e = [i \in DOMAIN s |-> <<s[i]>>]
  PROVE  Same(FlattenSeq(e), s)
<1>1. PICK N : N = Len(s)
  OBVIOUS
<1>2. N \in Nat /\ DOMAIN s = 1..N
  BY <1>1
<1>3. Len(e) = N /\ \A i \in 1..N : e[i] = <<s[i]>>
  BY <1>2
<1>4. CASE N = 0
  <2>1. e = <<>> /\ s = <<>>
    BY <1>1, <1>2, <1>3, <1>4
  <2>2. FlattenSeq(e) = e
    BY <1>3, <1>4, Zenon DEF FlattenSeq
  <2> QED
    BY <2>1, <2>2, Zenon DEF Same
<1>5. CASE N # 0
  <2>1. N \in Nat \ {0}
    BY <1>2, <1>5
  <2>1a. PICK d : d = e
    OBVIOUS
  <2>1b. N = Len(d)
    BY <1>3, <2>1a
  <2>1c. PICK f : /\ FlattenSeq(d) = f[N]
                  /\ f[1] = d[1]
                  /\ \A i \in 2..N : f[i] = f[i - 1] \o d[i]
    BY <2>1, <2>1b, FlattenSteps, Zenon
  <2>2. /\ FlattenSeq(e) = f[N]
        /\ f[1] = e[1]
        /\ \A i \in 2..N : f[i] = f[i - 1] \o e[i]
    BY <2>1a, <2>1c, Zenon
  <2> DEFINE G == {i \in 0..N : i = 0 \/ f[i] = SubSeq(s, 1, i)}
  <2>3. 0 \in G
    BY <1>2
  <2>4. ASSUME NEW i \in 1..N, i - 1 \in G PROVE i \in G
    <3>1. CASE i = 1
      <4>1. SubSeq(s, 1, 1) = <<s[1]>>
        <5>1. Len(s) \in Nat /\ 1 <= Len(s)
          BY <1>1, <2>1
        <5>2. PICK u : u = SubSeq(s, 1, 1)
          OBVIOUS
        <5>3. u \in Seq(S) /\ Len(u) = 1 /\ u[1] = s[1]
          BY <5>1, <5>2
        <5>4. PICK c \in S : c = s[1]
          BY <5>1
        <5>5. <<c>> \in Seq(S) /\ Len(<<c>>) = 1 /\ <<c>>[1] = c
          OBVIOUS
        <5>6. u = <<c>>
          BY <5>3, <5>4, <5>5, SeqEqual
        <5> QED
          BY <5>2, <5>4, <5>6, Zenon
      <4>2. f[1] = <<s[1]>>
        BY <1>3, <2>1, <2>2
      <4> QED
        BY <3>1, <4>1, <4>2, <1>2
    <3>2. CASE i # 1
      <4>1. i \in 2..N /\ i - 1 \in 1..N /\ i \in 0..N
        BY <3>2, <1>2
      <4>2. f[i - 1] = SubSeq(s, 1, i - 1)
        BY <2>4, <4>1
      <4>3. f[i] = f[i - 1] \o <<s[i]>>
        BY <1>3, <2>2, <4>1
      <4>4. SubSeq(s, 1, i - 1) \o <<s[i]>> = SubSeq(s, 1, i)
        BY <1>1, <4>1
      <4> QED
        BY <4>1, <4>2, <4>3, <4>4
    <3> QED
      BY <3>1, <3>2
  <2>5. \A i \in 1..N : i - 1 \in G => i \in G
    BY <2>4
  <2> HIDE DEF G
  <2>6. \A i \in 0..N : i \in G
    BY <1>2, <2>3, <2>5, StepByStep
  <2>7. N \in G
    BY <1>2, <2>6
  <2>8. f[N] = SubSeq(s, 1, N)
    BY <2>7, <2>1 DEF G
  <2>9. SubSeq(s, 1, N) = s
    BY <1>1
  <2> QED
    BY <2>2, <2>8, <2>9, Zenon DEF Same
<1> QED
  BY <1>4, <1>5

\* The characters before a number.
BeforeNumber == {"+", "-", "0"}

\* A number: its digits behind the sign.
LEMMA NumberIs ==
  ASSUME NEW s \in Seq(Char), IsNumber(s)
  PROVE  /\ TrimLeft(s, BeforeNumber) \in Seq(Digits)
         /\ s # <<>>
<1>1. PICK d : d = IF s # <<>> /\ s[1] \in {"+", "-"} THEN Tail(s) ELSE s
  OBVIOUS
<1>2. d # <<>> /\ ToSet(d) \subseteq Digits
  BY <1>1, Zenon DEF IsNumber
<1>3. s # <<>>
  BY <1>1, <1>2, Zenon
<1>4. ASSUME NEW i \in 2..Len(s) PROVE s[i] \in Digits
  <2>1. CASE s[1] \in {"+", "-"}
    <3>1. d = Tail(s)
      BY <2>1, <1>1, <1>3
    <3>2. PICK j : j = i - 1
      OBVIOUS
    <3>3. d[j] = s[i] /\ j \in DOMAIN d
      BY <3>1, <3>2, <1>3
    <3>4. d[j] \in ToSet(d)
      BY <3>3, Zenon DEF ToSet
    <3> QED
      BY <3>3, <3>4, <1>2
  <2>2. CASE s[1] \notin {"+", "-"}
    <3>1. d = s /\ i \in DOMAIN s
      BY <2>2, <1>1
    <3>2. s[i] \in ToSet(d)
      BY <3>1, Zenon DEF ToSet
    <3> QED
      BY <3>2, <1>2
  <2> QED
    BY <2>1, <2>2
<1>5. s[1] \notin {"+", "-"} => s[1] \in Digits
  <2> SUFFICES ASSUME s[1] \notin {"+", "-"} PROVE s[1] \in Digits
    OBVIOUS
  <2>1. d = s /\ 1 \in DOMAIN s
    BY <1>1, <1>3
  <2>2. s[1] \in ToSet(d)
    BY <2>1, Zenon DEF ToSet
  <2> QED
    BY <2>2, <1>2
<1>6. PICK t : t = TrimLeft(s, BeforeNumber)
  OBVIOUS
<1>7. PICK a \in Seq(Char) : /\ t \in Seq(Char) /\ s = a \o t
                             /\ \A i \in 1..Len(a) : a[i] \in BeforeNumber
  BY <1>6, TrimLeftRest
<1>8. t # <<>> => t[1] \notin BeforeNumber
  BY <1>6, TrimLeftParts
<1>9. ASSUME NEW i \in 1..Len(t) PROVE t[i] \in Digits
  <2>1. PICK k : k = Len(a) + i
    OBVIOUS
  <2>2. k \in 1..Len(s) /\ s[k] = t[i] /\ (k = 1 => i = 1)
    BY <2>1, <1>7
  <2>3. CASE k = 1
    <3>1. i = 1 /\ t # <<>>
      BY <2>2, <2>3, <1>7
    <3>2. s[1] \notin BeforeNumber
      BY <3>1, <2>2, <2>3, <1>8
    <3>3. s[1] \notin {"+", "-"}
      BY <3>2 DEF BeforeNumber
    <3> QED
      BY <3>3, <2>2, <2>3, <1>5
  <2>4. CASE k # 1
    <3>1. k \in 2..Len(s)
      BY <2>2, <2>4
    <3> QED
      BY <3>1, <2>2, <1>4
  <2> QED
    BY <2>3, <2>4
<1>10. t \in Seq(Digits)
  BY <1>7, <1>9, SeqOver
<1> QED
  BY <1>3, <1>6, <1>10, Zenon

\* What follows the first element.
LEMMA TailBehind ==
  ASSUME NEW S, NEW x \in Seq(S), NEW y \in Seq(S), Len(x) = 1
  PROVE  Same(Tail(x \o y), y)
<1>1. PICK z : z = x \o y
  OBVIOUS
<1>2. z \in Seq(S) /\ z # <<>>
  BY <1>1
<1>3. Tail(z) = SubSeq(z, 2, Len(z))
  BY <1>2
<1>4. Same(SubSeq(z, 1 + 1, Len(z)), y)
  BY <1>1, CutBehind, Zenon
<1>5. 1 + 1 = 2
  OBVIOUS
<1> QED
  BY <1>1, <1>3, <1>4, <1>5, Zenon

\* A number as it is written.
IsItoa(z) ==
    /\ z \in Seq(Char \ {" "}) /\ z # <<>>
    /\ IsNumber(z) /\ Itoa(z) = z

\* A number that is written is the same number.
LEMMA NumberKept ==
  ASSUME NEW s \in Seq(Char), IsNumber(s)
  PROVE  IsItoa(Itoa(s))
<1>1. PICK d : d = TrimLeft(s, BeforeNumber)
  OBVIOUS
<1>2. d \in Seq(Digits) /\ (d # <<>> => d[1] \notin BeforeNumber)
  BY <1>1, NumberIs, TrimLeftParts
<1>3. PICK z : z = Itoa(s)
  OBVIOUS
<1>4. z = IF d = <<>> THEN <<"0">> ELSE IF s[1] = "-" THEN <<"-">> \o d ELSE d
  BY <1>1, <1>3, Zenon DEF Itoa, BeforeNumber
<1>5. Digits \subseteq Char \ {" "} /\ "-" \in Char \ {" "} /\ "0" \in Digits /\ "-" \notin Digits /\ "+" \notin Digits
  BY DEF Digits, Char, Plain, Other
<1>6. \A x : /\ IsNumber(x) <=> LET e == IF x # <<>> /\ x[1] \in {"+", "-"} THEN Tail(x) ELSE x
                               IN  e # <<>> /\ ToSet(e) \subseteq Digits
             /\ Itoa(x) = LET e == TrimLeft(x, BeforeNumber)
                          IN  IF e = <<>> THEN <<"0">> ELSE IF x[1] = "-" THEN <<"-">> \o e ELSE e
  BY Zenon DEF IsNumber, Itoa, BeforeNumber
<1>7. \A e \in Seq(Digits) : ToSet(e) \subseteq Digits
  BY DEF ToSet
<1>8. CASE d = <<>>
  <2>1. z = <<"0">>
    BY <1>4, <1>8
  <2>2. z \in Seq(Digits) /\ z # <<>> /\ Same(z[1], "0") /\ z \o <<>> = z /\ Len(z) = 1
    <3>1. <<"0">> \in Seq(Digits) /\ <<"0">> # <<>> /\ Same(<<"0">>[1], "0")
      BY <1>5, Single, Zenon
    <3>2. \A e \in Seq(Digits) : e \o <<>> = e
      OBVIOUS
    <3>3. \A c : Len(<<c>>) = 1
      OBVIOUS
    <3> QED
      BY <2>1, <3>1, <3>2, <3>3, Zenon
  <2>3. z[1] = "0"
    BY <2>2, Zenon DEF Same
  <2>4. TrimLeft(z, BeforeNumber) = <<>>
    <3>1. PICK e : e = <<>>
      OBVIOUS
    <3>2. e \in Seq(Digits) /\ e = <<>>
      BY <3>1
    <3>3. \A i \in 1..Len(z) : z[i] \in BeforeNumber
      BY <2>2, <2>3 DEF BeforeNumber
    <3>4. TrimLeft(z \o e, BeforeNumber) = e
      BY <2>2, <3>2, <3>3, TrimLeftOf
    <3> QED
      BY <2>2, <3>2, <3>4, Zenon
  <2>5. Itoa(z) = z
    BY <1>6, <2>1, <2>4, Zenon
  <2>6. z[1] \notin {"+", "-"}
    BY <2>3
  <2>7. IsNumber(z)
    BY <1>6, <1>7, <2>2, <2>6, Zenon
  <2>8. z \in Seq(Char \ {" "})
    BY <1>5, <2>2, SeqSub, Zenon
  <2> QED
    BY <2>2, <2>5, <2>7, <2>8, <1>3, Zenon DEF IsItoa
<1>9. CASE d # <<>> /\ s[1] = "-"
  <2>1. PICK m : m = <<"-">>
    OBVIOUS
  <2>2. z = m \o d
    BY <1>4, <1>9, <2>1, Zenon
  <2>3. d \in Seq(Char \ {" "})
    BY <1>2, <1>5, SeqSub, Zenon
  <2>4. m \in Seq(Char \ {" "}) /\ m # <<>> /\ m[1] = "-" /\ Len(m) = 1
    <3>1. <<"-">> \in Seq(Char \ {" "}) /\ <<"-">> # <<>> /\ Same(<<"-">>[1], "-")
      BY <1>5, Single, Zenon
    <3>3. \A c : Len(<<c>>) = 1
      OBVIOUS
    <3> QED
      BY <2>1, <3>1, <3>3, Zenon DEF Same
  <2>5. z \in Seq(Char \ {" "}) /\ z # <<>> /\ z[1] = "-"
    <3>1. m \o d \in Seq(Char \ {" "}) /\ m \o d # <<>> /\ Same((m \o d)[1], m[1])
      BY <2>3, <2>4, FrontOf, Zenon
    <3> QED
      BY <2>2, <2>4, <3>1, Zenon DEF Same
  <2>6. TrimLeft(z, BeforeNumber) = d
    <3>0. \A i \in 1..1 : i = 1
      OBVIOUS
    <3>4. "-" \in BeforeNumber
      BY DEF BeforeNumber
    <3>1. \A i \in 1..Len(m) : m[i] \in BeforeNumber
      BY <2>4, <3>0, <3>4, Zenon
    <3>2. TrimLeft(m \o d, BeforeNumber) = d
      BY <2>3, <2>4, <3>1, <1>2, TrimLeftOf
    <3> QED
      BY <2>2, <3>2, Zenon
  <2>7. Itoa(z) = z
    BY <1>6, <1>9, <2>1, <2>2, <2>5, <2>6, Zenon
  <2>8. Tail(z) = d
    <3>1. Same(Tail(m \o d), d)
      BY <2>3, <2>4, TailBehind, Zenon
    <3> QED
      BY <2>2, <3>1, Zenon DEF Same
  <2>9. IsNumber(z)
    <3>1. z[1] \in {"+", "-"}
      BY <2>5
    <3> QED
      BY <1>2, <1>6, <1>7, <1>9, <2>5, <2>8, <3>1, Zenon
  <2> QED
    BY <2>5, <2>7, <2>9, <1>3, Zenon DEF IsItoa
<1>10. CASE d # <<>> /\ s[1] # "-"
  <2>1. z = d
    BY <1>4, <1>10, Zenon
  <2>2. d[1] \in Digits
    BY <1>2, <1>10, SeqFacts, Zenon
  <2>3. d[1] \notin {"+", "-"}
    BY <2>2, <1>5
  <2>4. IsNumber(z)
    BY <1>2, <1>6, <1>7, <1>10, <2>1, <2>3, Zenon
  <2>5. TrimLeft(d, BeforeNumber) = d
    <3>1. PICK e : e = <<>>
      OBVIOUS
    <3>2. e \in Seq(Digits) /\ e = <<>> /\ \A i \in 1..Len(e) : e[i] \in BeforeNumber
      BY <3>1
    <3>3. TrimLeft(e \o d, BeforeNumber) = d
      BY <3>2, <1>2, TrimLeftOf
    <3>4. Same(<<>> \o d, d)
      BY <1>2, SeqFacts, Zenon
    <3> QED
      BY <3>2, <3>3, <3>4, Zenon DEF Same
  <2>6. Itoa(z) = z
    <3>1. d[1] # "-"
      BY <2>3
    <3> QED
      BY <1>6, <1>10, <2>1, <2>5, <3>1, Zenon
  <2>7. z \in Seq(Char \ {" "})
    BY <1>2, <1>5, <2>1, SeqSub, Zenon
  <2> QED
    BY <1>3, <1>10, <2>1, <2>4, <2>6, <2>7, Zenon DEF IsItoa
<1> QED
  BY <1>8, <1>9, <1>10

\* A value of a header, without the blanks before it.
Value(v) == v \in Seq(Char) /\ (v # <<>> => v[1] \notin Blank)

\* What is read from a value that is written.
Reading(v) == TrimLeft(TrimRight(v, Blank), Blank)

\* A text with an end that is not cut is not cut to nothing.
LEMMA NotTrimmedAway ==
  ASSUME NEW S, NEW s \in Seq(S), s # <<>>, NEW cut, s[1] \notin cut \/ s[Len(s)] \notin cut
  PROVE  Trim(s, cut) # <<>>
<1> SUFFICES ASSUME Trim(s, cut) = <<>> PROVE FALSE
  OBVIOUS
<1>1. PICK a \in Seq(S), c \in Seq(S) : /\ s = a \o (Trim(s, cut) \o c)
                                        /\ \A i \in 1..Len(a) : a[i] \in cut
                                        /\ \A i \in 1..Len(c) : c[i] \in cut
  BY TrimRest, Zenon
<1>2. Same(<<>> \o c, c)
  BY SeqFacts, Zenon
<1>3. s = a \o c
  BY <1>1, <1>2, Zenon DEF Same
<1>4. \A i \in 1..Len(s) : s[i] \in cut
  <2> SUFFICES ASSUME NEW i \in 1..Len(s) PROVE s[i] \in cut
    OBVIOUS
  <2>1. i \in 1..Len(a) \/ \E j \in 1..Len(c) : i = Len(a) + j
    <3>1. Len(s) = Len(a) + Len(c) /\ Len(a) \in Nat /\ Len(c) \in Nat
      BY <1>3
    <3>2. i \notin 1..Len(a) => i - Len(a) \in 1..Len(c) /\ i = Len(a) + (i - Len(a))
      BY <3>1
    <3> QED
      BY <3>2, Zenon
  <2>2. /\ \A j \in 1..Len(a) : s[j] = a[j]
        /\ \A j \in 1..Len(c) : s[Len(a) + j] = c[j]
    BY <1>3
  <2> QED
    BY <1>1, <2>1, <2>2, Zenon
<1>5. 1 \in 1..Len(s) /\ Len(s) \in 1..Len(s)
  BY SeqFacts, Zenon
<1> QED
  BY <1>4, <1>5, Zenon

\* Blanks before and behind a value are not read.
LEMMA ReadingOf ==
  ASSUME NEW v, Value(v)
  PROVE  /\ Reading(v) \in Seq(Char)
         /\ Same(Reading(v), TrimRight(v, Blank))
         /\ Same(Reading(v), Trim(v, Blank))
         /\ Reading(v) = <<>> <=> v = <<>>
<1>1. v \in Seq(Char) /\ (v # <<>> => v[1] \notin Blank)
  BY Zenon DEF Value
<1>2. PICK e : e = <<>>
  OBVIOUS
<1>3. e \in Seq(Char) /\ \A i \in 1..Len(e) : e[i] \in Blank
  BY <1>2
<1>4. \A t \in Seq(Char) : (t # <<>> => t[1] \notin Blank) => TrimLeft(e \o t, Blank) = t
  BY <1>3, TrimLeftOf
<1>5. \A t \in Seq(Char) : Same(e \o t, t)
  BY <1>2, SeqFacts, Zenon
<1>6. \A t \in Seq(Char) : (t # <<>> => t[1] \notin Blank) => TrimLeft(t, Blank) = t
  BY <1>4, <1>5, Zenon DEF Same
<1>7. PICK r : /\ r = TrimRight(v, Blank)
               /\ r \in Seq(Char)
               /\ r # <<>> => r[Len(r)] \notin Blank
               /\ Len(r) <= Len(v) /\ \A i \in 1..Len(r) : r[i] = v[i]
  BY <1>1, TrimRightParts
<1>8. r # <<>> => v # <<>> /\ r[1] = v[1]
  BY <1>1, <1>7
<1>9. TrimLeft(r, Blank) = r
  BY <1>1, <1>6, <1>7, <1>8, Zenon
<1>10. TrimLeft(v, Blank) = v
  BY <1>1, <1>6, Zenon
<1>11. Reading(v) = r
  BY <1>7, <1>9, Zenon DEF Reading
<1>12. Trim(v, Blank) = r
  BY <1>7, <1>10, Zenon DEF Trim
<1>13. v # <<>> => r # <<>>
  BY <1>1, <1>12, NotTrimmedAway, Zenon
<1> QED
  BY <1>7, <1>8, <1>11, <1>12, <1>13, Zenon DEF Same

\* A value without blanks at its ends is read as it is.
LEMMA WholeReading ==
  ASSUME NEW v \in Seq(Char), Whole(v, Blank)
  PROVE  Value(v) /\ v # <<>> /\ Same(Reading(v), v)
<1>1. v # <<>> /\ v[1] \notin Blank /\ v[Len(v)] \notin Blank
  BY Zenon DEF Whole
<1>2. Value(v)
  BY <1>1, Zenon DEF Value
<1>3. Trim(v, Blank) = v
  BY <1>1, TrimNothing
<1> QED
  BY <1>1, <1>2, <1>3, ReadingOf, Zenon DEF Same

\* A text that is written for what was read, and read again by the next hop.
ReadsBack(text, Parser(_), x) ==
    text \in Seq(Char) /\ Whole(text, Blank) /\ Parser(text) = x

\* A number is read again.
LEMMA MaxForwardsKept ==
  ASSUME NEW v \in Seq(Char), NEW m, m = ParseMaxForwards(v), m # Nil
  PROVE  ReadsBack(MaxForwardsText(m), ParseMaxForwards, m)
<1>1. IsNumber(v) /\ m = [Remains |-> Itoa(v)]
  BY Zenon DEF ParseMaxForwards
<1>2. PICK z : z = Itoa(v)
  OBVIOUS
<1>3. IsItoa(z)
  BY <1>1, <1>2, NumberKept, Zenon
<1>4. z \in Seq(Char \ {" "}) /\ z # <<>> /\ IsNumber(z) /\ Itoa(z) = z
  BY <1>3, Zenon DEF IsItoa
<1>5. z[1] \in Char \ {" "} /\ z[Len(z)] \in Char \ {" "}
  BY <1>4, SeqFacts, Zenon
<1>6. Whole(z, Blank)
  <2>1. z[1] \notin Blank /\ z[Len(z)] \notin Blank
    BY <1>5, Zenon DEF Blank
  <2> QED
    BY <1>4, <2>1, Zenon DEF Whole
<1>7. z \in Seq(Char)
  <2>1. Char \ {" "} \subseteq Char
    OBVIOUS
  <2> QED
    BY <2>1, <1>4, SeqSub, Zenon
<1>8. MaxForwardsText(m) = z
  <2>1. m.Remains = Itoa(v)
    BY <1>1
  <2> QED
    BY <2>1, <1>2, Zenon DEF MaxForwardsText
<1>9. ParseMaxForwards(z) = m
  BY <1>1, <1>2, <1>4, Zenon DEF ParseMaxForwards
<1> QED
  BY <1>6, <1>7, <1>8, <1>9, Zenon DEF ReadsBack

\* A sequence number and a method are read again.
LEMMA CSeqKept ==
  ASSUME NEW v \in Seq(Char), NEW c, c = ParseCSeq(v), c # Nil, c # Panics
  PROVE  ReadsBack(CSeqText(c), ParseCSeq, c)
<1>1. PICK t : t = Trim(v, Blank)
  OBVIOUS
<1>2. t \in Seq(Char) /\ (t # <<>> => t[Len(t)] \notin Blank)
  BY <1>1, Trimmed
<1>3. PICK p : p = split(t, " ")
  OBVIOUS
<1>4. Has(t, " ") /\ IsNumber(p[1]) /\ c = [Sequence |-> Itoa(p[1]), Method |-> Trim(p[2], Blank)]
  BY <1>1, <1>3 DEF ParseCSeq
<1>5. t \notin Seq(Char \ {" "})
  BY <1>2, <1>4, HasNot, Zenon
<1>6. /\ p[1] \in Seq(Char \ {" "}) /\ p[2] \in Seq(Char)
      /\ t = p[1] \o <<" ">> \o p[2]
  <2>1. \/ /\ t \in Seq(Char \ {" "})
           /\ split(t, " ") = <<t, <<>>>>
        \/ /\ " " \in Char
           /\ split(t, " ")[1] \in Seq(Char \ {" "})
           /\ split(t, " ")[2] \in Seq(Char)
           /\ t = split(t, " ")[1] \o <<" ">> \o split(t, " ")[2]
    BY <1>2, SplitParts
  <2> QED
    BY <2>1, <1>3, <1>5, Zenon
<1>7. PICK a : a = p[1]
  OBVIOUS
<1>8. PICK b : b = p[2]
  OBVIOUS
<1>9. PICK m : m = Trim(b, Blank)
  OBVIOUS
<1>10. PICK z : z = Itoa(a)
  OBVIOUS
<1>sub. Char \ {" "} \subseteq Char /\ " " \in Char
  BY DEF Char, Plain, Other
<1>11. a \in Seq(Char)
  BY <1>6, <1>7, <1>sub, SeqSub, Zenon
<1>12. /\ z \in Seq(Char \ {" "}) /\ z # <<>> /\ IsNumber(z) /\ Itoa(z) = z
  BY <1>4, <1>7, <1>10, <1>11, NumberKept, Zenon DEF IsItoa
<1>13. z[1] \in Char \ {" "} /\ z \in Seq(Char)
  BY <1>12, <1>sub, SeqFacts, SeqSub, Zenon
<1>14. b # <<>> /\ b[Len(b)] \notin Blank
  <2>1. PICK y : y = a \o <<" ">>
    OBVIOUS
  <2>2. y \in Seq(Char) /\ y # <<>> /\ y[Len(y)] = " "
    <3>1. <<" ">> \in Seq(Char) /\ <<" ">> # <<>> /\ Same(<<" ">>[1], " ")
      BY <1>sub, Single, Zenon
    <3>2. PICK o : o = <<" ">>
      OBVIOUS
    <3>3. Len(o) = 1 /\ o \in Seq(Char) /\ o # <<>>
      BY <3>1, <3>2
    <3>4. a \o o \in Seq(Char) /\ a \o o # <<>> /\ Same((a \o o)[Len(a \o o)], o[Len(o)])
      BY <1>11, <3>3, BackOf, Zenon
    <3> QED
      BY <2>1, <3>1, <3>2, <3>3, <3>4, Zenon DEF Same
  <2>3. t = y \o b /\ b \in Seq(Char)
    BY <1>6, <1>7, <1>8, <2>1, Zenon
  <2>4. t # <<>>
    BY <2>2, <2>3, FrontOf, Zenon
  <2>5. b # <<>>
    <3> SUFFICES ASSUME b = <<>> PROVE FALSE
      OBVIOUS
    <3>1. Same(y \o <<>>, y)
      BY <2>2, SeqFacts, Zenon
    <3>2. t = y
      BY <2>3, <3>1, Zenon DEF Same
    <3>3. " " \in Blank
      BY DEF Blank
    <3> QED
      BY <1>2, <2>2, <2>4, <3>2, <3>3, Zenon
  <2>6. Same(t[Len(t)], b[Len(b)])
    BY <2>2, <2>3, <2>5, BackOf, Zenon
  <2> QED
    BY <1>2, <2>4, <2>5, <2>6, Zenon DEF Same
<1>15. b \in Seq(Char)
  BY <1>6, <1>8, Zenon
<1>16. m \in Seq(Char) /\ m # <<>>
  BY <1>9, <1>14, <1>15, NotTrimmedAway, Trimmed, Zenon
<1>17. m[1] \notin Blank /\ m[Len(m)] \notin Blank
  BY <1>9, <1>15, <1>16, Trimmed, Zenon
<1>18. c = [Sequence |-> z, Method |-> m]
  BY <1>4, <1>7, <1>8, <1>9, <1>10, Zenon
<1>19. PICK w : w = CSeqText(c)
  OBVIOUS
<1>20. w = z \o <<" ">> \o m
  <2>1. c.Sequence = z /\ c.Method = m
    BY <1>18
  <2> QED
    BY <1>19, <2>1, Zenon DEF CSeqText
<1>21. w \in Seq(Char) /\ Whole(w, Blank)
  <2>1. <<" ">> \in Seq(Char)
    BY <1>sub, Single, Zenon
  <2>2. PICK y : y = z \o <<" ">>
    OBVIOUS
  <2>3. y \in Seq(Char) /\ y # <<>> /\ Same(y[1], z[1])
    BY <2>1, <2>2, <1>12, <1>13, FrontOf, Zenon
  <2>4. y \o m \in Seq(Char) /\ y \o m # <<>> /\ Same((y \o m)[1], y[1])
    BY <2>3, <1>16, FrontOf, Zenon
  <2>5. Same((y \o m)[Len(y \o m)], m[Len(m)])
    BY <2>3, <1>16, BackOf, Zenon
  <2>6. z[1] \notin Blank
    BY <1>13, Zenon DEF Blank
  <2> QED
    BY <1>17, <1>20, <2>2, <2>3, <2>4, <2>5, <2>6, Zenon DEF Same, Whole
<1>22. Trim(w, Blank) = w
  <2>1. w[1] \notin Blank /\ w[Len(w)] \notin Blank
    BY <1>21, Zenon DEF Whole
  <2> QED
    BY <1>21, <2>1, TrimNothing
<1>23. Has(w, " ")
  BY <1>13, <1>16, <1>20, <1>sub, HasJoint, Zenon
<1>24. split(w, " ") = <<z, m>>
  <2>1. split(z \o <<" ">> \o m, " ") = <<z, m>>
    BY <1>12, <1>16, <1>sub, SplitAt
  <2> QED
    BY <1>20, <2>1, Zenon
<1>25. Trim(m, Blank) = m
  BY <1>16, <1>17, TrimNothing
<1>26. ParseCSeq(w) = c
  <2>1. PICK q : q = split(w, " ")
    OBVIOUS
  <2>q. q = <<z, m>>
    BY <2>1, <1>24, Zenon
  <2>2. q[1] = z /\ q[2] = m
    BY <2>q
  <2>3. ParseCSeq(w) = [Sequence |-> Itoa(q[1]), Method |-> Trim(q[2], Blank)]
    <3>1. IsNumber(q[1])
      BY <2>2, <1>12, Zenon
    <3>2. PICK g : g = [Sequence |-> Itoa(q[1]), Method |-> Trim(q[2], Blank)]
      OBVIOUS
    <3>3. ParseCSeq(w) = CASE ~Has(w, " ")                  -> Panics
                           [] Has(w, " ") /\ IsNumber(q[1]) -> g
                           [] OTHER                         -> Nil
      BY <1>22, <2>1, <3>2, Zenon DEF ParseCSeq
    <3> QED
      BY <1>23, <3>1, <3>2, <3>3
  <2> QED
    BY <2>2, <2>3, <1>12, <1>18, <1>25, Zenon
<1> QED
  BY <1>19, <1>21, <1>26, Zenon DEF ReadsBack

\* CSeq is read without the blanks around it.
LEMMA CSeqTrims ==
  ASSUME NEW v, NEW w, Same(Trim(v, Blank), Trim(w, Blank))
  PROVE  Same(ParseCSeq(v), ParseCSeq(w))
<1>1. PICK t : t = Trim(v, Blank)
  OBVIOUS
<1>2. t = Trim(w, Blank)
  BY <1>1, Zenon DEF Same
<1> QED
  BY <1>1, <1>2, Zenon DEF Same, ParseCSeq

\* A Call-ID that is not empty is read again.
LEMMA CallIDKept ==
  ASSUME NEW v \in Seq(Char), NEW c, c = ParseCallID(v), CallIDText(c) # <<>>
  PROVE  ReadsBack(CallIDText(c), ParseCallID, c)
<1>1. PICK id : id = split(v, "@")
  OBVIOUS
<1>2. "@" \in Char /\ "@" \notin Blank /\ Char \ {"@"} \subseteq Char
  BY DEF Char, Plain, Reserved, Blank
<1>3. id[1] \in Seq(Char \ {"@"}) /\ id[2] \in Seq(Char)
  <2>1. CASE v \in Seq(Char \ {"@"}) /\ id = <<v, <<>>>>
    <3>1. id[1] = v /\ id[2] = <<>>
      BY <2>1
    <3>2. <<>> \in Seq(Char)
      OBVIOUS
    <3> QED
      BY <2>1, <3>1, <3>2, Zenon
  <2>2. CASE id[1] \in Seq(Char \ {"@"}) /\ id[2] \in Seq(Char)
    BY <2>2
  <2> QED
    BY <1>1, <2>1, <2>2, SplitParts, Zenon
<1>4. PICK n : n = Trim(id[1], Blank)
  OBVIOUS
<1>5. PICK h : h = Trim(id[2], Blank)
  OBVIOUS
<1>6. /\ n \in Seq(Char \ {"@"}) /\ (n # <<>> => n[1] \notin Blank /\ n[Len(n)] \notin Blank)
      /\ h \in Seq(Char) /\ (h # <<>> => h[1] \notin Blank /\ h[Len(h)] \notin Blank)
  BY <1>3, <1>4, <1>5, Trimmed, Zenon
<1>7. n \in Seq(Char)
  BY <1>2, <1>6, SeqSub, Zenon
<1>8. c = [Identifier |-> n, Host |-> h]
  BY <1>1, <1>4, <1>5, Zenon DEF ParseCallID
<1>9. c.Identifier = n /\ c.Host = h
  BY <1>8
<1>10. PICK w : w = CallIDText(c)
  OBVIOUS
<1>11. w # <<>> /\ w = IF h = <<>> THEN n ELSE n \o <<"@">> \o h
  BY <1>9, <1>10, Zenon DEF CallIDText
<1>12. Trim(n, Blank) = n /\ Trim(h, Blank) = h
  BY <1>6, TrimNothing
<1>13. PICK q : q = split(w, "@")
  OBVIOUS
<1>14. w \in Seq(Char) /\ Whole(w, Blank) /\ q[1] = n /\ q[2] = h
  <2>1. CASE h = <<>>
    <3>1. w = n
      BY <1>11, <2>1
    <3>2. Whole(w, Blank)
      BY <1>6, <1>11, <3>1, Zenon DEF Whole
    <3>3. q = <<n, <<>>>>
      <4>1. split(n, "@") = <<n, <<>>>>
        BY <1>6, SplitNone
      <4> QED
        BY <1>13, <3>1, <4>1, Zenon
    <3>4. q[1] = n /\ q[2] = <<>>
      BY <3>3
    <3> QED
      BY <1>7, <2>1, <3>1, <3>2, <3>4, Zenon
  <2>2. CASE h # <<>>
    <3>1. w = n \o <<"@">> \o h
      BY <1>11, <2>2
    <3>2. <<"@">> \in Seq(Char) /\ <<"@">> # <<>> /\ Same(<<"@">>[1], "@")
      BY <1>2, Single, Zenon
    <3>3. PICK y : y = n \o <<"@">>
      OBVIOUS
    <3>4. y \in Seq(Char) /\ y # <<>> /\ y[1] \notin Blank
      <4>1. CASE n = <<>>
        <5>1. Same(<<>> \o <<"@">>, <<"@">>)
          BY <3>2, SeqFacts, Zenon
        <5> QED
          BY <1>2, <3>2, <3>3, <4>1, <5>1, Zenon DEF Same
      <4>2. CASE n # <<>>
        <5>1. n \o <<"@">> \in Seq(Char) /\ n \o <<"@">> # <<>> /\ Same((n \o <<"@">>)[1], n[1])
          BY <1>7, <3>2, <4>2, FrontOf, Zenon
        <5> QED
          BY <1>6, <3>3, <4>2, <5>1, Zenon DEF Same
      <4> QED
        BY <4>1, <4>2
    <3>5. w = y \o h
      BY <3>1, <3>3, Zenon
    <3>6. /\ y \o h \in Seq(Char) /\ y \o h # <<>> /\ Same((y \o h)[1], y[1])
          /\ Same((y \o h)[Len(y \o h)], h[Len(h)])
      BY <1>6, <2>2, <3>4, FrontOf, BackOf, Zenon
    <3>7. w \in Seq(Char) /\ Whole(w, Blank)
      BY <1>6, <2>2, <3>4, <3>5, <3>6, Zenon DEF Same, Whole
    <3>8. q = <<n, h>>
      <4>1. split(n \o <<"@">> \o h, "@") = <<n, h>>
        BY <1>2, <1>6, SplitAt
      <4> QED
        BY <1>13, <3>1, <4>1, Zenon
    <3>9. q[1] = n /\ q[2] = h
      BY <3>8
    <3> QED
      BY <3>7, <3>9
  <2> QED
    BY <2>1, <2>2
<1>15. ParseCallID(w) = c
  BY <1>8, <1>12, <1>13, <1>14, Zenon DEF ParseCallID
<1> QED
  BY <1>10, <1>14, <1>15, Zenon DEF ReadsBack

\* What is around an address that is written is no blank.
LEMMA WrittenWhole ==
  ASSUME NEW d, NEW u, NEW r, ReadableParts(d, u, r)
  PROVE  /\ ToText(ToRecord(d, u, r)) \in Seq(Char)
         /\ Whole(ToText(ToRecord(d, u, r)), Blank)
<1>0. /\ d \in Seq(Char) /\ Ends(d, AroundName) /\ r \in Seq(Char) /\ Ends(r, ParamCut)
      /\ Clean(String(u)) /\ String(u) # <<>>
  BY Zenon DEF ReadableParts
<1>1. PICK t : t = String(u)
  OBVIOUS
<1>2. t \in Seq(Char) /\ t # <<>> /\ t[1] \notin Bracket /\ t[Len(t)] \notin Bracket
  BY <1>0, <1>1, Zenon DEF Clean
<1>3. PICK x : x = NameAddrString(NameUri(d, u))
  OBVIOUS
<1>4. PICK w : w = ToText(ToRecord(d, u, r))
  OBVIOUS
<1>5. PICK p : p = ParamText(";", r)
  OBVIOUS
<1>6. p \in Seq(Char) /\ \A s \in Seq(Char) : WithParam(s, r) = s \o p
  <2>1. r # <<>> => r[1] \notin ParamCut /\ r[Len(r)] \notin ParamCut
    BY <1>0 DEF Ends
  <2> QED
    BY <2>1, <1>0, <1>5, ParamKept, Zenon
<1>7. w = WithParam(x, r)
  <2>1. PICK y : y = ToRecord(d, u, r)
    OBVIOUS
  <2>2. y.Addr = NameUri(d, u) /\ y.RawParameter = r
    BY <2>1, RecordParts
  <2> QED
    BY <1>3, <1>4, <2>1, <2>2, Zenon DEF ToText
<1>8. " " \in Blank /\ " " \in Bracket /\ " " \in AroundName /\ " " \in ParamCut
  BY DEF Blank, Bracket, AroundName, ParamCut
<1>9. \A c : c \in Blank => c = " "
  BY DEF Blank
<1>10. x \in Seq(Char) /\ Whole(x, Blank)
  <2>1. CASE NeedsBrackets(NameUri(d, u))
    <3>1. PICK b : b = NameBefore(d)
      OBVIOUS
    <3>2. b \in Seq(Char)
      BY <3>1, <1>0, NameKept
    <3>3. PICK k : k = <<"<">> \o t \o <<">">>
      OBVIOUS
    <3>4. x = b \o k
      BY <1>0, <1>1, <1>2, <1>3, <2>1, <3>1, <3>3, AddressWritten, Zenon DEF InBrackets
    <3>5. k \in Seq(Char) /\ k # <<>> /\ k[1] = "<" /\ k[Len(k)] = ">"
      <4>1. "<" \in Char /\ ">" \in Char
        BY DEF Char, Plain, Other
      <4>2. <<"<">> \in Seq(Char) /\ <<"<">> # <<>> /\ Same(<<"<">>[1], "<")
        BY <4>1, Single, Zenon
      <4>3. PICK g : g = <<">">>
        OBVIOUS
      <4>4. g \in Seq(Char) /\ g # <<>> /\ Same(g[1], ">")
        BY <4>1, <4>3, Single, Zenon
      <4>5. Len(g) = 1
        BY <4>3
      <4>6. PICK y : y = <<"<">> \o t
        OBVIOUS
      <4>7. y \in Seq(Char) /\ y # <<>> /\ y[1] = "<"
        BY <1>2, <4>2, <4>6, FrontOf, Zenon DEF Same
      <4>8. y \o g \in Seq(Char) /\ y \o g # <<>> /\ Same((y \o g)[1], y[1])
        BY <4>4, <4>7, FrontOf, Zenon
      <4>9. Same((y \o g)[Len(y \o g)], g[Len(g)])
        BY <4>4, <4>7, BackOf, Zenon
      <4> QED
        BY <3>3, <4>3, <4>4, <4>5, <4>6, <4>7, <4>8, <4>9, Zenon DEF Same
    <3>6. b # <<>> => b[1] # " "
      <4>1. CASE d = <<>>
        <5>1. b = <<>>
          BY <3>1, <4>1, Zenon DEF NameBefore
        <5> QED
          BY <5>1
      <4>2. CASE d # <<>> /\ validToken(d)
        <5>1. b = d \o <<" ">>
          BY <3>1, <4>2, Zenon DEF NameBefore
        <5>2. " " \in Char
          BY DEF Char, Plain, Other
        <5>3. <<" ">> \in Seq(Char)
          BY <5>2, Single, Zenon
        <5>4. Same((d \o <<" ">>)[1], d[1])
          BY <1>0, <4>2, <5>3, FrontOf, Zenon
        <5>5. d[1] \notin AroundName
          BY <1>0, <4>2, Zenon DEF Ends
        <5> QED
          BY <1>8, <5>1, <5>4, <5>5, Zenon DEF Same
      <4>3. CASE d # <<>> /\ ~validToken(d)
        <5>1. b = InQuotes(d)
          BY <3>1, <4>3, Zenon DEF NameBefore
        <5>2. DQ \in Char /\ " " \in Char
          BY DEF Char, Plain, Other, DQ
        <5>3. b = <<DQ>> \o d \o <<DQ>> \o <<" ">>
          BY <5>1, Zenon DEF InQuotes
        <5>4. b[1] = DQ
          <6>1. PICK q : q = DQ
            OBVIOUS
          <6>2. PICK c : c = " "
            OBVIOUS
          <6>3. q \in Char /\ c \in Char /\ b = <<q>> \o d \o <<q>> \o <<c>>
            BY <5>2, <5>3, <6>1, <6>2, Zenon
          <6>4. b[1] = q
            BY <1>0, <6>3, QuotedText
          <6> QED
            BY <6>1, <6>4
        <5>5. DQ # " "
          BY DEF DQ
        <5> QED
          BY <5>4, <5>5
      <4> QED
        BY <4>1, <4>2, <4>3
    <3>7. b \o k \in Seq(Char) /\ b \o k # <<>> /\ Same((b \o k)[Len(b \o k)], k[Len(k)])
      BY <3>2, <3>5, BackOf, Zenon
    <3>8. ">" \notin Blank /\ "<" \notin Blank
      BY DEF Blank
    <3>9. (b \o k)[1] \notin Blank
      <4>1. CASE b = <<>>
        <5>1. Same(<<>> \o k, k)
          BY <3>5, SeqFacts, Zenon
        <5> QED
          BY <3>5, <3>8, <4>1, <5>1, Zenon DEF Same
      <4>2. CASE b # <<>>
        <5>1. Same((b \o k)[1], b[1])
          BY <3>2, <3>5, <4>2, FrontOf, Zenon
        <5> QED
          BY <1>9, <3>6, <4>2, <5>1, Zenon DEF Same
      <4> QED
        BY <4>1, <4>2
    <3> QED
      BY <3>4, <3>5, <3>7, <3>8, <3>9, Zenon DEF Same, Whole
  <2>2. CASE ~NeedsBrackets(NameUri(d, u))
    <3>1. x = t
      BY <1>0, <1>1, <1>2, <1>3, <2>2, AddressWritten, Zenon
    <3>2. t[1] \notin Blank /\ t[Len(t)] \notin Blank
      BY <1>2, <1>8, <1>9, Zenon
    <3> QED
      BY <1>2, <3>1, <3>2, Zenon DEF Whole
  <2> QED
    BY <2>1, <2>2
<1>11. w = x \o p
  BY <1>6, <1>7, <1>10, Zenon
<1>12. w \in Seq(Char) /\ Whole(w, Blank)
  <2>1. CASE r = <<>>
    <3>1. p = <<>>
      BY <1>5, <2>1, Zenon DEF ParamText
    <3>2. Same(x \o <<>>, x)
      BY <1>10, SeqFacts, Zenon
    <3> QED
      BY <1>10, <1>11, <3>1, <3>2, Zenon DEF Same
  <2>2. CASE r # <<>>
    <3>1. p # <<>> /\ p[Len(p)] = r[Len(r)]
      BY <1>0, <1>5, <2>2, ParamTextEnds, Zenon
    <3>2. r[Len(r)] \notin ParamCut
      BY <1>0, <2>2, Zenon DEF Ends
    <3>3. x # <<>> /\ x[1] \notin Blank
      BY <1>10, Zenon DEF Whole
    <3>4. x \o p \in Seq(Char) /\ x \o p # <<>> /\ Same((x \o p)[1], x[1])
      BY <1>6, <1>10, <3>3, FrontOf, Zenon
    <3>5. Same((x \o p)[Len(x \o p)], p[Len(p)])
      BY <1>6, <1>10, <3>1, BackOf, Zenon
    <3> QED
      BY <1>8, <1>9, <1>11, <3>1, <3>2, <3>3, <3>4, <3>5, Zenon DEF Same, Whole
  <2> QED
    BY <2>1, <2>2
<1> QED
  BY <1>4, <1>12, Zenon

\* A To that can be read back is read from what is written.
LEMMA ToKept ==
  ASSUME NEW v \in Seq(Char), NEW t, t = ParseTo(v), Stable(t)
  PROVE  t # Nil /\ ReadsBack(ToText(t), ParseTo, t)
<1>1. t.Addr # NoAddr
  BY Zenon DEF Stable
<1>2. PICK d \in Seq(Char), x \in Seq(Char), r \in Seq(Char) :
             /\ Parse(x) # NoUri /\ Ends(d, AroundName) /\ Ends(r, ParamCut)
             /\ t = ToRecord(d, Parse(x), r)
  BY <1>1, AddressParts, Zenon
<1>3. PICK u : u = Parse(x)
  OBVIOUS
<1>4. t = ToRecord(d, u, r)
  BY <1>2, <1>3, Zenon
<1>5. ReadableParts(d, u, r)
  BY <1>2, <1>3, <1>4, StableParts, Zenon
<1>6. ParseTo(ToText(t)) = t
  BY <1>4, <1>5, WrittenAddressRead, Zenon
<1>7. ToText(t) \in Seq(Char) /\ Whole(ToText(t), Blank)
  BY <1>4, <1>5, WrittenWhole, Zenon
<1>8. t # Nil
  <2>1. DOMAIN t = {"Addr", "RawParameter"}
    BY <1>4 DEF ToRecord
  <2>2. DOMAIN Nil = {"Nil"}
    BY DEF Nil
  <2>3. "Addr" \in {"Addr", "RawParameter"} /\ "Addr" \notin {"Nil"}
    OBVIOUS
  <2> QED
    BY <2>1, <2>2, <2>3, Zenon
<1> QED
  BY <1>6, <1>7, <1>8, Zenon DEF ReadsBack

\* The star is read as the star.
LEMMA StarRead ==
  FirstContact(<<"*">>) = StarContact /\ LeftOfContacts(<<"*">>) = <<>>
<1>1. PICK t : t = <<"*">>
  OBVIOUS
<1>2. "*" \in Char \ {"#"} /\ "*" \notin Bracket /\ "*" # "<" /\ "*" # DQ /\ Char \ {"#"} \subseteq Char
  BY DEF Char, Plain, Other, Bracket, DQ
<1>3. t \in Seq(Char \ {"#"}) /\ Len(t) = 1 /\ t # <<>> /\ t[1] = "*"
  <2>1. <<"*">> \in Seq(Char \ {"#"}) /\ <<"*">> # <<>> /\ Same(<<"*">>[1], "*")
    BY <1>2, Single, Zenon
  <2>2. \A c : Len(<<c>>) = 1
    OBVIOUS
  <2> QED
    BY <1>1, <2>1, <2>2, Zenon DEF Same
<1>4. t \in Seq(Char)
  BY <1>2, <1>3, SeqSub, Zenon
<1>5. \A i \in 1..1 : i = 1
  OBVIOUS
<1>6. Ends(t, Bracket) /\ \A i \in 1..Len(t) : t[i] # "<" /\ t[i] # DQ
  BY <1>2, <1>3, <1>5, Zenon DEF Ends
<1>7. PICK n : n = ParseNameAddr(t)
  OBVIOUS
<1>8. n = [Addr |-> NewNameAddr(<<>>, Parse(t)), trail |-> <<>>]
  BY <1>4, <1>6, <1>7, BareRead, Zenon
<1>9. n.Addr = NewNameAddr(<<>>, Parse(t)) /\ n.trail = <<>>
  BY <1>8
<1>10. Parse(t) # NoUri /\ Parse(t).Path = <<"*">>
  <2>1. PICK e : e = <<>>
    OBVIOUS
  <2>2. split(t, "#") = <<t, e>>
    BY <1>3, <2>1, SplitNone
  <2>3. PICK cut : cut = split(t, "#")
    OBVIOUS
  <2>4. cut[1] = t /\ cut[2] = e
    <3>1. cut = <<t, e>>
      BY <2>2, <2>3, Zenon
    <3> QED
      BY <3>1
  <2>5. PICK y : y = parse(t)
    OBVIOUS
  <2>6. y = [NewUri(<<>>, NoAuthority, FALSE, <<>>) EXCEPT !.Path = <<"*">>]
    <3>1. PICK z : z = [NewUri(<<>>, NoAuthority, FALSE, <<>>) EXCEPT !.Path = <<"*">>]
      OBVIOUS
    <3>2. PICK P : P = (Has(t, Ctl) \/ MissingScheme(t))
      OBVIOUS
    <3>3. PICK q : q = WithAuthority(getscheme(t)[1], parseAuthority(split(getscheme(t)[2], "?")[1]),
                                     OnlyMark(getscheme(t)[2]), split(getscheme(t)[2], "?")[2])
      OBVIOUS
    <3>4. y = CASE t = <<"*">> -> z [] P -> NoUri [] OTHER -> q
      BY <2>5, <3>1, <3>2, <3>3, Zenon DEF parse
    <3>5. ~P
      <4>1. "*" # ":" /\ "*" # Ctl
        BY DEF Ctl
      <4>2. t[1] # Ctl
        BY <1>3, <4>1
      <4>3. Ctl \notin ToSet(t)
        BY <1>3, <1>5, <4>2 DEF ToSet
      <4> QED
        BY <1>3, <3>2, <4>1, <4>3, Zenon DEF Has, MissingScheme
    <3>6. y = z
      BY <1>1, <3>4, <3>5
    <3> QED
      BY <3>1, <3>6, Zenon
  <2>7. y # NoUri /\ y.Path = <<"*">>
    BY <2>6 DEF NewUri, NoUri
  <2>8. canUnescape(e, "fragment")
    BY <2>1 DEF canUnescape
  <2>9. Parse(t) = setFragment(y, e)
    BY <2>3, <2>4, <2>5, Zenon DEF Parse
  <2>10. PICK g : g = unescape(e)
    OBVIOUS
  <2>11. Parse(t) = [y EXCEPT !.Fragment = g]
    BY <2>7, <2>8, <2>9, <2>10, Zenon DEF setFragment
  <2>12. [y EXCEPT !.Fragment = g].Path = y.Path /\ [y EXCEPT !.Fragment = g] # NoUri
    BY <2>6 DEF NewUri, NoUri
  <2> QED
    BY <2>7, <2>11, <2>12, Zenon
<1>11. PICK a : a = NameUri(<<>>, Parse(t))
  OBVIOUS
<1>12. NewNameAddr(<<>>, Parse(t)) = a
  BY <1>10, <1>11, RecordParts
<1>13. a # NoAddr /\ a.Uri.Path = <<"*">>
  <2>1. a.Uri = Parse(t)
    BY <1>11, RecordParts
  <2>2. a # NoAddr
    BY <1>11 DEF NameUri, NoAddr
  <2> QED
    BY <2>1, <2>2, <1>10, Zenon
<1>14. n.Addr = a
  BY <1>9, <1>12, Zenon
<1>15. FirstContact(t) = StarContact
  BY <1>7, <1>13, <1>14, Zenon DEF FirstContact, newContactHeader
<1>16. LeftOfContacts(t) = <<>>
  <2>1. PICK e : e = <<>>
    OBVIOUS
  <2>2. e \in Seq(Char \ {","}) /\ e \in Seq(Char)
    BY <2>1
  <2>3. split(e, ",") = <<e, <<>>>>
    BY <2>2, SplitNone
  <2>4. split(e, ",")[2] = e
    <3>1. PICK q : q = split(e, ",")
      OBVIOUS
    <3>2. q = <<e, e>>
      BY <2>1, <2>3, <3>1, Zenon
    <3>3. q[2] = e
      BY <3>2
    <3> QED
      BY <3>1, <3>3, Zenon
  <2>5. Trim(e, Blank) = e
    BY <2>1, <2>2, TrimNothing
  <2> QED
    BY <1>7, <1>9, <2>1, <2>4, <2>5, Zenon DEF LeftOfContacts
<1> QED
  BY <1>1, <1>15, <1>16, Zenon

\* What ParseContacts finds in a text.
SomeContacts == {FirstContact(t) : t \in Text \ {<<>>}}

\* A contact that is read as it is written.
ContactReads(c) ==
    /\ ContactText(c) \in Seq(Char) /\ Whole(ContactText(c), Blank)
    /\ FirstContact(ContactText(c)) = c /\ LeftOfContacts(ContactText(c)) = <<>>

\* A contact with these parts; its parameters have no comma.
ContactIs(c) ==
    \E d, x, r \in Seq(Char) :
        /\ Parse(x) # NoUri /\ Parse(x).Path # <<"*">> /\ Ends(d, AroundName) /\ Ends(r, ParamCut)
        /\ r \in Seq(Char \ {","})
        /\ c = ToRecord(d, Parse(x), r)

\* The parts of a contact that was read, and is not the star.
LEMMA ContactParts ==
  ASSUME NEW t \in Seq(Char), NEW c, c = FirstContact(t), c # StarContact, c.Addr # NoAddr
  PROVE  ContactIs(c)
<1>1. PICK n : n = ParseNameAddr(t)
  OBVIOUS
<1>2. PICK res : res = split(n.trail, ",")
  OBVIOUS
<1>3. PICK r : r = Param(res[1])
  OBVIOUS
<1>4. c = newContactHeader(n.Addr, r)
  BY <1>1, <1>2, <1>3, Zenon DEF FirstContact
<1>5. /\ ~(n.Addr # NoAddr /\ n.Addr.Uri.Path = <<"*">>)
      /\ c = [Addr |-> n.Addr, RawParameter |-> r]
  BY <1>4, Zenon DEF newContactHeader
<1>6. c.Addr = n.Addr
  BY <1>5
<1>7. n.Addr # NoAddr
  BY <1>6, Zenon
<1>8. PICK d \in Seq(Char), x \in Seq(Char), tr \in Seq(Char) :
             /\ Parse(x) # NoUri /\ Ends(d, AroundName)
             /\ n = [Addr |-> NameUri(d, Parse(x)), trail |-> tr]
  BY <1>1, <1>7, NameAddrParts, Zenon
<1>9. n.Addr = NameUri(d, Parse(x)) /\ n.trail = tr
  BY <1>8
<1>10. n.Addr.Uri = Parse(x)
  <2>1. NameUri(d, Parse(x)).Uri = Parse(x)
    BY RecordParts
  <2> QED
    BY <1>9, <2>1, Zenon
<1>11. Parse(x).Path # <<"*">>
  BY <1>5, <1>7, <1>10, Zenon
<1>12. res[1] \in Seq(Char \ {","})
  <2>1. \/ /\ tr \in Seq(Char \ {","})
           /\ split(tr, ",") = <<tr, <<>>>>
        \/ /\ "," \in Char
           /\ split(tr, ",")[1] \in Seq(Char \ {","})
           /\ split(tr, ",")[2] \in Seq(Char)
           /\ tr = split(tr, ",")[1] \o <<",">> \o split(tr, ",")[2]
    BY <1>8, SplitParts
  <2>2. res = split(tr, ",")
    BY <1>2, <1>9, Zenon
  <2>3. CASE tr \in Seq(Char \ {","}) /\ split(tr, ",") = <<tr, <<>>>>
    <3>1. res = <<tr, <<>>>>
      BY <2>2, <2>3, Zenon
    <3>2. res[1] = tr
      BY <3>1
    <3> QED
      BY <2>3, <3>2, Zenon
  <2> QED
    BY <2>1, <2>2, <2>3, Zenon
<1>13. r \in Seq(Char \ {","}) /\ Ends(r, ParamCut)
  <2>1. r = Trim(res[1], ParamCut)
    BY <1>3, Zenon DEF Param, ParamCut
  <2> QED
    BY <1>12, <2>1, Trimmed, Zenon DEF Ends
<1>14. r \in Seq(Char)
  <2>1. Char \ {","} \subseteq Char
    OBVIOUS
  <2> QED
    BY <1>13, <2>1, SeqSub, Zenon
<1>15. c = ToRecord(d, Parse(x), r)
  BY <1>5, <1>9, Zenon DEF ToRecord
<1> QED
  BY <1>8, <1>11, <1>13, <1>14, <1>15, Zenon DEF ContactIs

\* A contact that can be read back is read from what is written.
LEMMA ContactWritten ==
  ASSUME NEW c \in SomeContacts, c = StarContact \/ Stable(c)
  PROVE  ContactReads(c)
<1>1. CASE c = StarContact
  <2>1. ContactText(c) = <<"*">>
    BY <1>1, Zenon DEF ContactText
  <2>2. "*" \in Char /\ "*" \notin Blank
    BY DEF Char, Plain, Other, Blank
  <2>3. PICK s : s = <<"*">>
    OBVIOUS
  <2>4. s \in Seq(Char) /\ s # <<>> /\ Same(s[1], "*")
    BY <2>2, <2>3, Single, Zenon
  <2>5. Len(s) = 1
    BY <2>3
  <2>6. Whole(s, Blank)
    BY <2>2, <2>4, <2>5, Zenon DEF Whole, Same
  <2> QED
    BY <1>1, <2>1, <2>3, <2>4, <2>6, StarRead, Zenon DEF ContactReads
<1>2. CASE c # StarContact
  <2>1. Stable(c) /\ c.Addr # NoAddr
    BY <1>2 DEF Stable
  <2>2. PICK t \in Text : c = FirstContact(t)
    BY DEF SomeContacts
  <2>3. t \in Seq(Char)
    BY DEF Text
  <2>4. PICK d \in Seq(Char), x \in Seq(Char), r \in Seq(Char) :
             /\ Parse(x) # NoUri /\ Parse(x).Path # <<"*">> /\ Ends(d, AroundName) /\ Ends(r, ParamCut)
             /\ r \in Seq(Char \ {","})
             /\ c = ToRecord(d, Parse(x), r)
    <3>1. ContactIs(c)
      BY <1>2, <2>1, <2>2, <2>3, ContactParts
    <3> QED
      BY <3>1, Zenon DEF ContactIs
  <2>5. PICK u : u = Parse(x)
    OBVIOUS
  <2>6. c = ToRecord(d, u, r)
    BY <2>4, <2>5, Zenon
  <2>7. ReadableParts(d, u, r)
    BY <2>1, <2>4, <2>5, <2>6, StableParts, Zenon
  <2>8. PICK w : w = ToText(c)
    OBVIOUS
  <2>9. w \in Seq(Char) /\ Whole(w, Blank)
    BY <2>6, <2>7, <2>8, WrittenWhole, Zenon
  <2>10. PICK p : p = ParamText(";", r)
    OBVIOUS
  <2>11. PICK n : n = ParseNameAddr(w)
    OBVIOUS
  <2>12. n = [Addr |-> NameUri(d, u), trail |-> p]
    BY <2>6, <2>7, <2>8, <2>10, <2>11, WrittenPartsRead, Zenon
  <2>13. n.Addr = NameUri(d, u) /\ n.trail = p
    BY <2>12
  <2>14. p \in Seq(Char \ {","})
    <3>1. CASE r = <<>>
      <4>1. p = <<>>
        BY <2>10, <3>1, Zenon DEF ParamText
      <4> QED
        BY <4>1
    <3>2. CASE r # <<>>
      <4>1. p = <<";">> \o r
        BY <2>10, <3>2, Zenon DEF ParamText
      <4>2. ";" \in Char \ {","}
        BY DEF Char, Plain, Reserved
      <4>3. <<";">> \in Seq(Char \ {","})
        BY <4>2, Single, Zenon
      <4> QED
        BY <2>4, <4>1, <4>3, TogetherOver, Zenon
    <3> QED
      BY <3>1, <3>2
  <2>15. PICK q : q = split(p, ",")
    OBVIOUS
  <2>16. q[1] = p /\ q[2] = <<>>
    <3>1. split(p, ",") = <<p, <<>>>>
      BY <2>14, SplitNone
    <3>2. q = <<p, <<>>>>
      BY <2>15, <3>1, Zenon
    <3> QED
      BY <3>2
  <2>17. Param(p) = r
    <3>1. r # <<>> => r[1] \notin ParamCut /\ r[Len(r)] \notin ParamCut
      BY <2>4, Zenon DEF Ends
    <3> QED
      BY <2>4, <2>10, <3>1, ParamKept, Zenon
  <2>18. FirstContact(w) = newContactHeader(NameUri(d, u), r)
    BY <2>11, <2>13, <2>15, <2>16, <2>17, Zenon DEF FirstContact
  <2>19. FirstContact(w) = c
    <3>1. NameUri(d, u).Uri = u
      BY RecordParts
    <3>2. u.Path # <<"*">>
      BY <2>4, <2>5, Zenon
    <3>3. newContactHeader(NameUri(d, u), r) = [Addr |-> NameUri(d, u), RawParameter |-> r]
      BY <3>1, <3>2, Zenon DEF newContactHeader
    <3> QED
      BY <2>6, <2>18, <3>3, Zenon DEF ToRecord
  <2>20. LeftOfContacts(w) = <<>>
    <3>1. PICK e : e = <<>>
      OBVIOUS
    <3>2. e \in Seq(Char)
      BY <3>1
    <3>3. Trim(e, Blank) = e
      BY <3>1, <3>2, TrimNothing
    <3> QED
      BY <2>11, <2>13, <2>15, <2>16, <3>1, <3>3, Zenon DEF LeftOfContacts
  <2>21. ContactText(c) = w
    BY <1>2, <2>8, Zenon DEF ContactText
  <2> QED
    BY <2>9, <2>19, <2>20, <2>21, Zenon DEF ContactReads
<1> QED
  BY <1>1, <1>2

\* A line without continuations is read by itself.
LEMMA LineRead ==
  ASSUME NEW lines, NEW N \in Nat, N = Len(lines), NEW k \in 1..N, k < N, lines[k + 1].kind # "fold"
  PROVE  Same(readContinuedLine(lines, k), Reading(lines[k].value))
<1>1. Stretch(lines, k, 0)
  <2>1. 0 \in Nat /\ k + 0 + 1 = k + 1 /\ k + 1 <= N
    OBVIOUS
  <2>2. \A j \in 1..0 : lines[k + j].kind = "fold"
    OBVIOUS
  <2> QED
    BY <2>1, <2>2 DEF Stretch
<1>2. PICK e : e = [j \in 1..(0 + 1) |-> Piece(lines, k, j)]
  OBVIOUS
<1>3. readContinuedLine(lines, k) = TrimLeft(FlattenSeq(e), Blank)
  BY <1>1, <1>2, PiecesOf, Zenon
<1>4. Len(e) = 1 /\ e[1] = Piece(lines, k, 1)
  BY <1>2
<1>5. FlattenSeq(e) = e[1]
  <2>1. PICK f : FlattenSeq(e) = f[1] /\ f[1] = e[1]
    <3>1. 1 \in Nat \ {0}
      OBVIOUS
    <3> QED
      BY <3>1, <1>4, FlattenSteps
  <2> QED
    BY <2>1, Zenon
<1>6. e[1] = TrimRight(lines[k].value, Blank)
  BY <1>4, Zenon DEF Piece
<1> QED
  BY <1>3, <1>5, <1>6, Zenon DEF Same, Reading

\* The fields that are written.
Fields == {Field(name, "canonical", value) : name \in ToSet(Names), value \in Text}

\* A field by its parts.
LEMMA FieldIs ==
  ASSUME NEW l \in Fields
  PROVE  /\ l.kind = "field" /\ l.form = "canonical" /\ l.name \in ToSet(Names) /\ l.value \in Text
         /\ canonicalKey(l) = l.name
<1>1. PICK name \in ToSet(Names), value \in Text : l = Field(name, "canonical", value)
  BY DEF Fields
<1>2. l = [kind |-> "field", name |-> name, form |-> "canonical", value |-> value]
  BY <1>1, Zenon DEF Field
<1>3. l.kind = "field" /\ l.form = "canonical" /\ l.name = name /\ l.value = value
  BY <1>2
<1>4. canonicalKey(l) = l.name
  <2>1. l.form # "compact"
    BY <1>3
  <2> QED
    BY <2>1, Zenon DEF canonicalKey
<1> QED
  BY <1>3, <1>4, Zenon

\* No field of that name.
Absent(W, key) == \A i \in 1..Len(W) : W[i].name # key

\* The fields with the name key are those behind position p, one for each value.
Block(W, key, vals, p) ==
    /\ p \in Nat /\ p + Len(vals) <= Len(W)
    /\ \A j \in 1..Len(vals) : W[p + j] = Field(key, "canonical", vals[j])
    /\ \A i \in 1..Len(W) : W[i].name = key => i \in (p + 1)..(p + Len(vals))

\* A header that is written.
Header(W) == W \in Seq(Fields)

Readings(vals) == [j \in 1..Len(vals) |-> Reading(vals[j])]

\* One more element of a sequence.
LEMMA OneMoreOf ==
  ASSUME NEW S, NEW r \in Seq(S), NEW k \in 1..Len(r)
  PROVE  Same(Append(SubSeq(r, 1, k - 1), r[k]), SubSeq(r, 1, k))
<1>1. PICK x : x = Append(SubSeq(r, 1, k - 1), r[k])
  OBVIOUS
<1>2. PICK y : y = SubSeq(r, 1, k)
  OBVIOUS
<1>3. PICK z : z = SubSeq(r, 1, k - 1)
  OBVIOUS
<1>4. z \in Seq(S) /\ Len(z) = k - 1 /\ \A i \in 1..(k - 1) : z[i] = r[i]
  BY <1>3
<1>5. x \in Seq(S) /\ Len(x) = k /\ (\A i \in 1..(k - 1) : x[i] = z[i]) /\ x[k] = r[k]
  BY <1>1, <1>3, <1>4
<1>6. y \in Seq(S) /\ Len(y) = k /\ \A i \in 1..k : y[i] = r[i]
  BY <1>2
<1>7. \A i \in 1..k : x[i] = y[i]
  BY <1>4, <1>5, <1>6
<1>8. x = y
  BY <1>5, <1>6, <1>7, SeqEqual
<1> QED
  BY <1>1, <1>2, <1>8, Zenon DEF Same

\* A header that is written, and the empty line.
Ended(W, L) == L = Append(W, Empty)

LineByLine(W, L, N) ==
    /\ N \in Nat /\ Len(L) = N + 1 /\ HeaderEnd(L) = N + 1
    /\ \A i \in 1..N : /\ L[i] = W[i] /\ L[i] \in Fields
                       /\ readContinuedLine(L, i) = Reading(W[i].value)
    /\ L[N + 1].kind = "empty"

\* ... is read to its end, and line by line.
LEMMA EndedParts ==
  ASSUME NEW W, Header(W), NEW L, Ended(W, L), NEW N, N = Len(W)
  PROVE  LineByLine(W, L, N)
<1>1. W \in Seq(Fields) /\ L = Append(W, Empty)
  BY Zenon DEF Header, Ended
<1>2. N \in Nat /\ Len(L) = N + 1 /\ \A i \in 1..N : L[i] = W[i] /\ L[i] \in Fields
  BY <1>1
<1>3. L[N + 1] = Empty
  BY <1>1
<1>4. L[N + 1].kind = "empty"
  BY <1>3 DEF Empty
<1>5. \A i \in 1..N : L[i].kind = "field"
  BY <1>2, FieldIs
<1>6. PICK M : M = N + 1
  OBVIOUS
<1>7. EndsAt(L, M)
  <2>1. M \in 1..Len(L) /\ M - 1 = N
    BY <1>2, <1>6
  <2>2. \A j \in 1..N : L[j].kind # "empty"
    BY <1>5
  <2> QED
    BY <2>1, <2>2, <1>4, <1>6, Zenon DEF EndsAt
<1>8. HeaderEnd(L) = M
  <2>1. M \in Nat /\ M = Len(L)
    BY <1>2, <1>6
  <2> QED
    BY <2>1, <1>7, EndIs
<1>9. ASSUME NEW i \in 1..N PROVE readContinuedLine(L, i) = Reading(W[i].value)
  <2>1. M \in Nat /\ M = Len(L) /\ i \in 1..M /\ i < M
    BY <1>2, <1>6
  <2>2. L[i + 1].kind # "fold"
    <3>1. CASE i = N
      BY <3>1, <1>4
    <3>2. CASE i # N
      <4>1. i + 1 \in 1..N
        BY <3>2, <1>2
      <4>2. L[i + 1].kind = "field"
        BY <4>1, <1>5
      <4> QED
        BY <4>2
    <3> QED
      BY <3>1, <3>2
  <2>3. Same(readContinuedLine(L, i), Reading(L[i].value))
    BY <2>1, <2>2, LineRead
  <2> QED
    BY <2>3, <1>2, Zenon DEF Same
<1> QED
  BY <1>2, <1>4, <1>6, <1>8, <1>9 DEF LineByLine

\* The values of a name are read as they were written.
LEMMA BlockRead ==
  ASSUME NEW W, Header(W), NEW key \in ToSet(Names), NEW vals \in Seq(Text), NEW p,
         Block(W, key, vals, p), NEW L, Ended(W, L), \A i \in 1..Len(vals) : Reading(vals[i]) \in Text
  PROVE  Same(ReadMIMEHeader(L)[key], Readings(vals))
<1>1. PICK N : N = Len(W)
  OBVIOUS
<1>2. /\ N \in Nat /\ Len(L) = N + 1 /\ HeaderEnd(L) = N + 1
      /\ \A i \in 1..N : /\ L[i] = W[i] /\ L[i] \in Fields
                         /\ readContinuedLine(L, i) = Reading(W[i].value)
      /\ L[N + 1].kind = "empty"
  <2>1. LineByLine(W, L, N)
    BY <1>1, EndedParts
  <2> QED
    BY <2>1, Zenon DEF LineByLine
<1>3. PICK n : n = Len(vals)
  OBVIOUS
<1>4. PICK r : r = Readings(vals)
  OBVIOUS
<1>5. n \in Nat /\ r \in Seq(Text) /\ Len(r) = n /\ \A j \in 1..n : r[j] = Reading(vals[j])
  BY <1>3, <1>4 DEF Readings
<1>6. /\ p \in Nat /\ p + n <= N
      /\ \A j \in 1..n : W[p + j] = Field(key, "canonical", vals[j])
      /\ \A i \in 1..N : W[i].name = key => i \in (p + 1)..(p + n)
  BY <1>1, <1>3, Zenon DEF Block
<1>7. PICK M : M = N + 1
  OBVIOUS
<1>8. M \in Nat /\ M = HeaderEnd(L)
  BY <1>2, <1>7
<1>9. PICK f : /\ ReadMIMEHeader(L)[key] = f[M]
               /\ f[0] = NoValues
               /\ \A i \in 1..M : f[i] = Adding(L, key, i, f[i - 1])
  BY <1>8, ValuesSteps
<1> DEFINE Count(i) == IF i <= p THEN 0 ELSE IF i <= p + n THEN i - p ELSE n
<1> DEFINE G == {i \in 0..M : f[i] = SubSeq(r, 1, Count(i))}
<1>10. 0 \in G
  <2>1. Count(0) = 0 /\ 0 \in 0..M
    BY <1>6, <1>8
  <2>2. SubSeq(r, 1, 0) = <<>>
    BY <1>5
  <2> QED
    BY <2>1, <2>2, <1>9 DEF NoValues
<1>11. ASSUME NEW i \in 1..M, i - 1 \in G PROVE i \in G
  <2>1. f[i - 1] = SubSeq(r, 1, Count(i - 1)) /\ i \in 0..M
    BY <1>8, <1>11
  <2>2. f[i] = Adding(L, key, i, f[i - 1])
    BY <1>9
  <2>3. CASE i \in (p + 1)..(p + n)
    <3>1. PICK k : k = i - p
      OBVIOUS
    <3>2. /\ k \in 1..n /\ i \in 1..N /\ i = p + k
          /\ Count(i - 1) = k - 1 /\ Count(i) = k
      <4>1. p \in Nat /\ n \in Nat /\ N \in Nat /\ p + n <= N
        BY <1>2, <1>5, <1>6
      <4> QED
        BY <2>3, <3>1, <4>1
    <3>3. W[i] = Field(key, "canonical", vals[k])
      BY <3>2, <1>6, Zenon
    <3>4. W[i] = [kind |-> "field", name |-> key, form |-> "canonical", value |-> vals[k]]
      BY <3>3, Zenon DEF Field
    <3>5. W[i].name = key /\ W[i].value = vals[k]
      BY <3>4
    <3>6. L[i].kind = "field" /\ canonicalKey(L[i]) = key
      BY <3>2, <3>5, <1>2, FieldIs, Zenon
    <3>7. readContinuedLine(L, i) = r[k]
      BY <3>2, <3>5, <1>2, <1>5, Zenon
    <3>8. f[i] = Append(SubSeq(r, 1, k - 1), r[k])
      BY <2>1, <2>2, <3>2, <3>6, <3>7, Zenon DEF Adding
    <3>9. Same(Append(SubSeq(r, 1, k - 1), r[k]), SubSeq(r, 1, k))
      <4>1. k \in 1..Len(r)
        BY <3>2, <1>5
      <4> QED
        BY <4>1, <1>5, OneMoreOf, Zenon
    <3>10. f[i] = SubSeq(r, 1, Count(i))
      BY <3>2, <3>8, <3>9, Zenon DEF Same
    <3> QED
      BY <2>1, <3>10
  <2>4. CASE i \notin (p + 1)..(p + n)
    <3>1. Count(i) = Count(i - 1)
      BY <2>4, <1>5, <1>6, <1>8
    <3>2. f[i] = f[i - 1]
      <4>1. CASE i \in 1..N
        <5>1. W[i].name # key
          BY <2>4, <4>1, <1>6
        <5>2. canonicalKey(L[i]) # key
          BY <4>1, <5>1, <1>2, FieldIs, Zenon
        <5> QED
          BY <2>2, <5>2, Zenon DEF Adding
      <4>2. CASE i \notin 1..N
        <5>1. i = N + 1
          BY <4>2, <1>2, <1>7
        <5>2. L[i].kind # "field"
          BY <5>1, <1>2
        <5> QED
          BY <2>2, <5>2, Zenon DEF Adding
      <4> QED
        BY <4>1, <4>2
    <3>3. f[i] = SubSeq(r, 1, Count(i))
      BY <2>1, <3>1, <3>2, Zenon
    <3> QED
      BY <2>1, <3>3
  <2> QED
    BY <2>3, <2>4
<1>12. \A i \in 1..M : i - 1 \in G => i \in G
  BY <1>11
<1>13. Count(M) = n
  BY <1>2, <1>5, <1>6, <1>7
<1> HIDE DEF G
<1>14. \A i \in 0..M : i \in G
  BY <1>8, <1>10, <1>12, StepByStep
<1>15. M \in G
  BY <1>8, <1>14
<1>16. f[M] = SubSeq(r, 1, Count(M))
  BY <1>15 DEF G
<1>17. SubSeq(r, 1, n) = r
  <2>1. PICK y : y = SubSeq(r, 1, n)
    OBVIOUS
  <2>2. y \in Seq(Text) /\ Len(y) = n /\ \A i \in 1..n : y[i] = r[i]
    BY <2>1, <1>5
  <2>3. y = r
    BY <2>2, <1>5, SeqEqual
  <2> QED
    BY <2>1, <2>3
<1> HIDE DEF Count
<1> QED
  BY <1>4, <1>9, <1>13, <1>16, <1>17, Zenon DEF Same

\* A header that is written is not dropped.
LEMMA NotMalformed ==
  ASSUME NEW W, Header(W), NEW L, Ended(W, L)
  PROVE  ~Malformed(L)
<1>1. PICK N : N = Len(W)
  OBVIOUS
<1>2. /\ N \in Nat /\ Len(L) = N + 1 /\ HeaderEnd(L) = N + 1
      /\ \A i \in 1..N : /\ L[i] = W[i] /\ L[i] \in Fields
                         /\ readContinuedLine(L, i) = Reading(W[i].value)
      /\ L[N + 1].kind = "empty"
  <2>1. LineByLine(W, L, N)
    BY <1>1, EndedParts
  <2> QED
    BY <2>1, Zenon DEF LineByLine
<1>3. \A i \in 1..(N + 1) : L[i].kind \notin {"bare", "fold"}
  <2> SUFFICES ASSUME NEW i \in 1..(N + 1) PROVE L[i].kind \notin {"bare", "fold"}
    OBVIOUS
  <2>1. CASE i = N + 1
    BY <2>1, <1>2
  <2>2. CASE i # N + 1
    <3>1. i \in 1..N
      BY <2>2, <1>2
    <3>2. L[i].kind = "field"
      BY <3>1, <1>2, FieldIs, Zenon
    <3> QED
      BY <3>2
  <2> QED
    BY <2>1, <2>2
<1>4. 1 \in 1..(N + 1) /\ N + 1 # 0
  BY <1>2
<1> QED
  BY <1>2, <1>3, <1>4 DEF Malformed

\* The fields with the name key are next to each other, one for each value.
Holds(W, key, vals) == \E p : Block(W, key, vals, p)

\* Two headers, one behind the other.
Headers(A, B, x, a, b) ==
    /\ a \in Nat /\ b \in Nat /\ a = Len(A) /\ b = Len(B)
    /\ Header(x) /\ Len(x) = a + b
    /\ \A i \in 1..a : x[i] = A[i]
    /\ \A i \in 1..b : x[a + i] = B[i]

\* The lines of two headers put together.
LEMMA HeadersBoth ==
  ASSUME NEW A, Header(A), NEW B, Header(B)
  PROVE  Headers(A, B, A \o B, Len(A), Len(B))
<1>1. A \in Seq(Fields) /\ B \in Seq(Fields)
  BY Zenon DEF Header
<1>2. PICK a : a = Len(A)
  OBVIOUS
<1>3. PICK b : b = Len(B)
  OBVIOUS
<1>4. Over(Fields, A, a) /\ Over(Fields, B, b)
  BY <1>1, <1>2, <1>3 DEF Over
<1>5. PutTogether(Fields, A \o B, A, a, B, b)
  BY <1>4, Together, Zenon
<1>6. a \in Nat /\ b \in Nat
  BY <1>4, Zenon DEF Over
<1> QED
  BY <1>2, <1>3, <1>5, <1>6, Zenon DEF PutTogether, Headers, Header

\* Where the lines of both headers are.
LEMMA HeadersAt ==
  ASSUME NEW A, NEW B, NEW x, NEW a, NEW b, Headers(A, B, x, a, b), NEW i \in 1..Len(x)
  PROVE  (i \in 1..a /\ x[i] = A[i]) \/ (i - a \in 1..b /\ x[i] = B[i - a])
<1>1. /\ a \in Nat /\ b \in Nat /\ Len(x) = a + b
      /\ \A j \in 1..a : x[j] = A[j]
      /\ \A j \in 1..b : x[a + j] = B[j]
  BY Zenon DEF Headers
<1>2. i \in 1..a \/ (i - a \in 1..b /\ a + (i - a) = i)
  BY <1>1
<1> QED
  BY <1>1, <1>2, Zenon

\* A name that neither has is not in both.
LEMMA AbsentBoth ==
  ASSUME NEW A, Header(A), NEW B, Header(B), NEW key, Absent(A, key), Absent(B, key)
  PROVE  Header(A \o B) /\ Absent(A \o B, key)
<1>1. PICK x : x = A \o B
  OBVIOUS
<1>2. PICK a : a = Len(A)
  OBVIOUS
<1>3. PICK b : b = Len(B)
  OBVIOUS
<1>4. Headers(A, B, x, a, b)
  BY <1>1, <1>2, <1>3, HeadersBoth, Zenon
<1>5. ASSUME NEW i \in 1..Len(x) PROVE x[i].name # key
  <2>0. (i \in 1..a /\ x[i] = A[i]) \/ (i - a \in 1..b /\ x[i] = B[i - a])
    BY <1>4, HeadersAt
  <2> QED
    BY <2>0, <1>2, <1>3, Zenon DEF Absent
<1> QED
  BY <1>1, <1>4, <1>5, Zenon DEF Headers, Absent

\* The fields of the first header stay where they are.
LEMMA HoldsFront ==
  ASSUME NEW A, Header(A), NEW B, Header(B), NEW key, NEW vals \in Seq(Text),
         Holds(A, key, vals), Absent(B, key)
  PROVE  Header(A \o B) /\ Holds(A \o B, key, vals)
<1>1. PICK x : x = A \o B
  OBVIOUS
<1>2. PICK a : a = Len(A)
  OBVIOUS
<1>3. PICK b : b = Len(B)
  OBVIOUS
<1>4. Headers(A, B, x, a, b)
  BY <1>1, <1>2, <1>3, HeadersBoth, Zenon
<1>5. /\ a \in Nat /\ b \in Nat /\ Len(x) = a + b
      /\ \A j \in 1..a : x[j] = A[j]
      /\ \A j \in 1..b : x[a + j] = B[j]
  BY <1>4, Zenon DEF Headers
<1>6. PICK p : Block(A, key, vals, p)
  BY Zenon DEF Holds
<1>7. PICK n : n = Len(vals)
  OBVIOUS
<1>8. /\ p \in Nat /\ n \in Nat /\ p + n <= a
      /\ \A j \in 1..n : A[p + j] = Field(key, "canonical", vals[j])
      /\ \A i \in 1..a : A[i].name = key => i \in (p + 1)..(p + n)
  <2>1. n \in Nat
    BY <1>7
  <2> QED
    BY <2>1, <1>2, <1>6, <1>7, Zenon DEF Block
<1>9. p + n <= Len(x)
  BY <1>5, <1>8
<1>10. ASSUME NEW j \in 1..n PROVE x[p + j] = Field(key, "canonical", vals[j])
  <2>1. p + j \in 1..a
    <3>1. p \in Nat /\ n \in Nat /\ a \in Nat /\ p + n <= a
      BY <1>5, <1>8
    <3> QED
      BY <3>1
  <2> QED
    BY <2>1, <1>5, <1>8, Zenon
<1>11. ASSUME NEW i \in 1..Len(x), x[i].name = key PROVE i \in (p + 1)..(p + n)
  <2>0. (i \in 1..a /\ x[i] = A[i]) \/ (i - a \in 1..b /\ x[i] = B[i - a])
    BY <1>4, HeadersAt
  <2>1. i \in 1..a /\ x[i] = A[i]
    BY <2>0, <1>3, <1>11, Zenon DEF Absent
  <2> QED
    BY <2>1, <1>8, <1>11, Zenon
<1>12. Block(x, key, vals, p)
  BY <1>7, <1>8, <1>9, <1>10, <1>11, Zenon DEF Block
<1> QED
  BY <1>1, <1>4, <1>12, Zenon DEF Headers, Holds

\* The fields of the second header move behind the first.
LEMMA HoldsBack ==
  ASSUME NEW A, Header(A), NEW B, Header(B), NEW key, NEW vals \in Seq(Text),
         Absent(A, key), Holds(B, key, vals)
  PROVE  Header(A \o B) /\ Holds(A \o B, key, vals)
<1>1. PICK x : x = A \o B
  OBVIOUS
<1>2. PICK a : a = Len(A)
  OBVIOUS
<1>3. PICK b : b = Len(B)
  OBVIOUS
<1>4. Headers(A, B, x, a, b)
  BY <1>1, <1>2, <1>3, HeadersBoth, Zenon
<1>5. /\ a \in Nat /\ b \in Nat /\ Len(x) = a + b
      /\ \A j \in 1..a : x[j] = A[j]
      /\ \A j \in 1..b : x[a + j] = B[j]
  BY <1>4, Zenon DEF Headers
<1>6. PICK p : Block(B, key, vals, p)
  BY Zenon DEF Holds
<1>7. PICK n : n = Len(vals)
  OBVIOUS
<1>8. /\ p \in Nat /\ n \in Nat /\ p + n <= b
      /\ \A j \in 1..n : B[p + j] = Field(key, "canonical", vals[j])
      /\ \A i \in 1..b : B[i].name = key => i \in (p + 1)..(p + n)
  <2>1. n \in Nat
    BY <1>7
  <2> QED
    BY <2>1, <1>3, <1>6, <1>7, Zenon DEF Block
<1>p. p \in Nat /\ n \in Nat /\ a \in Nat /\ b \in Nat /\ p + n <= b
  BY <1>5, <1>8
<1>q. PICK q : q = a + p
  OBVIOUS
<1>9. q \in Nat /\ q + n <= Len(x)
  BY <1>5, <1>p, <1>q
<1>10. ASSUME NEW j \in 1..n PROVE x[q + j] = Field(key, "canonical", vals[j])
  <2>1. p + j \in 1..b /\ q + j = a + (p + j)
    BY <1>p, <1>q
  <2> QED
    BY <2>1, <1>5, <1>8, Zenon
<1>11. ASSUME NEW i \in 1..Len(x), x[i].name = key PROVE i \in (q + 1)..(q + n)
  <2>0. (i \in 1..a /\ x[i] = A[i]) \/ (i - a \in 1..b /\ x[i] = B[i - a])
    BY <1>4, HeadersAt
  <2>1. i - a \in 1..b /\ x[i] = B[i - a]
    BY <2>0, <1>2, <1>11, Zenon DEF Absent
  <2>2. i - a \in (p + 1)..(p + n)
    BY <2>1, <1>8, <1>11, Zenon
  <2>3. i \in Nat
    BY <1>5, <1>p
  <2> QED
    BY <2>2, <2>3, <1>p, <1>q
<1>12. Block(x, key, vals, q)
  BY <1>7, <1>9, <1>10, <1>11, Zenon DEF Block
<1> QED
  BY <1>1, <1>4, <1>12, Zenon DEF Headers, Holds

\* The values of one name are written.
LEMMA WrittenHolds ==
  ASSUME NEW key \in ToSet(Names), NEW vals \in Seq(Text)
  PROVE  /\ Header(Written(key, vals)) /\ Holds(Written(key, vals), key, vals)
         /\ \A k : k # key => Absent(Written(key, vals), k)
<1>1. PICK w : w = Written(key, vals)
  OBVIOUS
<1>2. PICK n : n = Len(vals)
  OBVIOUS
<1>3. n \in Nat /\ DOMAIN vals = 1..n /\ \A i \in 1..n : vals[i] \in Text
  BY <1>2
<1>4. w = [i \in 1..n |-> Field(key, "canonical", vals[i])]
  BY <1>1, <1>3, Zenon DEF Written
<1>5. \A i \in 1..n : Field(key, "canonical", vals[i]) \in Fields
  BY <1>3 DEF Fields
<1>6. w \in Seq(Fields) /\ Len(w) = n /\ \A i \in 1..n : w[i] = Field(key, "canonical", vals[i])
  BY <1>3, <1>4, <1>5
<1>7. \A i \in 1..n : w[i].name = key
  <2>1. \A x : Field(key, "canonical", x).name = key
    BY DEF Field
  <2> QED
    BY <2>1, <1>6, Zenon
<1>8. Block(w, key, vals, 0)
  <2>1. 0 \in Nat /\ 0 + n <= Len(w)
    BY <1>3, <1>6
  <2>2. \A j \in 1..n : 0 + j = j
    BY <1>3
  <2>3. 0 + 1 = 1 /\ 0 + n = n
    BY <1>3
  <2> QED
    BY <2>1, <2>2, <2>3, <1>2, <1>6, Zenon DEF Block
<1> QED
  BY <1>1, <1>6, <1>7, <1>8, Zenon DEF Header, Holds, Absent

\* The values of some names, each in fields of its own.
FieldsOf(names, vals, N) == [i \in 1..N |-> Written(names[i], vals[i])]

Named(names, vals, N) ==
    /\ N \in Nat \ {0}
    /\ \A i \in 1..N : names[i] \in ToSet(Names) /\ vals[i] \in Seq(Text)
    /\ \A i, j \in 1..N : names[i] = names[j] => i = j

\* A header that holds the values of these names, and no other name.
HasAll(W, names, vals, N) ==
    /\ Header(W)
    /\ \A i \in 1..N : Holds(W, names[i], vals[i])
    /\ \A k : (\A i \in 1..N : names[i] # k) => Absent(W, k)

\* How FlattenSeq puts N sequences together.
FlattenedBy(e, N, f) ==
    /\ FlattenSeq(e) = f[N]
    /\ f[1] = e[1]
    /\ \A i \in 2..N : f[i] = f[i - 1] \o e[i]

\* FlattenSeq puts the sequences together one by one.
LEMMA FlattenBy ==
  ASSUME NEW N \in Nat \ {0}, NEW e, Len(e) = N
  PROVE  \E f : FlattenedBy(e, N, f)
BY FlattenSteps DEF FlattenedBy

\* ... is what is written for them.
LEMMA AllWritten ==
  ASSUME NEW names, NEW vals, NEW N, Named(names, vals, N), NEW e, e = FieldsOf(names, vals, N)
  PROVE  HasAll(FlattenSeq(e), names, vals, N)
<1>1. /\ N \in Nat \ {0}
      /\ \A i \in 1..N : names[i] \in ToSet(Names) /\ vals[i] \in Seq(Text)
      /\ \A i, j \in 1..N : names[i] = names[j] => i = j
  BY Zenon DEF Named
<1>2. Len(e) = N /\ \A i \in 1..N : e[i] = Written(names[i], vals[i])
  BY <1>1 DEF FieldsOf
<1>0. PICK f : FlattenedBy(e, N, f)
  BY <1>1, <1>2, FlattenBy, Zenon
<1>3. /\ FlattenSeq(e) = f[N]
      /\ f[1] = e[1]
      /\ \A i \in 2..N : f[i] = f[i - 1] \o e[i]
  BY <1>0, Zenon DEF FlattenedBy
<1>4. \A i \in 1..N : /\ Header(e[i]) /\ Holds(e[i], names[i], vals[i])
                      /\ \A k : k # names[i] => Absent(e[i], k)
  <2> SUFFICES ASSUME NEW i \in 1..N
               PROVE  /\ Header(e[i]) /\ Holds(e[i], names[i], vals[i])
                      /\ \A k : k # names[i] => Absent(e[i], k)
    OBVIOUS
  <2>1. names[i] \in ToSet(Names) /\ vals[i] \in Seq(Text) /\ e[i] = Written(names[i], vals[i])
    BY <1>1, <1>2, Zenon
  <2>2. /\ Header(Written(names[i], vals[i])) /\ Holds(Written(names[i], vals[i]), names[i], vals[i])
        /\ \A k : k # names[i] => Absent(Written(names[i], vals[i]), k)
    BY <2>1, WrittenHolds
  <2> QED
    BY <2>1, <2>2, Zenon
<1> DEFINE G == {n \in 0..N : n # 0 => HasAll(f[n], names, vals, n)}
<1>5. 0 \in G
  BY <1>1
<1>6. ASSUME NEW n \in 1..N, n - 1 \in G PROVE n \in G
  <2>1. n \in 0..N
    BY <1>1
  <2>2. CASE n = 1
    <3>1. f[n] = e[n]
      BY <2>2, <1>3
    <3>2. \A i \in 1..n : i = n
      BY <2>2
    <3>3. n \in 1..n
      BY <2>2
    <3>4. HasAll(f[n], names, vals, n)
      BY <3>1, <3>2, <3>3, <1>4, Zenon DEF HasAll
    <3> QED
      BY <3>4, <2>1
  <2>3. CASE n # 1
    <3>1. PICK m : m = n - 1
      OBVIOUS
    <3>2. m \in Nat /\ m # 0 /\ n \in 2..N /\ m \in 1..N
      BY <2>3, <3>1, <1>1
    <3>3. HasAll(f[m], names, vals, m)
      BY <1>6, <3>1, <3>2
    <3>4. f[n] = f[m] \o e[n]
      BY <3>1, <3>2, <1>3
    <3>5. /\ Header(f[m])
          /\ \A i \in 1..m : Holds(f[m], names[i], vals[i])
          /\ \A k : (\A i \in 1..m : names[i] # k) => Absent(f[m], k)
      BY <3>3, Zenon DEF HasAll
    <3>6. \A i \in 1..m : i \in 1..N /\ i # n
      BY <3>1, <3>2, <1>1
    <3>7. n \in 1..n /\ \A i \in 1..n : i \in 1..m \/ i = n
      BY <3>1, <3>2
    <3>8. Header(f[m] \o e[n])
      BY <3>5, <1>4, HeadersBoth, Zenon DEF Headers
    <3>9. ASSUME NEW i \in 1..n PROVE Holds(f[n], names[i], vals[i])
      <4>1. CASE i \in 1..m
        <5>1. names[i] # names[n] /\ vals[i] \in Seq(Text)
          BY <4>1, <3>6, <1>1, Zenon
        <5>2. Absent(e[n], names[i])
          BY <5>1, <1>4, Zenon
        <5>3. Holds(f[m] \o e[n], names[i], vals[i])
          BY <4>1, <5>1, <5>2, <3>5, <1>4, HoldsFront, Zenon
        <5> QED
          BY <5>3, <3>4, Zenon
      <4>2. CASE i = n
        <5>1. \A j \in 1..m : names[j] # names[n]
          BY <3>6, <1>1, Zenon
        <5>2. Absent(f[m], names[n])
          BY <5>1, <3>5, Zenon
        <5>3. Holds(f[m] \o e[n], names[n], vals[n])
          BY <5>2, <3>5, <1>1, <1>4, HoldsBack, Zenon
        <5> QED
          BY <5>3, <3>4, <4>2, Zenon
      <4> QED
        BY <4>1, <4>2, <3>7, Zenon
    <3>10. ASSUME NEW k, \A i \in 1..n : names[i] # k PROVE Absent(f[n], k)
      <4>1. k # names[n]
        BY <3>7, <3>10, Zenon
      <4>2. \A i \in 1..m : i \in 1..n
        BY <3>1, <3>2
      <4>3. Absent(f[m], k) /\ Absent(e[n], k)
        BY <4>1, <4>2, <3>5, <3>10, <1>4, Zenon
      <4>4. Absent(f[m] \o e[n], k)
        BY <4>3, <3>5, <1>4, AbsentBoth, Zenon
      <4> QED
        BY <4>4, <3>4, Zenon
    <3>11. HasAll(f[n], names, vals, n)
      BY <3>4, <3>8, <3>9, <3>10, Zenon DEF HasAll
    <3> QED
      BY <3>11, <2>1
  <2> QED
    BY <2>2, <2>3
<1>7. \A n \in 1..N : n - 1 \in G => n \in G
  BY <1>6
<1> HIDE DEF G
<1>8. \A n \in 0..N : n \in G
  BY <1>1, <1>5, <1>7, StepByStep
<1>9. N \in G
  BY <1>1, <1>8
<1>10. HasAll(f[N], names, vals, N)
  BY <1>1, <1>9 DEF G
<1> QED
  BY <1>3, <1>10, Zenon

\* What is written for the fields that were taken apart.
ParsedNames == <<"To", "From", "Via", "Max-Forwards", "Call-Id", "Cseq", "Contact">>

OneOrNone(x, text) == IF x = Nil THEN <<>> ELSE <<text>>

ContactTexts(c) == [i \in DOMAIN c |-> ContactText(c[i])]

ParsedValues(m) ==
    <<OneOrNone(m.To, ToText(m.To)), OneOrNone(m.From, ToText(m.From)), WriteVias(m.Via),
      OneOrNone(m.MaxForwards, MaxForwardsText(m.MaxForwards)),
      OneOrNone(m.CallID, CallIDText(m.CallID)), OneOrNone(m.CSeq, CSeqText(m.CSeq)),
      ContactTexts(m.Contact)>>

\* ... and for the others, when P was written before them.
OtherValues(m, P) ==
    [i \in 1..9 |-> IF Names[i] \in ignores(P) THEN <<>> ELSE m.Header[Names[i]]]

\* A field that is written if it is there.
OneField(name, x, text) == IF x = Nil THEN <<>> ELSE Written(name, <<text>>)

\* A field that is there is written with its one value, and otherwise with none.
LEMMA OneWritten ==
  ASSUME NEW name, NEW x, NEW text
  PROVE  Same(OneField(name, x, text), Written(name, OneOrNone(x, text)))
<1>1. CASE x = Nil
  <2>1. Written(name, <<>>) = <<>>
    BY DEF Written
  <2> QED
    BY <1>1, <2>1 DEF OneField, OneOrNone, Same
<1>2. CASE x # Nil
  BY <1>2 DEF OneField, OneOrNone, Same
<1> QED
  BY <1>1, <1>2

\* Seven sequences, one behind the other.
LEMMA SevenTogether ==
  ASSUME NEW e, Len(e) = 7
  PROVE  Same(FlattenSeq(e), e[1] \o e[2] \o e[3] \o e[4] \o e[5] \o e[6] \o e[7])
<1>1. PICK N : N = 7
  OBVIOUS
<1>2. N \in Nat \ {0} /\ Len(e) = N
  BY <1>1
<1>0. PICK f : FlattenedBy(e, N, f)
  BY <1>2, FlattenBy, Zenon
<1>3. /\ FlattenSeq(e) = f[N]
      /\ f[1] = e[1]
      /\ \A i \in 2..N : f[i] = f[i - 1] \o e[i]
  BY <1>0, Zenon DEF FlattenedBy
<1>4. /\ 2 \in 2..N /\ 3 \in 2..N /\ 4 \in 2..N /\ 5 \in 2..N /\ 6 \in 2..N /\ 7 \in 2..N
      /\ 2 - 1 = 1 /\ 3 - 1 = 2 /\ 4 - 1 = 3 /\ 5 - 1 = 4 /\ 6 - 1 = 5 /\ 7 - 1 = 6
  BY <1>1
<1>5. f[2] = e[1] \o e[2]
  BY <1>3, <1>4, Zenon
<1>6. f[3] = e[1] \o e[2] \o e[3]
  BY <1>3, <1>4, <1>5, Zenon
<1>7. f[4] = e[1] \o e[2] \o e[3] \o e[4]
  BY <1>3, <1>4, <1>6, Zenon
<1>8. f[5] = e[1] \o e[2] \o e[3] \o e[4] \o e[5]
  BY <1>3, <1>4, <1>7, Zenon
<1>9. f[6] = e[1] \o e[2] \o e[3] \o e[4] \o e[5] \o e[6]
  BY <1>3, <1>4, <1>8, Zenon
<1>10. f[7] = e[1] \o e[2] \o e[3] \o e[4] \o e[5] \o e[6] \o e[7]
  BY <1>3, <1>4, <1>9, Zenon
<1> QED
  BY <1>1, <1>3, <1>10, Zenon DEF Same

\* The header as it is written.
LEMMA HeaderWritten ==
  ASSUME NEW m, NEW P, P = FlattenSeq(FieldsOf(ParsedNames, ParsedValues(m), 7))
  PROVE  Same(writeHeader(m),
              P \o FlattenSeq(FieldsOf(Names, OtherValues(m, P), 9)) \o <<Empty>>)
<1>1. PICK e : e = FieldsOf(ParsedNames, ParsedValues(m), 7)
  OBVIOUS
<1>2. Len(e) = 7 /\ \A i \in 1..7 : e[i] = Written(ParsedNames[i], ParsedValues(m)[i])
  BY <1>1 DEF FieldsOf
<1>3. /\ e[1] = Written(ParsedNames[1], ParsedValues(m)[1])
      /\ e[2] = Written(ParsedNames[2], ParsedValues(m)[2])
      /\ e[3] = Written(ParsedNames[3], ParsedValues(m)[3])
      /\ e[4] = Written(ParsedNames[4], ParsedValues(m)[4])
      /\ e[5] = Written(ParsedNames[5], ParsedValues(m)[5])
      /\ e[6] = Written(ParsedNames[6], ParsedValues(m)[6])
      /\ e[7] = Written(ParsedNames[7], ParsedValues(m)[7])
  BY <1>2
<1>4. /\ e[1] = Written("To", OneOrNone(m.To, ToText(m.To)))
      /\ e[2] = Written("From", OneOrNone(m.From, ToText(m.From)))
      /\ e[3] = Written("Via", WriteVias(m.Via))
      /\ e[4] = Written("Max-Forwards", OneOrNone(m.MaxForwards, MaxForwardsText(m.MaxForwards)))
      /\ e[5] = Written("Call-Id", OneOrNone(m.CallID, CallIDText(m.CallID)))
      /\ e[6] = Written("Cseq", OneOrNone(m.CSeq, CSeqText(m.CSeq)))
      /\ e[7] = Written("Contact", ContactTexts(m.Contact))
  BY <1>3 DEF ParsedNames, ParsedValues
<1>5. P = e[1] \o e[2] \o e[3] \o e[4] \o e[5] \o e[6] \o e[7]
  <2>1. Same(FlattenSeq(e), e[1] \o e[2] \o e[3] \o e[4] \o e[5] \o e[6] \o e[7])
    BY <1>2, SevenTogether, Zenon
  <2> QED
    BY <2>1, <1>1, Zenon DEF Same
<1>6. /\ e[1] = IF m.To = Nil THEN <<>> ELSE Written("To", <<ToText(m.To)>>)
      /\ e[2] = IF m.From = Nil THEN <<>> ELSE Written("From", <<ToText(m.From)>>)
      /\ e[4] = IF m.MaxForwards = Nil THEN <<>>
                ELSE Written("Max-Forwards", <<MaxForwardsText(m.MaxForwards)>>)
      /\ e[5] = IF m.CallID = Nil THEN <<>> ELSE Written("Call-Id", <<CallIDText(m.CallID)>>)
      /\ e[6] = IF m.CSeq = Nil THEN <<>> ELSE Written("Cseq", <<CSeqText(m.CSeq)>>)
  <2>1. /\ e[1] = OneField("To", m.To, ToText(m.To))
        /\ e[2] = OneField("From", m.From, ToText(m.From))
        /\ e[4] = OneField("Max-Forwards", m.MaxForwards, MaxForwardsText(m.MaxForwards))
        /\ e[5] = OneField("Call-Id", m.CallID, CallIDText(m.CallID))
        /\ e[6] = OneField("Cseq", m.CSeq, CSeqText(m.CSeq))
    BY <1>4, OneWritten, Zenon DEF Same
  <2> QED
    BY <2>1, Zenon DEF OneField
<1>7. DOMAIN Names = 1..9
  BY DEF Names
<1>8. PICK F : F = [i \in DOMAIN Names |->
                      Written(Names[i], IF Names[i] \in ignores(P) THEN <<>> ELSE m.Header[Names[i]])]
  OBVIOUS
<1>9. F = FieldsOf(Names, OtherValues(m, P), 9)
  <2>1. F = [i \in 1..9 |->
               Written(Names[i], IF Names[i] \in ignores(P) THEN <<>> ELSE m.Header[Names[i]])]
    BY <1>7, <1>8, Zenon
  <2>2. \A i \in 1..9 : OtherValues(m, P)[i] =
                          IF Names[i] \in ignores(P) THEN <<>> ELSE m.Header[Names[i]]
    BY Zenon DEF OtherValues
  <2> QED
    BY <2>1, <2>2, Zenon DEF FieldsOf
<1>10. e[7] = Written("Contact", [i \in DOMAIN m.Contact |-> ContactText(m.Contact[i])])
  BY <1>4, Zenon DEF ContactTexts
<1>11. writeHeader(m) = P \o FlattenSeq(F) \o <<Empty>>
  BY <1>4, <1>5, <1>6, <1>8, <1>10, Zenon DEF writeHeader
<1> QED
  BY <1>9, <1>11, Zenon DEF Same

\* No name is there twice.
LEMMA NamesOnce ==
  /\ \A i \in 1..9 : Names[i] \in ToSet(Names)
  /\ \A i, j \in 1..9 : Names[i] = Names[j] => i = j
<1>1. \A j \in 1..9 : j = 1 \/ j = 2 \/ j = 3 \/ j = 4 \/ j = 5 \/ j = 6 \/ j = 7 \/ j = 8 \/ j = 9
  OBVIOUS
<1>2. /\ Names[1] = "Call-Id" /\ Names[2] = "Contact" /\ Names[3] = "Cseq"
      /\ Names[4] = "From" /\ Names[5] = "Max-Forwards" /\ Names[6] = "Subject"
      /\ Names[7] = "To" /\ Names[8] = "To " /\ Names[9] = "Via"
  BY DEF Names
<1>3. \A i \in 1..9 : Names[i] \in ToSet(Names)
  <2>1. DOMAIN Names = 1..9
    BY DEF Names
  <2> QED
    BY <2>1 DEF ToSet
<1>4. \A j \in 1..9 : Names[1] = Names[j] => 1 = j
  BY <1>1, <1>2
<1>5. \A j \in 1..9 : Names[2] = Names[j] => 2 = j
  BY <1>1, <1>2
<1>6. \A j \in 1..9 : Names[3] = Names[j] => 3 = j
  BY <1>1, <1>2
<1>7. \A j \in 1..9 : Names[4] = Names[j] => 4 = j
  BY <1>1, <1>2
<1>8. \A j \in 1..9 : Names[5] = Names[j] => 5 = j
  BY <1>1, <1>2
<1>9. \A j \in 1..9 : Names[6] = Names[j] => 6 = j
  BY <1>1, <1>2
<1>10. \A j \in 1..9 : Names[7] = Names[j] => 7 = j
  BY <1>1, <1>2
<1>11. \A j \in 1..9 : Names[8] = Names[j] => 8 = j
  BY <1>1, <1>2
<1>12. \A j \in 1..9 : Names[9] = Names[j] => 9 = j
  BY <1>1, <1>2
<1>13. \A i \in 1..9 : \A j \in 1..9 : Names[i] = Names[j] => i = j
  BY <1>1, <1>4, <1>5, <1>6, <1>7, <1>8, <1>9, <1>10, <1>11, <1>12, Zenon
<1> QED
  BY <1>3, <1>13, Zenon

\* The names of what was taken apart, each once.
LEMMA ParsedNamesOnce ==
  /\ \A i \in 1..7 : ParsedNames[i] \in ToSet(Names)
  /\ \A i, j \in 1..7 : ParsedNames[i] = ParsedNames[j] => i = j
<1>1. \A j \in 1..7 : j = 1 \/ j = 2 \/ j = 3 \/ j = 4 \/ j = 5 \/ j = 6 \/ j = 7
  OBVIOUS
<1>2. /\ ParsedNames[1] = "To" /\ ParsedNames[2] = "From" /\ ParsedNames[3] = "Via"
      /\ ParsedNames[4] = "Max-Forwards" /\ ParsedNames[5] = "Call-Id" /\ ParsedNames[6] = "Cseq"
      /\ ParsedNames[7] = "Contact"
  BY DEF ParsedNames
<1>3. \A i \in 1..7 : ParsedNames[i] \in ToSet(Names)
  <2>1. /\ Names[7] = "To" /\ Names[4] = "From" /\ Names[9] = "Via" /\ Names[5] = "Max-Forwards"
        /\ Names[1] = "Call-Id" /\ Names[3] = "Cseq" /\ Names[2] = "Contact"
    BY DEF Names
  <2>2. /\ 1 \in 1..9 /\ 2 \in 1..9 /\ 3 \in 1..9 /\ 4 \in 1..9 /\ 5 \in 1..9
        /\ 7 \in 1..9 /\ 9 \in 1..9
    OBVIOUS
  <2>3. /\ "To" \in ToSet(Names) /\ "From" \in ToSet(Names) /\ "Via" \in ToSet(Names)
        /\ "Max-Forwards" \in ToSet(Names) /\ "Call-Id" \in ToSet(Names)
        /\ "Cseq" \in ToSet(Names) /\ "Contact" \in ToSet(Names)
    BY <2>1, <2>2, NamesOnce, Zenon
  <2> QED
    BY <2>3, <1>1, <1>2, Zenon
<1>4. \A j \in 1..7 : ParsedNames[1] = ParsedNames[j] => 1 = j
  BY <1>1, <1>2
<1>5. \A j \in 1..7 : ParsedNames[2] = ParsedNames[j] => 2 = j
  BY <1>1, <1>2
<1>6. \A j \in 1..7 : ParsedNames[3] = ParsedNames[j] => 3 = j
  BY <1>1, <1>2
<1>7. \A j \in 1..7 : ParsedNames[4] = ParsedNames[j] => 4 = j
  BY <1>1, <1>2
<1>8. \A j \in 1..7 : ParsedNames[5] = ParsedNames[j] => 5 = j
  BY <1>1, <1>2
<1>9. \A j \in 1..7 : ParsedNames[6] = ParsedNames[j] => 6 = j
  BY <1>1, <1>2
<1>10. \A j \in 1..7 : ParsedNames[7] = ParsedNames[j] => 7 = j
  BY <1>1, <1>2
<1>11. \A i \in 1..7 : \A j \in 1..7 : ParsedNames[i] = ParsedNames[j] => i = j
  BY <1>1, <1>4, <1>5, <1>6, <1>7, <1>8, <1>9, <1>10, Zenon
<1> QED
  BY <1>3, <1>11, Zenon

\* A header is a sequence.
LEMMA HeaderDomain ==
  ASSUME NEW W, Header(W)
  PROVE  Len(W) \in Nat /\ DOMAIN W = 1..Len(W)
BY DEF Header

\* A name without values.
LEMMA HoldsNothing ==
  ASSUME NEW W, NEW key, Header(W), Holds(W, key, <<>>)
  PROVE  Absent(W, key)
<1>1. PICK p : Block(W, key, <<>>, p)
  BY Zenon DEF Holds
<1>2. PICK q : q = <<>>
  OBVIOUS
<1>3. /\ p \in Nat
      /\ \A i \in 1..Len(W) : W[i].name = key => i \in (p + 1)..(p + Len(q))
  BY <1>1, <1>2, Zenon DEF Block
<1>4. Len(q) = 0
  BY <1>2
<1>5. \A i : i \notin (p + 1)..(p + Len(q))
  BY <1>3, <1>4
<1> QED
  BY <1>3, <1>5, Zenon DEF Absent

\* A name with a value.
LEMMA HoldsSome ==
  ASSUME NEW W, NEW key, Header(W), NEW vals \in Seq(Text), vals # <<>>, Holds(W, key, vals)
  PROVE  key \in {W[i].name : i \in DOMAIN W}
<1>1. PICK p : Block(W, key, vals, p)
  BY Zenon DEF Holds
<1>2. /\ p \in Nat /\ p + Len(vals) <= Len(W)
      /\ \A j \in 1..Len(vals) : W[p + j] = Field(key, "canonical", vals[j])
  BY <1>1, Zenon DEF Block
<1>3. Len(vals) \in Nat /\ Len(vals) # 0
  OBVIOUS
<1>4. 1 \in 1..Len(vals)
  BY <1>3
<1>5. W[p + 1].name = key
  <2>1. \A x : Field(key, "canonical", x).name = key
    BY DEF Field
  <2> QED
    BY <2>1, <1>2, <1>4, Zenon
<1>6. Len(W) \in Nat /\ DOMAIN W = 1..Len(W)
  BY HeaderDomain, Zenon
<1>7. p + 1 \in 1..Len(W)
  <2>1. PICK n : n = Len(vals)
    OBVIOUS
  <2>2. PICK l : l = Len(W)
    OBVIOUS
  <2>3. n \in Nat /\ n # 0 /\ l \in Nat /\ p \in Nat /\ p + n <= l
    BY <1>2, <1>3, <1>6, <2>1, <2>2
  <2> QED
    BY <2>2, <2>3
<1> QED
  BY <1>5, <1>6, <1>7, Zenon

\* What was taken apart is written before the others, and what was not with the others.
LEMMA EitherHolds ==
  ASSUME NEW P, Header(P), NEW Q, Header(Q), NEW key, key \notin {"Via", "Contact", "To "},
         NEW vals \in Seq(Text), NEW rest \in Seq(Text),
         Holds(P, key, vals), Holds(Q, key, IF key \in ignores(P) THEN <<>> ELSE rest)
  PROVE  Holds(P \o Q, key, IF vals = <<>> THEN rest ELSE vals)
<1>1. CASE vals = <<>>
  <2>1. Absent(P, key)
    BY <1>1, HoldsNothing, Zenon
  <2>2. DOMAIN P = 1..Len(P)
    BY HeaderDomain, Zenon
  <2>3. key \notin {P[i].name : i \in DOMAIN P}
    BY <2>1, <2>2, Zenon DEF Absent
  <2>4. key \notin ignores(P)
    BY <2>3, Zenon DEF ignores
  <2>5. Holds(Q, key, rest)
    BY <2>4, Zenon
  <2>6. Holds(P \o Q, key, rest)
    BY <2>1, <2>5, HoldsBack, Zenon
  <2> QED
    BY <1>1, <2>6, Zenon
<1>2. CASE vals # <<>>
  <2>1. key \in {P[i].name : i \in DOMAIN P}
    BY <1>2, HoldsSome, Zenon
  <2>2. key \in ignores(P)
    BY <2>1, Zenon DEF ignores
  <2>3. Holds(Q, key, <<>>)
    BY <2>2, Zenon
  <2>4. Absent(Q, key)
    BY <2>3, HoldsNothing, Zenon
  <2>5. Holds(P \o Q, key, vals)
    BY <2>4, HoldsFront, Zenon
  <2> QED
    BY <1>2, <2>5, Zenon
<1> QED
  BY <1>1, <1>2

\* The contacts of a message.
ContactsOf(values) == FlattenSeq([i \in DOMAIN values |-> ParseContacts(values[i])])

\* Every contact of a message was found in some text.
LEMMA ContactsFound ==
  ASSUME NEW values \in Seq(Text)
  PROVE  ContactsOf(values) \in Seq(SomeContacts)
<1>1. PICK f : Items(f, FirstContacts, ContactsLeft) /\ \A s : ParseContacts(s) = f[s]
  BY ContactsRead, Zenon
<1>2. \A t \in Text : f[t] \in Seq(SomeContacts)
  <2>1. \A t \in Text : t # <<>> => FirstContacts[t] \in SomeContacts
    BY DEF FirstContacts, SomeContacts
  <2> QED
    BY <1>1, <2>1, ContactsShorten, ItemsOver
<1>3. PICK R : R = Seq(SomeContacts)
  OBVIOUS
<1>4. PICK e : e = [i \in DOMAIN values |-> ParseContacts(values[i])]
  OBVIOUS
<1>5. \A i \in DOMAIN values : ParseContacts(values[i]) \in R
  <2>1. \A i \in DOMAIN values : values[i] \in Text
    OBVIOUS
  <2> QED
    BY <2>1, <1>1, <1>2, <1>3, Zenon
<1>6. e \in Seq(R)
  BY <1>4, <1>5
<1>7. FlattenSeq(e) \in Seq(SomeContacts)
  BY <1>3, <1>6, FlattenType, Zenon
<1> QED
  BY <1>4, <1>7, Zenon DEF ContactsOf

\* Contacts that are written, each in a field of its own, are read again.
LEMMA ContactsWritten ==
  ASSUME NEW S, NEW c \in Seq(S), \A i \in 1..Len(c) : ContactReads(c[i])
  PROVE  Same(ContactsOf(ContactTexts(c)), c)
<1>1. PICK f : Items(f, FirstContacts, ContactsLeft) /\ \A s : ParseContacts(s) = f[s]
  BY ContactsRead, Zenon
<1>2. DOMAIN c = 1..Len(c)
  OBVIOUS
<1>3. PICK w : w = ContactTexts(c)
  OBVIOUS
<1>4. DOMAIN w = DOMAIN c /\ \A i \in DOMAIN c : w[i] = ContactText(c[i])
  BY <1>3, Zenon DEF ContactTexts
<1>5. ASSUME NEW i \in DOMAIN c PROVE ParseContacts(w[i]) = <<c[i]>>
  <2>1. ContactReads(c[i])
    BY <1>2
  <2>2. PICK t : t = w[i]
    OBVIOUS
  <2>3. t = ContactText(c[i])
    BY <1>4, <2>2
  <2>4. t \in Text /\ t # <<>> /\ FirstContact(t) = c[i] /\ LeftOfContacts(t) = <<>>
    BY <2>1, <2>3, Zenon DEF ContactReads, Whole, Text
  <2>5. FirstContacts[t] = FirstContact(t) /\ ContactsLeft[t] = LeftOfContacts(t)
    BY <2>4 DEF FirstContacts, ContactsLeft
  <2>6. Same(f[t], <<FirstContacts[t]>>)
    BY <1>1, <2>4, <2>5, OneItem, Zenon
  <2> QED
    BY <1>1, <2>2, <2>4, <2>5, <2>6, Zenon DEF Same
<1>6. PICK e : e = [i \in DOMAIN w |-> ParseContacts(w[i])]
  OBVIOUS
<1>7. e = [i \in DOMAIN c |-> <<c[i]>>]
  BY <1>4, <1>5, <1>6, Zenon
<1>8. Same(FlattenSeq(e), c)
  BY <1>7, FlattenSingles, Zenon
<1> QED
  BY <1>3, <1>6, <1>8, Zenon DEF Same, ContactsOf

\* Values without blanks at their ends are read as they are.
LEMMA WholesReading ==
  ASSUME NEW w \in Seq(Text), \A i \in 1..Len(w) : Whole(w[i], Blank)
  PROVE  /\ Same(Readings(w), w)
         /\ \A i \in 1..Len(w) : Reading(w[i]) \in Text
<1>1. PICK n : n = Len(w)
  OBVIOUS
<1>2. n \in Nat /\ w = [i \in 1..n |-> w[i]] /\ \A i \in 1..n : w[i] \in Text
  BY <1>1
<1>3. \A i \in 1..n : Reading(w[i]) = w[i]
  <2>1. \A i \in 1..n : w[i] \in Seq(Char) /\ Whole(w[i], Blank)
    BY <1>1, <1>2 DEF Text
  <2> QED
    BY <2>1, WholeReading, Zenon DEF Same
<1>4. Readings(w) = [i \in 1..n |-> w[i]]
  BY <1>1, <1>3, Zenon DEF Readings
<1> QED
  BY <1>1, <1>2, <1>3, <1>4, Zenon DEF Same

\* The texts of a message's Vias and contacts.
LEMMA ViaTexts ==
  ASSUME NEW S, NEW v \in Seq(S), \A i \in 1..Len(v) : ViaReads(v[i])
  PROVE  /\ WriteVias(v) \in Seq(Text)
         /\ \A i \in 1..Len(WriteVias(v)) : Whole(WriteVias(v)[i], Blank)
<1>1. PICK N : N = Len(v)
  OBVIOUS
<1>2. N \in Nat /\ DOMAIN v = 1..N
  BY <1>1
<1>3. PICK r : r = Reverse(v)
  OBVIOUS
<1>4. Len(r) = N /\ \A i \in 1..N : r[i] = v[(N - i) + 1]
  BY <1>1, <1>3, ReverseParts
<1>5. PICK w : w = WriteVias(v)
  OBVIOUS
<1>6. w = [i \in 1..N |-> ViaString(r[i])]
  BY <1>2, <1>3, <1>5, Zenon DEF WriteVias
<1>7. ASSUME NEW i \in 1..N PROVE ViaString(r[i]) \in Text /\ Whole(ViaString(r[i]), Blank)
  <2>1. (N - i) + 1 \in 1..N
    BY <1>2
  <2>2. ViaReads(r[i])
    BY <1>1, <1>4, <2>1
  <2> QED
    BY <2>2, Zenon DEF ViaReads, Text
<1>8. w \in Seq(Text) /\ Len(w) = N /\ \A i \in 1..N : w[i] = ViaString(r[i])
  BY <1>2, <1>6, <1>7
<1> QED
  BY <1>5, <1>7, <1>8, Zenon

\* Contacts are written in texts that are read as they are.
LEMMA ContactsTexts ==
  ASSUME NEW S, NEW c \in Seq(S), \A i \in 1..Len(c) : ContactReads(c[i])
  PROVE  /\ ContactTexts(c) \in Seq(Text)
         /\ \A i \in 1..Len(ContactTexts(c)) : Whole(ContactTexts(c)[i], Blank)
<1>1. PICK N : N = Len(c)
  OBVIOUS
<1>2. N \in Nat /\ DOMAIN c = 1..N
  BY <1>1
<1>3. PICK w : w = ContactTexts(c)
  OBVIOUS
<1>4. w = [i \in 1..N |-> ContactText(c[i])]
  BY <1>2, <1>3, Zenon DEF ContactTexts
<1>5. \A i \in 1..N : ContactText(c[i]) \in Text /\ Whole(ContactText(c[i]), Blank)
  BY <1>1, Zenon DEF ContactReads, Text
<1>6. w \in Seq(Text) /\ Len(w) = N /\ \A i \in 1..N : w[i] = ContactText(c[i])
  BY <1>2, <1>4, <1>5
<1> QED
  BY <1>3, <1>5, <1>6, Zenon

\* The values of a header that is read.
Values == {v \in Text : Value(v)}

\* A continuation has a text.
LEMMA FoldText ==
  ASSUME NEW l \in Line, l.kind = "fold"
  PROVE  l.value \in Seq(Char)
<1>1. l \in [kind : {"fold"}, value : Text]
  BY DEF Line, Bare, Empty
<1>2. PICK T : T = Text
  OBVIOUS
<1>3. l \in [kind : {"fold"}, value : T]
  BY <1>1, <1>2, Zenon
<1>4. l.value \in T
  BY <1>3
<1> QED
  BY <1>2, <1>4, Zenon DEF Text

\* The text without the blanks before it.
LEMMA TrimLeftValue ==
  ASSUME NEW s \in Seq(Char)
  PROVE  TrimLeft(s, Blank) \in Values
<1>1. /\ TrimLeft(s, Blank) \in Seq(Char)
      /\ TrimLeft(s, Blank) # <<>> => TrimLeft(s, Blank)[1] \notin Blank
  BY TrimLeftParts
<1> QED
  BY <1>1, Zenon DEF Values, Value, Text

\* A field and its continuations are read to a value.
LEMMA LineValue ==
  ASSUME NEW lines \in Seq(Line), NEW N \in Nat, N = Len(lines), lines[N].kind = "empty",
         NEW k \in 1..N, lines[k].kind = "field"
  PROVE  readContinuedLine(lines, k) \in Values
<1>1. k # N /\ lines[N].kind # "fold"
  <2>1. lines[k].kind # "empty"
    OBVIOUS
  <2> QED
    BY <2>1
<1>2. k < N
  BY <1>1
<1>3. PICK m : Stretch(lines, k, m)
  BY <1>1, <1>2, StretchExists
<1>4. /\ m \in Nat /\ k + m + 1 <= N
      /\ \A j \in 1..m : lines[k + j].kind = "fold"
  BY <1>3 DEF Stretch
<1>5. \A i \in 1..N : lines[i] \in Line
  OBVIOUS
<1>6. PICK T : T = Seq(Char)
  OBVIOUS
<1>7. ASSUME NEW j \in 1..(m + 1) PROVE Piece(lines, k, j) \in T
  <2>1. CASE j = 1
    <3>1. lines[k].value \in Seq(Char)
      BY <1>5, FieldParts, Zenon
    <3>2. TrimRight(lines[k].value, Blank) \in Seq(Char)
      BY <3>1, TrimRightParts
    <3> QED
      BY <2>1, <3>2, <1>6, Zenon DEF Piece
  <2>2. CASE j # 1
    <3>1. PICK i : i = j - 1
      OBVIOUS
    <3>2. i \in 1..m /\ k + i = k + j - 1 /\ k + i \in 1..N
      BY <2>2, <3>1, <1>4
    <3>3. lines[k + i].value \in Seq(Char)
      BY <3>2, <1>4, <1>5, FoldText, Zenon
    <3>4. Trim(lines[k + i].value, Blank) \in Seq(Char)
      BY <3>3, Trimmed, Zenon
    <3>5. <<" ">> \in Seq(Char)
      <4>1. " " \in Char
        BY DEF Char, Plain, Other
      <4> QED
        BY <4>1, Single, Zenon
    <3>6. <<" ">> \o Trim(lines[k + i].value, Blank) \in Seq(Char)
      BY <3>4, <3>5, TogetherOver, Zenon
    <3> QED
      BY <2>2, <3>2, <3>6, <1>6, Zenon DEF Piece
  <2> QED
    BY <2>1, <2>2
<1>8. PICK s : s = [j \in 1..(m + 1) |-> Piece(lines, k, j)]
  OBVIOUS
<1>9. s \in Seq(T)
  BY <1>4, <1>7, <1>8
<1>10. FlattenSeq(s) \in Seq(Char)
  BY <1>6, <1>9, FlattenType, Zenon
<1>11. readContinuedLine(lines, k) = TrimLeft(FlattenSeq(s), Blank)
  <2>1. readContinuedLine(lines, k) =
          TrimLeft(FlattenSeq([j \in 1..(m + 1) |-> Piece(lines, k, j)]), Blank)
    BY <1>3, PiecesOf
  <2> QED
    BY <2>1, <1>8, Zenon
<1> QED
  BY <1>10, <1>11, TrimLeftValue, Zenon

\* The values of a header that is read.
LEMMA HeaderValues ==
  ASSUME NEW lines \in Seq(Line), NEW N \in Nat, N = Len(lines), N # 0, lines[N].kind = "empty",
         NEW key \in ToSet(Names)
  PROVE  ReadMIMEHeader(lines)[key] \in Seq(Values)
<1>1. PICK e : EndsAt(lines, e)
  BY EndExists
<1>2. HeaderEnd(lines) = e
  BY <1>1, EndIs
<1>3. e \in 1..N /\ e \in Nat
  BY <1>1 DEF EndsAt
<1>4. PICK f : /\ ReadMIMEHeader(lines)[key] = f[e]
               /\ f[0] = NoValues
               /\ \A i \in 1..e : f[i] = Adding(lines, key, i, f[i - 1])
  BY <1>2, <1>3, ValuesSteps
<1>5. PICK R : R = Seq(Values)
  OBVIOUS
<1> DEFINE G == {i \in 0..e : f[i] \in R}
<1>6. 0 \in G
  <2>1. NoValues \in Seq(Values)
    BY DEF NoValues
  <2>2. f[0] \in R
    BY <2>1, <1>4, <1>5, Zenon
  <2> QED
    BY <2>2, <1>3
<1>7. ASSUME NEW i \in 1..e, i - 1 \in G PROVE i \in G
  <2>1. f[i - 1] \in R
    BY <1>7
  <2>2. i \in 1..N /\ i \in 0..e
    BY <1>3
  <2>3. f[i] = Adding(lines, key, i, f[i - 1])
    BY <1>4
  <2>4. CASE lines[i].kind = "field" /\ canonicalKey(lines[i]) = key
    <3>1. readContinuedLine(lines, i) \in Values
      BY <2>2, <2>4, LineValue, Zenon
    <3>2. PICK w : w = f[i - 1]
      OBVIOUS
    <3>3. PICK v : v = readContinuedLine(lines, i)
      OBVIOUS
    <3>4. w \in Seq(Values) /\ v \in Values
      BY <2>1, <3>1, <3>2, <3>3, <1>5, Zenon
    <3>5. Append(w, v) \in Seq(Values)
      BY <3>4
    <3>6. f[i] = Append(w, v)
      BY <2>3, <2>4, <3>2, <3>3, Zenon DEF Adding
    <3>7. f[i] \in R
      BY <3>5, <3>6, <1>5, Zenon
    <3> QED
      BY <3>7, <2>2
  <2>5. CASE ~(lines[i].kind = "field" /\ canonicalKey(lines[i]) = key)
    <3>1. f[i] \in R
      BY <2>1, <2>3, <2>5, Zenon DEF Adding
    <3> QED
      BY <3>1, <2>2
  <2> QED
    BY <2>4, <2>5
<1>8. \A i \in 1..e : i - 1 \in G => i \in G
  BY <1>7
<1> HIDE DEF G
<1>9. \A i \in 0..e : i \in G
  BY <1>3, <1>6, <1>8, StepByStep
<1>10. e \in G
  BY <1>3, <1>9
<1>11. f[e] \in R
  BY <1>10 DEF G
<1> QED
  BY <1>4, <1>5, <1>11, Zenon

\* The readings of values are texts.
LEMMA ValuesReading ==
  ASSUME NEW w \in Seq(Values)
  PROVE  /\ w \in Seq(Text)
         /\ \A i \in 1..Len(w) : w[i] \in Seq(Char) /\ Value(w[i]) /\ Reading(w[i]) \in Text
<1>1. \A i \in 1..Len(w) : w[i] \in Values
  OBVIOUS
<1>2. \A v \in Values : v \in Text /\ v \in Seq(Char) /\ Value(v)
  BY Zenon DEF Values, Value, Text
<1>3. w \in Seq(Text)
  BY <1>2
<1>4. \A v \in Values : Reading(v) \in Text
  BY <1>2, ReadingOf, Zenon DEF Text
<1> QED
  BY <1>1, <1>2, <1>3, <1>4, Zenon

\* Header.Get finds nothing.
Missing(vals) == vals = <<>> \/ vals[1] = <<>>

\* Values that can be written and read.
Carried(w) == w \in Seq(Text) /\ \A i \in 1..Len(w) : Reading(w[i]) \in Text

\* What is missing is missing when it is read again, and what is not is read without blanks.
LEMMA FirstReading ==
  ASSUME NEW vals \in Seq(Values)
  PROVE  /\ Carried(vals)
         /\ Missing(Readings(vals)) <=> Missing(vals)
         /\ ~Missing(vals) => /\ vals[1] \in Seq(Char) /\ Value(vals[1])
                              /\ Same(Readings(vals)[1], Reading(vals[1]))
<1>1. PICK n : n = Len(vals)
  OBVIOUS
<1>2. n \in Nat /\ (n = 0 <=> vals = <<>>)
  BY <1>1
<1>3. /\ vals \in Seq(Text)
      /\ \A i \in 1..n : vals[i] \in Seq(Char) /\ Value(vals[i]) /\ Reading(vals[i]) \in Text
  BY <1>1, ValuesReading
<1>4. Carried(vals)
  BY <1>1, <1>3, Zenon DEF Carried
<1>5. PICK r : r = Readings(vals)
  OBVIOUS
<1>6. r = [i \in 1..n |-> Reading(vals[i])]
  BY <1>1, <1>5, Zenon DEF Readings
<1>7. Len(r) = n /\ (n = 0 <=> r = <<>>)
  BY <1>2, <1>6
<1>8. CASE n = 0
  <2>1. Missing(vals) /\ Missing(r)
    BY <1>2, <1>7, <1>8 DEF Missing
  <2> QED
    BY <2>1, <1>4, <1>5, Zenon
<1>9. CASE n # 0
  <2>1. 1 \in 1..n
    BY <1>2, <1>9
  <2>2. r[1] = Reading(vals[1]) /\ vals[1] \in Seq(Char) /\ Value(vals[1])
    BY <2>1, <1>3, <1>6, Zenon
  <2>3. r[1] = <<>> <=> vals[1] = <<>>
    BY <2>2, ReadingOf, Zenon
  <2>4. vals # <<>> /\ r # <<>>
    BY <1>2, <1>7, <1>9
  <2> QED
    BY <2>2, <2>3, <2>4, <1>4, <1>5, Zenon DEF Missing, Same
<1> QED
  BY <1>8, <1>9

\* A single text that is written is read as it is.
LEMMA OneReading ==
  ASSUME NEW text \in Seq(Char), Whole(text, Blank), NEW w, w = <<text>>
  PROVE  Carried(w) /\ ~Missing(Readings(w)) /\ Same(Readings(w)[1], text) /\ w # <<>>
<1>1. text # <<>> /\ Same(Reading(text), text) /\ text \in Text
  BY WholeReading, Zenon DEF Text
<1>2. Len(w) = 1 /\ w[1] = text
  OBVIOUS
<1>3. w \in Seq(Text) /\ w # <<>>
  BY <1>1, Single, Zenon
<1>4. \A i \in 1..Len(w) : i = 1
  BY <1>2
<1>5. 1 \in 1..Len(w)
  BY <1>2
<1>6. Carried(w)
  BY <1>1, <1>2, <1>3, <1>4, Zenon DEF Carried, Same
<1>7. PICK r : r = Readings(w)
  OBVIOUS
<1>8. r = [j \in 1..Len(w) |-> Reading(w[j])]
  BY <1>7, Zenon DEF Readings
<1>9. r[1] = text
  BY <1>1, <1>2, <1>5, <1>8, Zenon DEF Same
<1>10. r # <<>>
  BY <1>2, <1>8
<1> QED
  BY <1>1, <1>3, <1>6, <1>7, <1>9, <1>10, Zenon DEF Missing, Same

\* What is written for a field: its text, or else the values that were not taken apart.
Sends(x, text, vals, o, w) ==
    o = OneOrNone(x, text) /\ w = IF o = <<>> THEN vals ELSE o

\* Nothing was taken apart: the values are written as they came.
LEMMA SendsNone ==
  ASSUME NEW text, NEW vals \in Seq(Values), NEW o, NEW w, Sends(Nil, text, vals, o, w)
  PROVE  o \in Seq(Text) /\ Carried(w) /\ w = vals
<1>1. o = <<>>
  BY Zenon DEF Sends, OneOrNone
<1>2. w = vals
  BY <1>1, Zenon DEF Sends
<1>3. o \in Seq(Text)
  BY <1>1
<1> QED
  BY <1>2, <1>3, FirstReading, Zenon

\* A field that was taken apart is written with its own text.
LEMMA SendsOne ==
  ASSUME NEW x, x # Nil, NEW text \in Seq(Char), Whole(text, Blank), NEW vals, NEW o, NEW w,
         Sends(x, text, vals, o, w)
  PROVE  o \in Seq(Text) /\ Carried(w) /\ ~Missing(Readings(w)) /\ Same(Readings(w)[1], text)
<1>1. o = <<text>>
  BY Zenon DEF Sends, OneOrNone
<1>2. Carried(o) /\ ~Missing(Readings(o)) /\ Same(Readings(o)[1], text) /\ o # <<>>
  BY <1>1, OneReading, Zenon
<1>3. w = o
  BY <1>2, Zenon DEF Sends
<1> QED
  BY <1>2, <1>3, Zenon DEF Carried

\* What ParseTo and ParseCallID return is never nil.
LEMMA NeverNil ==
  ASSUME NEW s
  PROVE  ParseTo(s) # Nil /\ ParseCallID(s) # Nil
<1>1. \A a, b : [Addr |-> a, RawParameter |-> b] # [Nil |-> TRUE]
  <2> SUFFICES ASSUME NEW a, NEW b, [Addr |-> a, RawParameter |-> b] = [Nil |-> TRUE] PROVE FALSE
    OBVIOUS
  <2>1. DOMAIN [Addr |-> a, RawParameter |-> b] = {"Addr", "RawParameter"}
    OBVIOUS
  <2>2. DOMAIN [Nil |-> TRUE] = {"Nil"}
    OBVIOUS
  <2>3. "Addr" \in {"Addr", "RawParameter"} /\ "Addr" \notin {"Nil"}
    OBVIOUS
  <2> QED
    BY <2>1, <2>2, <2>3, Zenon
<1>2. \A a, b : [Identifier |-> a, Host |-> b] # [Nil |-> TRUE]
  <2> SUFFICES ASSUME NEW a, NEW b, [Identifier |-> a, Host |-> b] = [Nil |-> TRUE] PROVE FALSE
    OBVIOUS
  <2>1. DOMAIN [Identifier |-> a, Host |-> b] = {"Identifier", "Host"}
    OBVIOUS
  <2>2. DOMAIN [Nil |-> TRUE] = {"Nil"}
    OBVIOUS
  <2>3. "Host" \in {"Identifier", "Host"} /\ "Host" \notin {"Nil"}
    OBVIOUS
  <2> QED
    BY <2>1, <2>2, <2>3, Zenon
<1>3. ParseTo(s) # Nil
  BY <1>1, Zenon DEF ParseTo, NewToHeader, Nil
<1>4. ParseCallID(s) # Nil
  BY <1>2, Zenon DEF ParseCallID, Nil
<1> QED
  BY <1>3, <1>4

\* The field x that is read from some values.
ReadsTo(vals, x)          == x = IF Missing(vals) THEN Nil ELSE ParseTo(vals[1])
ReadsCallID(vals, x)      == x = IF Missing(vals) THEN Nil ELSE ParseCallID(vals[1])
ReadsCSeq(vals, x)        == x = IF Missing(vals) THEN Nil ELSE ParseCSeq(vals[1])
ReadsMaxForwards(vals, x) == x = IF Missing(vals) THEN Nil ELSE ParseMaxForwards(vals[1])

\* To and From are carried over.
LEMMA ToCarried ==
  ASSUME NEW vals \in Seq(Values), NEW x, ReadsTo(vals, x), x = Nil \/ Stable(x),
         NEW o, NEW w, Sends(x, ToText(x), vals, o, w)
  PROVE  o \in Seq(Text) /\ Carried(w) /\ ReadsTo(Readings(w), x)
<1>1. CASE Missing(vals)
  <2>1. x = Nil
    BY <1>1, Zenon DEF ReadsTo
  <2>2. o \in Seq(Text) /\ Carried(w) /\ w = vals
    BY <2>1, SendsNone, Zenon
  <2>3. Missing(Readings(w))
    BY <1>1, <2>2, FirstReading, Zenon
  <2> QED
    BY <2>1, <2>2, <2>3, Zenon DEF ReadsTo
<1>2. CASE ~Missing(vals)
  <2>1. x = ParseTo(vals[1]) /\ vals[1] \in Seq(Char)
    BY <1>2, FirstReading, Zenon DEF ReadsTo
  <2>2. x # Nil
    BY <2>1, NeverNil, Zenon
  <2>3. ReadsBack(ToText(x), ParseTo, x)
    BY <2>1, <2>2, ToKept, Zenon
  <2>4. ToText(x) \in Seq(Char) /\ Whole(ToText(x), Blank) /\ ParseTo(ToText(x)) = x
    BY <2>3, Zenon DEF ReadsBack
  <2>5. o \in Seq(Text) /\ Carried(w) /\ ~Missing(Readings(w)) /\ Same(Readings(w)[1], ToText(x))
    BY <2>2, <2>4, SendsOne, Zenon
  <2> QED
    BY <2>4, <2>5, Zenon DEF ReadsTo, Same
<1> QED
  BY <1>1, <1>2

\* A Call-ID is carried over.
LEMMA CallIDCarried ==
  ASSUME NEW vals \in Seq(Values), NEW x, ReadsCallID(vals, x),
         x # Nil => CallIDText(x) # <<>>,
         NEW o, NEW w, Sends(x, CallIDText(x), vals, o, w)
  PROVE  o \in Seq(Text) /\ Carried(w) /\ ReadsCallID(Readings(w), x)
<1>1. CASE Missing(vals)
  <2>1. x = Nil
    BY <1>1, Zenon DEF ReadsCallID
  <2>2. o \in Seq(Text) /\ Carried(w) /\ w = vals
    BY <2>1, SendsNone, Zenon
  <2>3. Missing(Readings(w))
    BY <1>1, <2>2, FirstReading, Zenon
  <2> QED
    BY <2>1, <2>2, <2>3, Zenon DEF ReadsCallID
<1>2. CASE ~Missing(vals)
  <2>1. x = ParseCallID(vals[1]) /\ vals[1] \in Seq(Char)
    BY <1>2, FirstReading, Zenon DEF ReadsCallID
  <2>2. x # Nil
    BY <2>1, NeverNil, Zenon
  <2>3. ReadsBack(CallIDText(x), ParseCallID, x)
    BY <2>1, <2>2, CallIDKept, Zenon
  <2>4. CallIDText(x) \in Seq(Char) /\ Whole(CallIDText(x), Blank) /\ ParseCallID(CallIDText(x)) = x
    BY <2>3, Zenon DEF ReadsBack
  <2>5. o \in Seq(Text) /\ Carried(w) /\ ~Missing(Readings(w)) /\ Same(Readings(w)[1], CallIDText(x))
    BY <2>2, <2>4, SendsOne, Zenon
  <2> QED
    BY <2>4, <2>5, Zenon DEF ReadsCallID, Same
<1> QED
  BY <1>1, <1>2

\* A CSeq is carried over; one that is no number stays with the other fields.
LEMMA CSeqCarried ==
  ASSUME NEW vals \in Seq(Values), NEW x, ReadsCSeq(vals, x), x # Panics,
         NEW o, NEW w, Sends(x, CSeqText(x), vals, o, w)
  PROVE  o \in Seq(Text) /\ Carried(w) /\ ReadsCSeq(Readings(w), x)
<1>1. CASE x = Nil
  <2>2. o \in Seq(Text) /\ Carried(w) /\ w = vals
    BY <1>1, SendsNone, Zenon
  <2>3. CASE Missing(vals)
    <3>1. Missing(Readings(w))
      BY <2>2, <2>3, FirstReading, Zenon
    <3> QED
      BY <1>1, <2>2, <3>1, Zenon DEF ReadsCSeq
  <2>4. CASE ~Missing(vals)
    <3>1. /\ ~Missing(Readings(w)) /\ vals[1] \in Seq(Char) /\ Value(vals[1])
          /\ Same(Readings(w)[1], Reading(vals[1]))
      BY <2>2, <2>4, FirstReading, Zenon
    <3>2. PICK r : r = Reading(vals[1])
      OBVIOUS
    <3>3. Same(r, Trim(vals[1], Blank)) /\ Same(r, TrimRight(vals[1], Blank)) /\ r \in Seq(Char)
      BY <3>1, <3>2, ReadingOf, Zenon
    <3>4. Same(Trim(r, Blank), Trim(vals[1], Blank))
      <4>1. r # <<>> => r[1] \notin Blank /\ r[Len(r)] \notin Blank
        BY <3>1, <3>3, Trimmed, Zenon DEF Same
      <4>2. Trim(r, Blank) = r
        BY <3>3, <4>1, TrimNothing
      <4> QED
        BY <3>3, <4>2, Zenon DEF Same
    <3>5. Same(ParseCSeq(r), ParseCSeq(vals[1]))
      BY <3>4, CSeqTrims, Zenon
    <3> QED
      BY <2>2, <2>4, <3>1, <3>2, <3>5, Zenon DEF ReadsCSeq, Same
  <2> QED
    BY <2>3, <2>4
<1>2. CASE x # Nil
  <2>1. ~Missing(vals)
    BY <1>2, Zenon DEF ReadsCSeq
  <2>2. x = ParseCSeq(vals[1]) /\ vals[1] \in Seq(Char)
    BY <2>1, FirstReading, Zenon DEF ReadsCSeq
  <2>3. ReadsBack(CSeqText(x), ParseCSeq, x)
    BY <2>2, <1>2, CSeqKept, Zenon
  <2>4. CSeqText(x) \in Seq(Char) /\ Whole(CSeqText(x), Blank) /\ ParseCSeq(CSeqText(x)) = x
    BY <2>3, Zenon DEF ReadsBack
  <2>5. o \in Seq(Text) /\ Carried(w) /\ ~Missing(Readings(w)) /\ Same(Readings(w)[1], CSeqText(x))
    BY <1>2, <2>4, SendsOne, Zenon
  <2> QED
    BY <2>4, <2>5, Zenon DEF ReadsCSeq, Same
<1> QED
  BY <1>1, <1>2

\* Values without blanks at their ends are carried over as they are.
Untrimmed(vals) == \A i \in DOMAIN vals : TrimRight(vals[i], Blank) = vals[i]

\* ... and read as they are.
LEMMA PlainCarried ==
  ASSUME NEW vals \in Seq(Values), Untrimmed(vals)
  PROVE  Carried(vals) /\ Same(Readings(vals), vals)
<1>1. PICK n : n = Len(vals)
  OBVIOUS
<1>2. n \in Nat /\ vals = [i \in 1..n |-> vals[i]] /\ DOMAIN vals = 1..n
  BY <1>1
<1>3. \A i \in 1..n : vals[i] \in Seq(Char) /\ Value(vals[i])
  BY <1>1, ValuesReading
<1>4. \A i \in 1..n : Reading(vals[i]) = vals[i]
  <2>1. \A i \in 1..n : TrimRight(vals[i], Blank) = vals[i]
    BY <1>2, Zenon DEF Untrimmed
  <2> QED
    BY <2>1, <1>3, ReadingOf, Zenon DEF Same
<1>5. Readings(vals) = [i \in 1..n |-> vals[i]]
  BY <1>1, <1>4, Zenon DEF Readings
<1> QED
  BY <1>2, <1>5, FirstReading, Zenon DEF Same

\* Max-Forwards is carried over; one that is no number stays with the other fields.
LEMMA MaxForwardsCarried ==
  ASSUME NEW vals \in Seq(Values), Untrimmed(vals),
         NEW x, ReadsMaxForwards(vals, x),
         NEW o, NEW w, Sends(x, MaxForwardsText(x), vals, o, w)
  PROVE  /\ o \in Seq(Text) /\ Carried(w) /\ ReadsMaxForwards(Readings(w), x)
         /\ x = Nil => Same(Readings(w), vals)
<1>1. CASE x = Nil
  <2>2. o \in Seq(Text) /\ Carried(w) /\ w = vals
    BY <1>1, SendsNone, Zenon
  <2>3. Same(Readings(w), vals)
    BY <2>2, PlainCarried, Zenon
  <2>4. ReadsMaxForwards(Readings(w), x)
    BY <2>2, <2>3, Zenon DEF Same
  <2> QED
    BY <1>1, <2>2, <2>3, <2>4, Zenon
<1>2. CASE x # Nil
  <2>1. ~Missing(vals)
    BY <1>2, Zenon DEF ReadsMaxForwards
  <2>2. x = ParseMaxForwards(vals[1]) /\ vals[1] \in Seq(Char)
    BY <2>1, FirstReading, Zenon DEF ReadsMaxForwards
  <2>3. ReadsBack(MaxForwardsText(x), ParseMaxForwards, x)
    BY <2>2, <1>2, MaxForwardsKept, Zenon
  <2>4. /\ MaxForwardsText(x) \in Seq(Char) /\ Whole(MaxForwardsText(x), Blank)
        /\ ParseMaxForwards(MaxForwardsText(x)) = x
    BY <2>3, Zenon DEF ReadsBack
  <2>5. /\ o \in Seq(Text) /\ Carried(w) /\ ~Missing(Readings(w))
        /\ Same(Readings(w)[1], MaxForwardsText(x))
    BY <1>2, <2>4, SendsOne, Zenon
  <2> QED
    BY <1>2, <2>4, <2>5, Zenon DEF ReadsMaxForwards, Same
<1> QED
  BY <1>1, <1>2

\* What is written for m: the values that were taken apart, and the others.
Writes(m, V, W) ==
    /\ Header(W) /\ writeHeader(m) = Append(W, Empty)
    /\ Holds(W, "Via", V[3]) /\ Holds(W, "Contact", V[7]) /\ Holds(W, "Subject", m.Header["Subject"])
    /\ \A i \in {1, 2, 4, 5, 6} :
          Holds(W, ParsedNames[i], IF V[i] = <<>> THEN m.Header[ParsedNames[i]] ELSE V[i])

\* The elements of OtherValues.
LEMMA OthersAre ==
  ASSUME NEW m, \A key \in ToSet(Names) : m.Header[key] \in Seq(Text), NEW P
  PROVE  /\ \A i \in 1..9 : OtherValues(m, P)[i] \in Seq(Text)
         /\ \A i \in 1..9 :
               OtherValues(m, P)[i] = IF Names[i] \in ignores(P) THEN <<>> ELSE m.Header[Names[i]]
<1>1. \A i \in 1..9 :
         OtherValues(m, P)[i] = IF Names[i] \in ignores(P) THEN <<>> ELSE m.Header[Names[i]]
  BY Zenon DEF OtherValues
<1>2. <<>> \in Seq(Text)
  OBVIOUS
<1>3. \A i \in 1..9 : Names[i] \in ToSet(Names)
  BY NamesOnce
<1>4. \A i \in 1..9 : OtherValues(m, P)[i] \in Seq(Text)
  BY <1>1, <1>2, <1>3, Zenon
<1> QED
  BY <1>1, <1>4

\* The names of what was taken apart, among all names.
Places(p) ==
    /\ p[1] = 7 /\ p[2] = 4 /\ p[3] = 9 /\ p[4] = 5 /\ p[5] = 1 /\ p[6] = 3 /\ p[7] = 2

\* Every name of what was taken apart is one of the names.
LEMMA NamePlaces ==
  ASSUME NEW p, p = <<7, 4, 9, 5, 1, 3, 2>>
  PROVE  \A i \in 1..7 : p[i] \in 1..9 /\ ParsedNames[i] = Names[p[i]]
<1>1. \A i \in 1..7 : p[i] \in 1..9
  OBVIOUS
<1>2. /\ ParsedNames[1] = "To" /\ ParsedNames[2] = "From" /\ ParsedNames[3] = "Via"
      /\ ParsedNames[4] = "Max-Forwards" /\ ParsedNames[5] = "Call-Id" /\ ParsedNames[6] = "Cseq"
      /\ ParsedNames[7] = "Contact"
  BY DEF ParsedNames
<1>3. /\ Names[7] = "To" /\ Names[4] = "From" /\ Names[9] = "Via" /\ Names[5] = "Max-Forwards"
      /\ Names[1] = "Call-Id" /\ Names[3] = "Cseq" /\ Names[2] = "Contact"
  BY DEF Names
<1>4. Places(p)
  BY DEF Places
<1>5. \A i \in 1..7 : i = 1 \/ i = 2 \/ i = 3 \/ i = 4 \/ i = 5 \/ i = 6 \/ i = 7
  OBVIOUS
<1>6. \A i \in 1..7 : ParsedNames[i] = Names[p[i]]
  BY <1>2, <1>3, <1>4, <1>5, Zenon DEF Places
<1> QED
  BY <1>1, <1>6

\* Every value that was read is written with its name: those that were taken
\* apart as they are, the others as they came.
LEMMA WritesAll ==
  ASSUME NEW m, \A key \in ToSet(Names) : m.Header[key] \in Seq(Text),
         NEW V, V = ParsedValues(m), \A i \in 1..7 : V[i] \in Seq(Text)
  PROVE  \E W : Writes(m, V, W)
<1>1. PICK P : P = FlattenSeq(FieldsOf(ParsedNames, V, 7))
  OBVIOUS
<1>2. HasAll(P, ParsedNames, V, 7)
  <2>1. Named(ParsedNames, V, 7)
    <3>1. 7 \in Nat \ {0}
      OBVIOUS
    <3> QED
      BY <3>1, ParsedNamesOnce, Zenon DEF Named
  <2> QED
    BY <1>1, <2>1, AllWritten, Zenon
<1>3. PICK O : O = OtherValues(m, P)
  OBVIOUS
<1>4. /\ \A i \in 1..9 : O[i] \in Seq(Text)
      /\ \A i \in 1..9 : O[i] = IF Names[i] \in ignores(P) THEN <<>> ELSE m.Header[Names[i]]
  BY <1>3, OthersAre, Zenon
<1>5. PICK Q : Q = FlattenSeq(FieldsOf(Names, O, 9))
  OBVIOUS
<1>6. HasAll(Q, Names, O, 9)
  <2>1. Named(Names, O, 9)
    <3>1. 9 \in Nat \ {0}
      OBVIOUS
    <3> QED
      BY <3>1, <1>4, NamesOnce, Zenon DEF Named
  <2> QED
    BY <1>5, <2>1, AllWritten, Zenon
<1>7. /\ Header(P) /\ \A i \in 1..7 : Holds(P, ParsedNames[i], V[i])
      /\ \A k : (\A i \in 1..7 : ParsedNames[i] # k) => Absent(P, k)
  BY <1>2, Zenon DEF HasAll
<1>8. Header(Q) /\ \A i \in 1..9 : Holds(Q, Names[i], O[i])
  BY <1>6, Zenon DEF HasAll
<1>9. PICK W : W = P \o Q
  OBVIOUS
<1>10. Header(W) /\ writeHeader(m) = Append(W, Empty)
  <2>1. Header(W)
    BY <1>7, <1>8, <1>9, HeadersBoth, Zenon DEF Headers
  <2>2. writeHeader(m) = W \o <<Empty>>
    BY <1>1, <1>3, <1>5, <1>9, HeaderWritten, Zenon DEF Same
  <2>3. W \in Seq(Fields)
    BY <2>1, Zenon DEF Header
  <2>4. W \o <<Empty>> = Append(W, Empty)
    <3>1. PICK D : D = Fields \cup {Empty}
      OBVIOUS
    <3>2. PICK z : z = Empty
      OBVIOUS
    <3>3. W \in Seq(D) /\ z \in D
      BY <2>3, <3>1, <3>2
    <3>4. W \o <<z>> = Append(W, z)
      BY <3>3
    <3> QED
      BY <3>2, <3>4, Zenon
  <2> QED
    BY <2>1, <2>2, <2>4, Zenon
<1>11. PICK p : p = <<7, 4, 9, 5, 1, 3, 2>>
  OBVIOUS
<1>12. ASSUME NEW i \in 1..7
       PROVE  /\ ParsedNames[i] \in ToSet(Names) /\ m.Header[ParsedNames[i]] \in Seq(Text)
              /\ Holds(P, ParsedNames[i], V[i])
              /\ Holds(Q, ParsedNames[i], IF ParsedNames[i] \in ignores(P) THEN <<>>
                                          ELSE m.Header[ParsedNames[i]])
  <2>1. p[i] \in 1..9 /\ ParsedNames[i] = Names[p[i]]
    BY <1>11, NamePlaces
  <2>2. ParsedNames[i] \in ToSet(Names)
    BY ParsedNamesOnce
  <2> QED
    BY <2>1, <2>2, <1>4, <1>7, <1>8, Zenon
<1>13. /\ 1 \in 1..7 /\ 2 \in 1..7 /\ 3 \in 1..7 /\ 4 \in 1..7 /\ 5 \in 1..7 /\ 6 \in 1..7 /\ 7 \in 1..7
       /\ 6 \in 1..9
  OBVIOUS
<1>14. /\ ParsedNames[1] = "To" /\ ParsedNames[2] = "From" /\ ParsedNames[3] = "Via"
       /\ ParsedNames[4] = "Max-Forwards" /\ ParsedNames[5] = "Call-Id" /\ ParsedNames[6] = "Cseq"
       /\ ParsedNames[7] = "Contact" /\ Names[6] = "Subject"
  BY DEF ParsedNames, Names
<1>15. \A i \in {1, 2, 4, 5, 6} : i \in 1..7 /\ ParsedNames[i] \notin {"Via", "Contact", "To "}
  <2>1. \A i \in {1, 2, 4, 5, 6} : i = 1 \/ i = 2 \/ i = 4 \/ i = 5 \/ i = 6
    OBVIOUS
  <2>2. \A n \in {"To", "From", "Max-Forwards", "Call-Id", "Cseq"} : n \notin {"Via", "Contact", "To "}
    OBVIOUS
  <2>3. \A i \in {1, 2, 4, 5, 6} :
           ParsedNames[i] \in {"To", "From", "Max-Forwards", "Call-Id", "Cseq"}
    BY <2>1, <1>14, Zenon
  <2> QED
    BY <2>1, <2>2, <2>3, <1>13, Zenon
<1>16. ASSUME NEW i \in {1, 2, 4, 5, 6}
       PROVE  Holds(W, ParsedNames[i], IF V[i] = <<>> THEN m.Header[ParsedNames[i]] ELSE V[i])
  <2>1. i \in 1..7 /\ ParsedNames[i] \notin {"Via", "Contact", "To "}
    BY <1>15
  <2>2. V[i] \in Seq(Text)
    BY <2>1
  <2> QED
    BY <2>1, <2>2, <1>7, <1>8, <1>9, <1>12, EitherHolds, Zenon
<1>17. ASSUME NEW i \in {3, 7} PROVE Holds(W, ParsedNames[i], V[i])
  <2>1. i \in 1..7 /\ ParsedNames[i] \in {"Via", "Contact", "To "}
    <3>1. i = 3 \/ i = 7
      OBVIOUS
    <3> QED
      BY <3>1, <1>13, <1>14, Zenon
  <2>2. V[i] \in Seq(Text)
    BY <2>1
  <2>3. ParsedNames[i] \in ignores(P)
    <3>1. \A n \in {"Via", "Contact", "To "} : n \in ignores(P)
      BY Zenon DEF ignores
    <3> QED
      BY <2>1, <3>1, Zenon
  <2>4. Holds(P, ParsedNames[i], V[i]) /\ Holds(Q, ParsedNames[i], <<>>)
    BY <2>1, <2>3, <1>12, Zenon
  <2>5. Absent(Q, ParsedNames[i])
    BY <2>4, <1>8, HoldsNothing, Zenon
  <2> QED
    BY <2>2, <2>4, <2>5, <1>7, <1>8, <1>9, HoldsFront, Zenon
<1>18. Holds(W, "Via", V[3]) /\ Holds(W, "Contact", V[7])
  BY <1>14, <1>17
<1>19. Holds(W, "Subject", m.Header["Subject"])
  <2>1. \A i \in 1..7 : i = 1 \/ i = 2 \/ i = 3 \/ i = 4 \/ i = 5 \/ i = 6 \/ i = 7
    OBVIOUS
  <2>2. \A i \in 1..7 : ParsedNames[i] # "Subject"
    BY <2>1, <1>14
  <2>3. Absent(P, "Subject")
    BY <2>2, <1>7, Zenon
  <2>4. DOMAIN P = 1..Len(P)
    BY <1>7, HeaderDomain, Zenon
  <2>5. "Subject" \notin {P[i].name : i \in DOMAIN P}
    BY <2>3, <2>4, Zenon DEF Absent
  <2>6. "Subject" \notin {"Via", "Contact", "To "}
    OBVIOUS
  <2>7. "Subject" \notin ignores(P)
    BY <2>5, <2>6, Zenon DEF ignores
  <2>8. Holds(Q, "Subject", m.Header["Subject"]) /\ m.Header["Subject"] \in Seq(Text)
    BY <2>7, <1>4, <1>8, <1>13, <1>14, Zenon
  <2> QED
    BY <2>3, <2>8, <1>7, <1>8, <1>9, HoldsBack, Zenon
<1> QED
  BY <1>10, <1>16, <1>18, <1>19, Zenon DEF Writes

\* The Vias that were read without a panic and have something behind the protocol.
LEMMA ReadableVias ==
  ASSUME NEW values \in Seq(Text), NEW v, v = AllVias(values), Panics \notin ToSet(v),
         \A i \in DOMAIN v : v[i].SentBy # <<>> \/ v[i].RawParameter # <<>>
  PROVE  v \in Seq(SomeVias) /\ \A i \in 1..Len(v) : ViaReads(v[i])
<1>1. v \in Seq(SomeVias)
  BY ViasFound, Zenon
<1>2. DOMAIN v = 1..Len(v) /\ \A i \in 1..Len(v) : v[i] \in SomeVias
  BY <1>1
<1>3. ASSUME NEW i \in 1..Len(v) PROVE ViaReads(v[i])
  <2>1. PICK t \in Text : v[i] = FirstVia(t).via
    BY <1>2, Zenon DEF SomeVias
  <2>2. v[i] # Panics
    BY <1>2, <1>3, Zenon DEF ToSet
  <2>3. t \in Seq(Char) /\ FirstVia(t).via # Panics
    BY <2>1, <2>2, Zenon DEF Text
  <2>4. ViaIsRead(v[i])
    BY <2>1, <2>3, FirstViaParts, Zenon
  <2> QED
    BY <2>4, <1>2, ViaWritten, Zenon
<1> QED
  BY <1>1, <1>3

\* The contacts that can be read back.
LEMMA ReadableContacts ==
  ASSUME NEW values \in Seq(Text), NEW c, c = ContactsOf(values),
         \A i \in DOMAIN c : c[i] = StarContact \/ Stable(c[i])
  PROVE  c \in Seq(SomeContacts) /\ \A i \in 1..Len(c) : ContactReads(c[i])
<1>1. c \in Seq(SomeContacts)
  BY ContactsFound, Zenon
<1>2. DOMAIN c = 1..Len(c) /\ \A i \in 1..Len(c) : c[i] \in SomeContacts
  BY <1>1
<1> QED
  BY <1>1, <1>2, ContactWritten, Zenon

\* A message has these fields, and its header is h.
Message(m, h) ==
    m = [To |-> m.To, From |-> m.From, CallID |-> m.CallID, CSeq |-> m.CSeq,
         MaxForwards |-> m.MaxForwards, Via |-> m.Via, Contact |-> m.Contact, Header |-> h]

\* A message that was read from the header h.
ReadFrom(m, h) ==
    /\ Message(m, h) /\ m.Header = h
    /\ ReadsTo(h["To"], m.To) /\ ReadsTo(h["From"], m.From)
    /\ ReadsCallID(h["Call-Id"], m.CallID) /\ ReadsCSeq(h["Cseq"], m.CSeq)
    /\ ReadsMaxForwards(h["Max-Forwards"], m.MaxForwards)
    /\ m.Via = AllVias(h["Via"]) /\ m.Contact = ContactsOf(h["Contact"])

\* parseHeader reads every field from the values of its name.
LEMMA Parsed ==
  ASSUME NEW h, NEW m, m = parseHeader(h)
  PROVE  ReadFrom(m, h)
<1>1. PICK to, from, id, seq, max, via, contact :
         /\ to = First(h, "To", ParseTo) /\ from = First(h, "From", ParseTo)
         /\ id = First(h, "Call-Id", ParseCallID) /\ seq = First(h, "Cseq", ParseCSeq)
         /\ max = First(h, "Max-Forwards", ParseMaxForwards)
         /\ via = AllVias(h["Via"])
         /\ contact = FlattenSeq([i \in DOMAIN h["Contact"] |-> ParseContacts(h["Contact"][i])])
  OBVIOUS
<1>2. m = [To |-> to, From |-> from, CallID |-> id, CSeq |-> seq, MaxForwards |-> max,
           Via |-> via, Contact |-> contact, Header |-> h]
  BY <1>1, Zenon DEF parseHeader
<1>3. /\ m.To = to /\ m.From = from /\ m.CallID = id /\ m.CSeq = seq /\ m.MaxForwards = max
      /\ m.Via = via /\ m.Contact = contact /\ m.Header = h
  BY <1>2
<1>4. ReadsTo(h["To"], to) /\ ReadsTo(h["From"], from)
  BY <1>1, Zenon DEF First, ReadsTo, Missing
<1>5. ReadsCallID(h["Call-Id"], id)
  BY <1>1, Zenon DEF First, ReadsCallID, Missing
<1>6. ReadsCSeq(h["Cseq"], seq)
  BY <1>1, Zenon DEF First, ReadsCSeq, Missing
<1>7. ReadsMaxForwards(h["Max-Forwards"], max)
  BY <1>1, Zenon DEF First, ReadsMaxForwards, Missing
<1>8. contact = ContactsOf(h["Contact"])
  BY <1>1, Zenon DEF ContactsOf
<1> QED
  BY <1>1, <1>2, <1>3, <1>4, <1>5, <1>6, <1>7, <1>8, Zenon DEF ReadFrom, Message

\* Messages with the same fields differ in the other fields of their header only.
LEMMA SameFields ==
  ASSUME NEW m, NEW h, Message(m, h), NEW n, NEW g, Message(n, g),
         n.To = m.To, n.From = m.From, n.CallID = m.CallID, n.CSeq = m.CSeq,
         n.MaxForwards = m.MaxForwards, n.Via = m.Via, n.Contact = m.Contact
  PROVE  Same([n EXCEPT !.Header = <<>>], [m EXCEPT !.Header = <<>>])
<1>1. PICK to, from, id, seq, max, via, contact :
         /\ to = m.To /\ from = m.From /\ id = m.CallID /\ seq = m.CSeq
         /\ max = m.MaxForwards /\ via = m.Via /\ contact = m.Contact
  OBVIOUS
<1>2. m = [To |-> to, From |-> from, CallID |-> id, CSeq |-> seq, MaxForwards |-> max,
           Via |-> via, Contact |-> contact, Header |-> h]
  BY <1>1 DEF Message
<1>3. n = [To |-> to, From |-> from, CallID |-> id, CSeq |-> seq, MaxForwards |-> max,
           Via |-> via, Contact |-> contact, Header |-> g]
  BY <1>1 DEF Message
<1> QED
  BY <1>2, <1>3 DEF Same

\* The values of a name that are written are read again.
LEMMA HeldRead ==
  ASSUME NEW W, Header(W), NEW key \in ToSet(Names), NEW vals, Holds(W, key, vals), Carried(vals),
         NEW L, L = Append(W, Empty)
  PROVE  Same(ReadMIMEHeader(L)[key], Readings(vals))
<1>1. PICK p : Block(W, key, vals, p)
  BY Zenon DEF Holds
<1>2. vals \in Seq(Text) /\ \A i \in 1..Len(vals) : Reading(vals[i]) \in Text
  BY Zenon DEF Carried
<1>3. Ended(W, L)
  BY Zenon DEF Ended
<1> QED
  BY <1>1, <1>2, <1>3, BlockRead, Zenon

\* The names that are looked up.
LEMMA KnownNames ==
  /\ "To" \in ToSet(Names) /\ "From" \in ToSet(Names) /\ "Via" \in ToSet(Names)
  /\ "Max-Forwards" \in ToSet(Names) /\ "Call-Id" \in ToSet(Names) /\ "Cseq" \in ToSet(Names)
  /\ "Contact" \in ToSet(Names) /\ "Subject" \in ToSet(Names)
<1>1. /\ Names[7] = "To" /\ Names[4] = "From" /\ Names[9] = "Via" /\ Names[5] = "Max-Forwards"
      /\ Names[1] = "Call-Id" /\ Names[3] = "Cseq" /\ Names[2] = "Contact" /\ Names[6] = "Subject"
  BY DEF Names
<1>2. /\ 1 \in 1..9 /\ 2 \in 1..9 /\ 3 \in 1..9 /\ 4 \in 1..9 /\ 5 \in 1..9 /\ 6 \in 1..9
      /\ 7 \in 1..9 /\ 9 \in 1..9
  OBVIOUS
<1> QED
  BY <1>1, <1>2, NamesOnce, Zenon

\* What is written for a message that was read from the header h: V has the
\* values that were taken apart, and each of a, ..., e those that are written for
\* a name that is there once.
Carries(m, h, V, a, b, c, d, e) ==
    /\ V = ParsedValues(m)
    /\ Sends(m.To, ToText(m.To), h["To"], V[1], a)
    /\ Sends(m.From, ToText(m.From), h["From"], V[2], b)
    /\ Sends(m.MaxForwards, MaxForwardsText(m.MaxForwards), h["Max-Forwards"], V[4], c)
    /\ Sends(m.CallID, CallIDText(m.CallID), h["Call-Id"], V[5], d)
    /\ Sends(m.CSeq, CSeqText(m.CSeq), h["Cseq"], V[6], e)
    /\ V[3] = WriteVias(m.Via) /\ V[7] = ContactTexts(m.Contact)

\* There are such values for every message.
LEMMA CarriesSome ==
  ASSUME NEW m, NEW h
  PROVE  \E V, a, b, c, d, e : Carries(m, h, V, a, b, c, d, e)
<1>1. PICK V : V = ParsedValues(m)
  OBVIOUS
<1>2. /\ V[1] = OneOrNone(m.To, ToText(m.To))
      /\ V[2] = OneOrNone(m.From, ToText(m.From))
      /\ V[3] = WriteVias(m.Via)
      /\ V[4] = OneOrNone(m.MaxForwards, MaxForwardsText(m.MaxForwards))
      /\ V[5] = OneOrNone(m.CallID, CallIDText(m.CallID))
      /\ V[6] = OneOrNone(m.CSeq, CSeqText(m.CSeq))
      /\ V[7] = ContactTexts(m.Contact)
  BY <1>1 DEF ParsedValues
<1>3. PICK a, b, c, d, e :
         /\ a = IF V[1] = <<>> THEN h["To"] ELSE V[1]
         /\ b = IF V[2] = <<>> THEN h["From"] ELSE V[2]
         /\ c = IF V[4] = <<>> THEN h["Max-Forwards"] ELSE V[4]
         /\ d = IF V[5] = <<>> THEN h["Call-Id"] ELSE V[5]
         /\ e = IF V[6] = <<>> THEN h["Cseq"] ELSE V[6]
  OBVIOUS
<1>4. Carries(m, h, V, a, b, c, d, e)
  BY <1>1, <1>2, <1>3, Zenon DEF Carries, Sends
<1> QED
  BY <1>4, Zenon

\* A readable message is the same after it was written and read.
LEMMA SurvivesRead ==
  ASSUME NEW h, \A key \in ToSet(Names) : h[key] \in Seq(Values),
         NEW m, m = parseHeader(h), Readable(m)
  PROVE  SameMessage(m, readMessage(writeHeader(m)))
<1>1. ReadFrom(m, h)
  BY Parsed, Zenon
<1>2. /\ Message(m, h) /\ m.Header = h
      /\ ReadsTo(h["To"], m.To) /\ ReadsTo(h["From"], m.From)
      /\ ReadsCallID(h["Call-Id"], m.CallID) /\ ReadsCSeq(h["Cseq"], m.CSeq)
      /\ ReadsMaxForwards(h["Max-Forwards"], m.MaxForwards)
      /\ m.Via = AllVias(h["Via"]) /\ m.Contact = ContactsOf(h["Contact"])
  BY <1>1, Zenon DEF ReadFrom
<1>3. /\ m.CSeq # Panics /\ Panics \notin ToSet(m.Via)
      /\ \A i \in DOMAIN m.Via : m.Via[i].SentBy # <<>> \/ m.Via[i].RawParameter # <<>>
      /\ m.CallID # Nil => CallIDText(m.CallID) # <<>>
      /\ m.To = Nil \/ Stable(m.To)
      /\ m.From = Nil \/ Stable(m.From)
      /\ \A i \in DOMAIN m.Contact : m.Contact[i] = StarContact \/ Stable(m.Contact[i])
  BY Zenon DEF Readable, NoPanics, NothingEmpty
<1>4. Untrimmed(h["Subject"]) /\ Untrimmed(h["Max-Forwards"])
  <2>1. NoBlankAtEnd(m.Header)
    BY Zenon DEF Readable
  <2> QED
    BY <2>1, <1>2, Zenon DEF NoBlankAtEnd, Untrimmed
<1>5. /\ h["To"] \in Seq(Values) /\ h["From"] \in Seq(Values) /\ h["Via"] \in Seq(Values)
      /\ h["Max-Forwards"] \in Seq(Values) /\ h["Call-Id"] \in Seq(Values)
      /\ h["Cseq"] \in Seq(Values) /\ h["Contact"] \in Seq(Values) /\ h["Subject"] \in Seq(Values)
  BY KnownNames, Zenon
<1>6. h["Via"] \in Seq(Text) /\ h["Contact"] \in Seq(Text)
  BY <1>5, ValuesReading, Zenon
<1>7. PICK v : v = m.Via
  OBVIOUS
<1>8. v \in Seq(SomeVias) /\ \A i \in 1..Len(v) : ViaReads(v[i])
  BY <1>2, <1>3, <1>6, <1>7, ReadableVias, Zenon
<1>9. PICK k : k = m.Contact
  OBVIOUS
<1>10. k \in Seq(SomeContacts) /\ \A i \in 1..Len(k) : ContactReads(k[i])
  BY <1>2, <1>3, <1>6, <1>9, ReadableContacts, Zenon
<1>11. PICK V, a, b, c, d, e : Carries(m, h, V, a, b, c, d, e)
  BY CarriesSome, Zenon
<1>12. /\ V = ParsedValues(m)
       /\ Sends(m.To, ToText(m.To), h["To"], V[1], a)
       /\ Sends(m.From, ToText(m.From), h["From"], V[2], b)
       /\ Sends(m.MaxForwards, MaxForwardsText(m.MaxForwards), h["Max-Forwards"], V[4], c)
       /\ Sends(m.CallID, CallIDText(m.CallID), h["Call-Id"], V[5], d)
       /\ Sends(m.CSeq, CSeqText(m.CSeq), h["Cseq"], V[6], e)
       /\ V[3] = WriteVias(v) /\ V[7] = ContactTexts(k)
  BY <1>7, <1>9, <1>11, Zenon DEF Carries
<1>13. V[1] \in Seq(Text) /\ Carried(a) /\ ReadsTo(Readings(a), m.To)
  BY <1>2, <1>3, <1>5, <1>12, ToCarried, Zenon
<1>14. V[2] \in Seq(Text) /\ Carried(b) /\ ReadsTo(Readings(b), m.From)
  BY <1>2, <1>3, <1>5, <1>12, ToCarried, Zenon
<1>15. /\ V[4] \in Seq(Text) /\ Carried(c) /\ ReadsMaxForwards(Readings(c), m.MaxForwards)
       /\ m.MaxForwards = Nil => Same(Readings(c), h["Max-Forwards"])
  BY <1>2, <1>4, <1>5, <1>12, MaxForwardsCarried, Zenon
<1>16. V[5] \in Seq(Text) /\ Carried(d) /\ ReadsCallID(Readings(d), m.CallID)
  BY <1>2, <1>3, <1>5, <1>12, CallIDCarried, Zenon
<1>17. V[6] \in Seq(Text) /\ Carried(e) /\ ReadsCSeq(Readings(e), m.CSeq)
  BY <1>2, <1>3, <1>5, <1>12, CSeqCarried, Zenon
<1>18. V[3] \in Seq(Text) /\ Carried(V[3]) /\ Same(Readings(V[3]), V[3])
  <2>1. V[3] \in Seq(Text) /\ \A i \in 1..Len(V[3]) : Whole(V[3][i], Blank)
    BY <1>8, <1>12, ViaTexts, Zenon
  <2> QED
    BY <2>1, WholesReading, Zenon DEF Carried
<1>19. V[7] \in Seq(Text) /\ Carried(V[7]) /\ Same(Readings(V[7]), V[7])
  <2>1. V[7] \in Seq(Text) /\ \A i \in 1..Len(V[7]) : Whole(V[7][i], Blank)
    BY <1>10, <1>12, ContactsTexts, Zenon
  <2> QED
    BY <2>1, WholesReading, Zenon DEF Carried
<1>20. Carried(h["Subject"]) /\ Same(Readings(h["Subject"]), h["Subject"])
  BY <1>4, <1>5, PlainCarried, Zenon
<1>21. PICK W : Writes(m, V, W)
  <2>1. \A i \in 1..7 : i = 1 \/ i = 2 \/ i = 3 \/ i = 4 \/ i = 5 \/ i = 6 \/ i = 7
    OBVIOUS
  <2>2. \A i \in 1..7 : V[i] \in Seq(Text)
    BY <2>1, <1>13, <1>14, <1>15, <1>16, <1>17, <1>18, <1>19, Zenon
  <2>3. \A key \in ToSet(Names) : m.Header[key] \in Seq(Text)
    BY <1>2, ValuesReading, Zenon
  <2> QED
    BY <2>2, <2>3, <1>12, WritesAll, Zenon
<1>22. PICK L : L = Append(W, Empty)
  OBVIOUS
<1>23. /\ Header(W) /\ writeHeader(m) = L
       /\ Holds(W, "Via", V[3]) /\ Holds(W, "Contact", V[7]) /\ Holds(W, "Subject", h["Subject"])
       /\ \A i \in {1, 2, 4, 5, 6} :
             Holds(W, ParsedNames[i], IF V[i] = <<>> THEN h[ParsedNames[i]] ELSE V[i])
  BY <1>2, <1>21, <1>22, Zenon DEF Writes
<1>24. /\ Holds(W, "To", a) /\ Holds(W, "From", b) /\ Holds(W, "Max-Forwards", c)
       /\ Holds(W, "Call-Id", d) /\ Holds(W, "Cseq", e)
  <2>1. /\ ParsedNames[1] = "To" /\ ParsedNames[2] = "From" /\ ParsedNames[4] = "Max-Forwards"
        /\ ParsedNames[5] = "Call-Id" /\ ParsedNames[6] = "Cseq"
    BY DEF ParsedNames
  <2>2. /\ a = IF V[1] = <<>> THEN h["To"] ELSE V[1]
        /\ b = IF V[2] = <<>> THEN h["From"] ELSE V[2]
        /\ c = IF V[4] = <<>> THEN h["Max-Forwards"] ELSE V[4]
        /\ d = IF V[5] = <<>> THEN h["Call-Id"] ELSE V[5]
        /\ e = IF V[6] = <<>> THEN h["Cseq"] ELSE V[6]
    BY <1>12, Zenon DEF Sends
  <2>3. /\ 1 \in {1, 2, 4, 5, 6} /\ 2 \in {1, 2, 4, 5, 6} /\ 4 \in {1, 2, 4, 5, 6}
        /\ 5 \in {1, 2, 4, 5, 6} /\ 6 \in {1, 2, 4, 5, 6}
    OBVIOUS
  <2> QED
    BY <2>1, <2>2, <2>3, <1>23, Zenon
<1>25. PICK g : g = ReadMIMEHeader(L)
  OBVIOUS
<1>26. /\ Same(g["To"], Readings(a)) /\ Same(g["From"], Readings(b))
       /\ Same(g["Max-Forwards"], Readings(c)) /\ Same(g["Call-Id"], Readings(d))
       /\ Same(g["Cseq"], Readings(e))
  BY <1>13, <1>14, <1>15, <1>16, <1>17, <1>22, <1>23, <1>24, <1>25, KnownNames, HeldRead, Zenon
<1>27. /\ Same(g["Via"], Readings(V[3])) /\ Same(g["Contact"], Readings(V[7]))
       /\ Same(g["Subject"], Readings(h["Subject"]))
  BY <1>18, <1>19, <1>20, <1>22, <1>23, <1>25, KnownNames, HeldRead, Zenon
<1>28. PICK n : n = parseHeader(g)
  OBVIOUS
<1>29. readMessage(writeHeader(m)) = n
  <2>1. Ended(W, L)
    BY <1>22, Zenon DEF Ended
  <2>2. ~Malformed(L)
    BY <2>1, <1>23, NotMalformed, Zenon
  <2> QED
    BY <2>2, <1>23, <1>25, <1>28, Zenon DEF readMessage
<1>30. ReadFrom(n, g)
  BY <1>28, Parsed, Zenon
<1>31. /\ Message(n, g) /\ n.Header = g
       /\ ReadsTo(g["To"], n.To) /\ ReadsTo(g["From"], n.From)
       /\ ReadsCallID(g["Call-Id"], n.CallID) /\ ReadsCSeq(g["Cseq"], n.CSeq)
       /\ ReadsMaxForwards(g["Max-Forwards"], n.MaxForwards)
       /\ n.Via = AllVias(g["Via"]) /\ n.Contact = ContactsOf(g["Contact"])
  BY <1>30, Zenon DEF ReadFrom
<1>32. n.To = m.To /\ n.From = m.From
  BY <1>13, <1>14, <1>26, <1>31, Zenon DEF ReadsTo, Same
<1>33. n.CallID = m.CallID
  BY <1>16, <1>26, <1>31, Zenon DEF ReadsCallID, Same
<1>34. n.CSeq = m.CSeq
  BY <1>17, <1>26, <1>31, Zenon DEF ReadsCSeq, Same
<1>35. n.MaxForwards = m.MaxForwards
  BY <1>15, <1>26, <1>31, Zenon DEF ReadsMaxForwards, Same
<1>36. n.Via = m.Via
  <2>1. Same(AllVias(WriteVias(v)), v)
    BY <1>8, ViasWritten, Zenon
  <2> QED
    BY <2>1, <1>7, <1>12, <1>18, <1>27, <1>31, Zenon DEF Same
<1>37. n.Contact = m.Contact
  <2>1. Same(ContactsOf(ContactTexts(k)), k)
    BY <1>10, ContactsWritten, Zenon
  <2> QED
    BY <2>1, <1>9, <1>12, <1>19, <1>27, <1>31, Zenon DEF Same
<1>38. [n EXCEPT !.Header = <<>>] = [m EXCEPT !.Header = <<>>]
  <2>1. Same([n EXCEPT !.Header = <<>>], [m EXCEPT !.Header = <<>>])
    BY <1>2, <1>31, <1>32, <1>33, <1>34, <1>35, <1>36, <1>37, SameFields, Zenon
  <2> QED
    BY <2>1, Zenon DEF Same
<1>39. n.Header["Subject"] = m.Header["Subject"]
  BY <1>2, <1>20, <1>27, <1>31, Zenon DEF Same
<1>40. m.MaxForwards = Nil => n.Header["Max-Forwards"] = m.Header["Max-Forwards"]
  BY <1>2, <1>15, <1>26, <1>31, Zenon DEF Same
<1> QED
  BY <1>29, <1>38, <1>39, <1>40, Zenon DEF SameMessage

\* What the next hop reads of a message that was read is that message
\* (MessageSyntax.MessageSurvives; readMessage and writeHeader).
THEOREM MessageIsKept == Spec => []MessageSurvives
<1>1. TypeOK => MessageSurvives
  <2> SUFFICES ASSUME TypeOK, Sent("header"), Readable(Read(input))
               PROVE  SameMessage(Read(input), readMessage(writeHeader(Read(input))))
    BY Zenon DEF MessageSurvives, Survives
  <2>1. Elements["header"] = Line
    BY DEF Elements
  <2>2. PICK s : s = input
    OBVIOUS
  <2>3. s \in Seq(Line)
    BY <2>1, <2>2, Zenon DEF TypeOK, Sent
  <2>4. PICK lines : lines = Append(s, Empty)
    OBVIOUS
  <2>5. PICK N : N = Len(lines)
    OBVIOUS
  <2>6. /\ lines \in Seq(Line) /\ N \in Nat /\ N = Len(lines) /\ N # 0
        /\ lines[N].kind = "empty"
    <3>1. PICK l : l = Empty
      OBVIOUS
    <3>2. l \in Line /\ l.kind = "empty"
      BY <3>1 DEF Line, Empty
    <3>3. PICK K : K = Line
      OBVIOUS
    <3>4. s \in Seq(K) /\ l \in K
      BY <2>3, <3>2, <3>3, Zenon
    <3>5. lines = Append(s, l)
      BY <2>4, <3>1, Zenon
    <3>6. lines \in Seq(K) /\ N \in Nat /\ N = Len(lines) /\ N # 0 /\ lines[N] = l
      BY <3>4, <3>5, <2>5
    <3> QED
      BY <3>2, <3>3, <3>6, Zenon
  <2>7. PICK h : h = ReadMIMEHeader(lines)
    OBVIOUS
  <2>8. \A key \in ToSet(Names) : h[key] \in Seq(Values)
    BY <2>6, <2>7, HeaderValues, Zenon
  <2>9. PICK m : m = Read(input)
    OBVIOUS
  <2>10. m = readMessage(lines)
    BY <2>2, <2>4, <2>9, Zenon DEF Read
  <2>11. m # Dropped
    BY <2>9, Zenon DEF Readable, NoPanics
  <2>12. m = parseHeader(h)
    BY <2>7, <2>10, <2>11, Zenon DEF readMessage
  <2>13. SameMessage(m, readMessage(writeHeader(m)))
    BY <2>8, <2>9, <2>12, SurvivesRead, Zenon
  <2> QED
    BY <2>9, <2>13, Zenon
<1> QED
  BY <1>1, InputTyped, PTL

================================================================================

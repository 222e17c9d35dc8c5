-------------------------- MODULE MessageSyntax_proofs -------------------------
(***************************************************************************)
(* What the next hop reads is what was read: URIs, addresses, folded       *)
(* fields, the body and lists, for every input.  Before the specification  *)
(* come the lemmas about sequences and about URIs.                         *)
(***************************************************************************)
EXTENDS MessageSyntax, SequenceTheorems, FiniteSetTheorems, WellFoundedInduction, TLAPS

\* A set of natural numbers that is not empty has a least element.
LEMMA Least ==
  ASSUME NEW T \in SUBSET Nat, T # {}
  PROVE  \E x \in T : \A y \in T : x <= y
<1> DEFINE R == {p \in Nat \X Nat : p[1] < p[2]}
<1>1. IsWellFoundedOn(R, Nat)
  BY NatLessThanWellFounded DEF OpToRel
<1> HIDE DEF R
<1>2. \E x \in T : \A y \in T : ~(<<y, x>> \in R)
  BY <1>1, WFMin, Zenon
<1>3. \A x, y \in Nat : <<y, x>> \notin R => x <= y
  BY DEF R
<1> QED
  BY <1>2, <1>3

\* Min is the least element.
LEMMA MinIsLeast ==
  ASSUME NEW T \in SUBSET Nat, T # {}
  PROVE  Min(T) \in T /\ \A y \in T : Min(T) <= y
BY Least DEF Min

\* Max is the greatest element of a bounded set.
LEMMA MaxIsGreatest ==
  ASSUME NEW L \in Nat, NEW T \in SUBSET (0..L), T # {}
  PROVE  Max(T) \in T /\ \A y \in T : y <= Max(T)
<1> DEFINE D == {n \in 0..L : L - n \in T}
<1>1. D \in SUBSET Nat
  OBVIOUS
<1>2. D # {}
  <2>1. PICK x \in T : TRUE
    OBVIOUS
  <2>2. L - x \in 0..L /\ L - (L - x) = x
    OBVIOUS
  <2> QED
    BY <2>2
<1>3. PICK n \in D : \A m \in D : n <= m
  <2> HIDE DEF D
  <2> QED
    BY <1>1, <1>2, Least
<1>4. ASSUME NEW y \in T PROVE y <= L - n
  <2>1. L - y \in 0..L /\ L - (L - y) = y
    OBVIOUS
  <2>2. n <= L - y
    BY <1>3, <2>1
  <2> QED
    BY <2>2
<1>5. \E x \in T : \A y \in T : y <= x
  BY <1>3, <1>4
<1> QED
  BY <1>5 DEF Max

\* IndexByte is the first position of the character.
LEMMA IndexByteIsFirst ==
  ASSUME NEW S, NEW s \in Seq(S), NEW c
  PROVE  /\ IndexByte(s, c) \in 0..Len(s)
         /\ IndexByte(s, c) = 0 => \A i \in 1..Len(s) : s[i] # c
         /\ IndexByte(s, c) # 0 => /\ s[IndexByte(s, c)] = c
                                   /\ \A i \in 1..(IndexByte(s, c) - 1) : s[i] # c
<1> DEFINE I == {i \in 1..Len(s) : s[i] = c}
<1>1. IndexByte(s, c) = IF I # {} THEN Min(I) ELSE 0
  BY DEF IndexByte, SelectInSeq
<1>2. I \in SUBSET Nat
  OBVIOUS
<1>3. CASE I = {}
  BY <1>1, <1>3
<1>4. CASE I # {}
  <2>1. IndexByte(s, c) \in I /\ \A j \in I : IndexByte(s, c) <= j
    <3> HIDE DEF I
    <3> QED
      BY <1>1, <1>2, <1>4, MinIsLeast
  <2> QED
    BY <2>1
<1> QED
  BY <1>3, <1>4

\* LastIndexByte is the last position of the character.
LEMMA LastIndexByteIsLast ==
  ASSUME NEW S, NEW s \in Seq(S), NEW c
  PROVE  /\ LastIndexByte(s, c) \in 0..Len(s)
         /\ LastIndexByte(s, c) = 0 => \A i \in 1..Len(s) : s[i] # c
         /\ LastIndexByte(s, c) # 0 =>
                /\ s[LastIndexByte(s, c)] = c
                /\ \A i \in (LastIndexByte(s, c) + 1)..Len(s) : s[i] # c
<1> DEFINE I == {i \in 1..Len(s) : s[i] = c}
<1>1. LastIndexByte(s, c) = IF I # {} THEN Max(I) ELSE 0
  BY DEF LastIndexByte, SelectLastInSeq
<1>2. I \in SUBSET (0..Len(s)) /\ Len(s) \in Nat
  OBVIOUS
<1>3. CASE I = {}
  BY <1>1, <1>3
<1>4. CASE I # {}
  <2>1. LastIndexByte(s, c) \in I /\ \A j \in I : j <= LastIndexByte(s, c)
    <3> HIDE DEF I
    <3> QED
      BY <1>1, <1>2, <1>4, MaxIsGreatest
  <2> QED
    BY <2>1
<1> QED
  BY <1>3, <1>4

--------------------------------------------------------------------------------
(***************************************************************************)
(* Sequences.                                                              *)
(***************************************************************************)

\* A sequence is over every set that has its elements.
LEMMA SeqOver ==
  ASSUME NEW S, NEW s \in Seq(S), NEW T, \A i \in 1..Len(s) : s[i] \in T
  PROVE  s \in Seq(T)
OBVIOUS

\* A sequence of one element.
LEMMA One ==
  ASSUME NEW S, NEW c \in S
  PROVE  <<c>> \in Seq(S)
OBVIOUS

\* A sequence put together around an element.
LEMMA Joint ==
  ASSUME NEW S, NEW a \in Seq(S), NEW b \in Seq(S), NEW c \in S, NEW s, s = a \o <<c>> \o b
  PROVE  /\ s \in Seq(S)
         /\ Len(s) = Len(a) + 1 + Len(b)
         /\ \A i \in 1..Len(a) : s[i] = a[i]
         /\ s[Len(a) + 1] = c
         /\ \A i \in 1..Len(b) : s[Len(a) + 1 + i] = b[i]
<1>1. <<c>> \in Seq(S) /\ Len(<<c>>) = 1 /\ <<c>>[1] = c
  OBVIOUS
<1>2. a \o <<c>> \in Seq(S) /\ Len(a \o <<c>>) = Len(a) + 1
  BY <1>1, ConcatProperties
<1>3. \A i \in 1..(Len(a) + 1) : (a \o <<c>>)[i] = IF i <= Len(a) THEN a[i] ELSE c
  BY <1>1
<1>4. s \in Seq(S) /\ Len(s) = Len(a) + 1 + Len(b)
  BY <1>2, ConcatProperties
<1>5. \A i \in 1..(Len(a) + 1 + Len(b)) :
          s[i] = IF i <= Len(a) + 1 THEN (a \o <<c>>)[i] ELSE b[i - (Len(a) + 1)]
  BY <1>2, ConcatProperties
<1>6. Len(a) \in Nat /\ Len(b) \in Nat
  OBVIOUS
<1>7. /\ \A i \in 1..Len(a) : s[i] = a[i]
      /\ s[Len(a) + 1] = c
  BY <1>3, <1>5, <1>6
<1>8. \A i \in 1..Len(b) : s[Len(a) + 1 + i] = b[i]
  <2> TAKE i \in 1..Len(b)
  <2>1. Len(a) + 1 + i \in 1..(Len(a) + 1 + Len(b)) /\ ~(Len(a) + 1 + i <= Len(a) + 1)
        /\ (Len(a) + 1 + i) - (Len(a) + 1) = i
    BY <1>6
  <2> QED
    BY <1>5, <2>1
<1> QED
  BY <1>4, <1>7, <1>8

\* ... is a sequence.
LEMMA JointSeq ==
  ASSUME NEW S, NEW a \in Seq(S), NEW b \in Seq(S), NEW c \in S
  PROVE  a \o <<c>> \o b \in Seq(S)
BY Joint

\* Putting sequences together is associative.
LEMMA Associative ==
  ASSUME NEW S, NEW a \in Seq(S), NEW b \in Seq(S), NEW c \in Seq(S),
         NEW ab, ab = a \o b, NEW bc, bc = b \o c
  PROVE  ab \o c = a \o bc
<1>1. (a \o b) \o c = a \o (b \o c)
  BY ConcatAssociative
<1> QED
  BY <1>1, Zenon

\* The parts around an element.
LEMMA JointParts ==
  ASSUME NEW S, NEW a \in Seq(S), NEW b \in Seq(S), NEW c \in S
  PROVE  /\ Upto(a \o <<c>> \o b, Len(a) + 1) = a
         /\ After(a \o <<c>> \o b, Len(a) + 1) = b
<1>1. PICK s : s = a \o <<c>> \o b
  OBVIOUS
<1>4. s \in Seq(S) /\ Len(s) = Len(a) + 1 + Len(b)
  BY <1>1, Joint
<1>6. Len(a) \in Nat /\ Len(b) \in Nat
  OBVIOUS
<1>7. \A i \in 1..Len(a) : s[i] = a[i]
  BY <1>1, Joint
<1>8. \A i \in 1..Len(b) : s[Len(a) + 1 + i] = b[i]
  BY <1>1, Joint
<1>9. Upto(s, Len(a) + 1) = a
  <2>1. Upto(s, Len(a) + 1) = SubSeq(s, 1, Len(a))
    BY <1>6 DEF Upto
  <2>2. /\ SubSeq(s, 1, Len(a)) \in Seq(S) /\ Len(SubSeq(s, 1, Len(a))) = Len(a)
        /\ \A i \in 1..Len(a) : SubSeq(s, 1, Len(a))[i] = a[i]
    BY <1>4, <1>6, <1>7, SubSeqProperties
  <2> QED
    BY <2>1, <2>2, SeqEqual
<1>10. After(s, Len(a) + 1) = b
  <2>1. PICK r : r = SubSeq(s, Len(a) + 2, Len(s))
    OBVIOUS
  <2>2. After(s, Len(a) + 1) = r
    BY <1>6, <2>1 DEF After
  <2>3. /\ r \in Seq(S)
        /\ Len(r) = Len(b)
        /\ \A i \in 1..Len(b) : r[i] = s[Len(a) + 1 + i]
    BY <1>4, <1>6, <2>1
  <2>4. r = b
    BY <2>3, <1>8, SeqEqual
  <2> QED
    BY <2>2, <2>4
<1> QED
  BY <1>1, <1>9, <1>10

\* A sequence taken apart around an element.
LEMMA CutAt ==
  ASSUME NEW S, NEW s \in Seq(S), NEW i \in 1..Len(s)
  PROVE  /\ Upto(s, i) \in Seq(S) /\ Len(Upto(s, i)) = i - 1
         /\ \A k \in 1..(i - 1) : Upto(s, i)[k] = s[k]
         /\ After(s, i) \in Seq(S) /\ Len(After(s, i)) = Len(s) - i
         /\ \A k \in 1..(Len(s) - i) : After(s, i)[k] = s[i + k]
         /\ s = Upto(s, i) \o <<s[i]>> \o After(s, i)
<1>1. /\ Upto(s, i) \in Seq(S) /\ Len(Upto(s, i)) = i - 1
      /\ \A k \in 1..(i - 1) : Upto(s, i)[k] = s[k]
  BY DEF Upto
<1>2. /\ After(s, i) \in Seq(S) /\ Len(After(s, i)) = Len(s) - i
      /\ \A k \in 1..(Len(s) - i) : After(s, i)[k] = s[i + k]
  BY DEF After
<1>3. s[i] \in S /\ Len(s) \in Nat
  OBVIOUS
<1>a. PICK a : a = Upto(s, i)
  OBVIOUS
<1>b. PICK b : b = After(s, i)
  OBVIOUS
<1>t. PICK t : t = a \o <<s[i]>> \o b
  OBVIOUS
<1>4. /\ t \in Seq(S) /\ Len(t) = Len(a) + 1 + Len(b)
      /\ \A k \in 1..Len(a) : t[k] = a[k]
      /\ t[Len(a) + 1] = s[i]
      /\ \A k \in 1..Len(b) : t[Len(a) + 1 + k] = b[k]
  <2>1. a \in Seq(S) /\ b \in Seq(S)
    BY <1>1, <1>2, <1>a, <1>b
  <2>2. PICK d : d = s[i]
    OBVIOUS
  <2>3. d \in S /\ t = a \o <<d>> \o b
    BY <1>3, <1>t, <2>2, Zenon
  <2>4. /\ t \in Seq(S) /\ Len(t) = Len(a) + 1 + Len(b)
        /\ \A k \in 1..Len(a) : t[k] = a[k]
        /\ t[Len(a) + 1] = d
        /\ \A k \in 1..Len(b) : t[Len(a) + 1 + k] = b[k]
    BY <2>1, <2>3, Joint
  <2> QED
    BY <2>2, <2>4, Zenon
<1>5. Len(a) = i - 1 /\ Len(b) = Len(s) - i /\ Len(t) = Len(s)
  <2>1. Len(a) = i - 1 /\ Len(b) = Len(s) - i
    BY <1>1, <1>2, <1>a, <1>b
  <2>2. (i - 1) + 1 + (Len(s) - i) = Len(s)
    BY <1>3
  <2> QED
    BY <1>4, <2>1, <2>2
<1>6. ASSUME NEW k \in 1..Len(s) PROVE t[k] = s[k]
  <2>1. CASE k < i
    BY <1>1, <1>4, <1>5, <1>a, <2>1
  <2>2. CASE k = i
    BY <1>4, <1>5, <2>2
  <2>3. CASE k > i
    <3>1. k - i \in 1..(Len(s) - i) /\ i + (k - i) = k /\ Len(a) + 1 + (k - i) = k
      BY <1>3, <1>5, <2>3
    <3>2. t[Len(a) + 1 + (k - i)] = b[k - i]
      BY <1>4, <1>5, <3>1
    <3>3. b[k - i] = s[k]
      BY <1>2, <1>b, <3>1
    <3> QED
      BY <3>1, <3>2, <3>3
  <2> QED
    BY <2>1, <2>2, <2>3
<1>7. s = t
  BY <1>4, <1>5, <1>6, SeqEqual
<1>8. s = Upto(s, i) \o <<s[i]>> \o After(s, i)
  BY <1>7, <1>a, <1>b, <1>t
<1> QED
  BY <1>1, <1>2, <1>8

\* The first of two equal characters is found.
LEMMA FirstFound ==
  ASSUME NEW S, NEW c \in S, NEW a \in Seq(S \ {c}), NEW b \in Seq(S)
  PROVE  IndexByte(a \o <<c>> \o b, c) = Len(a) + 1
<1>1. PICK s : s = a \o <<c>> \o b
  OBVIOUS
<1>2. a \in Seq(S) /\ \A i \in 1..Len(a) : a[i] # c
  OBVIOUS
<1>3. /\ s \in Seq(S) /\ Len(s) = Len(a) + 1 + Len(b)
      /\ \A i \in 1..Len(a) : s[i] # c
      /\ s[Len(a) + 1] = c
  BY <1>1, <1>2, Joint
<1>4. PICK n : n = IndexByte(s, c)
  OBVIOUS
<1>5. /\ n \in 0..Len(s)
      /\ n = 0 => \A i \in 1..Len(s) : s[i] # c
      /\ n # 0 => s[n] = c /\ \A i \in 1..(n - 1) : s[i] # c
  BY <1>3, <1>4, IndexByteIsFirst
<1>6. Len(a) \in Nat /\ Len(b) \in Nat
  OBVIOUS
<1>7. Len(a) + 1 \in 1..Len(s)
  BY <1>3, <1>6
<1>8. n # 0 /\ ~(Len(a) + 1 <= n - 1)
  BY <1>3, <1>5, <1>6, <1>7
<1>9. ~(n <= Len(a))
  BY <1>3, <1>5, <1>6, <1>8
<1>10. n = Len(a) + 1
  BY <1>5, <1>6, <1>8, <1>9
<1> QED
  BY <1>1, <1>4, <1>10

\* A character that is not there is not found.
LEMMA NotFound ==
  ASSUME NEW S, NEW c, NEW s \in Seq(S \ {c})
  PROVE  IndexByte(s, c) = 0 /\ LastIndexByte(s, c) = 0
<1>1. \A i \in 1..Len(s) : s[i] # c
  OBVIOUS
<1>2. IndexByte(s, c) = 0
  BY <1>1, IndexByteIsFirst
<1>3. LastIndexByte(s, c) = 0
  BY <1>1, LastIndexByteIsLast
<1> QED
  BY <1>2, <1>3

\* split at a character that the first part does not have.
LEMMA SplitAt ==
  ASSUME NEW S, NEW c \in S, NEW a \in Seq(S \ {c}), NEW b \in Seq(S)
  PROVE  split(a \o <<c>> \o b, c) = <<a, b>>
<1>1. PICK s : s = a \o <<c>> \o b
  OBVIOUS
<1>2. a \in Seq(S)
  OBVIOUS
<1>3. IndexByte(s, c) = Len(a) + 1 /\ Len(a) + 1 # 0
  BY <1>1, FirstFound
<1>4. Upto(s, Len(a) + 1) = a /\ After(s, Len(a) + 1) = b
  BY <1>1, <1>2, JointParts
<1>5. split(s, c) = <<a, b>>
  BY <1>3, <1>4 DEF split
<1> QED
  BY <1>1, <1>5

\* split of a text without the character.
LEMMA SplitNone ==
  ASSUME NEW S, NEW c, NEW s \in Seq(S \ {c})
  PROVE  split(s, c) = <<s, <<>>>>
BY NotFound DEF split

\* What split returns.
LEMMA SplitParts ==
  ASSUME NEW S, NEW s \in Seq(S), NEW c
  PROVE  \/ /\ s \in Seq(S \ {c})
            /\ split(s, c) = <<s, <<>>>>
         \/ /\ c \in S
            /\ split(s, c)[1] \in Seq(S \ {c})
            /\ split(s, c)[2] \in Seq(S)
            /\ s = split(s, c)[1] \o <<c>> \o split(s, c)[2]
<1>1. PICK i : i = IndexByte(s, c)
  OBVIOUS
<1>2. /\ i \in 0..Len(s)
      /\ i = 0 => \A k \in 1..Len(s) : s[k] # c
      /\ i # 0 => s[i] = c /\ \A k \in 1..(i - 1) : s[k] # c
  BY <1>1, IndexByteIsFirst
<1>3. CASE i = 0
  <2>1. s \in Seq(S \ {c})
    BY <1>2, <1>3
  <2> QED
    BY <2>1, <1>1, <1>3 DEF split
<1>4. CASE i # 0
  <2>1. i \in 1..Len(s) /\ s[i] = c
    BY <1>2, <1>4
  <2>2. split(s, c) = <<Upto(s, i), After(s, i)>>
    BY <1>1, <1>4 DEF split
  <2>3. c \in S
    BY <2>1
  <2>4. /\ Upto(s, i) \in Seq(S) /\ Len(Upto(s, i)) = i - 1
        /\ \A k \in 1..(i - 1) : Upto(s, i)[k] = s[k]
        /\ After(s, i) \in Seq(S)
        /\ s = Upto(s, i) \o <<s[i]>> \o After(s, i)
    BY <2>1, CutAt
  <2>5. \A k \in 1..Len(Upto(s, i)) : Upto(s, i)[k] \in S \ {c}
    BY <1>2, <1>4, <2>1, <2>4
  <2>6. Upto(s, i) \in Seq(S \ {c})
    BY <2>4, <2>5, SeqOver
  <2> QED
    BY <2>1, <2>2, <2>3, <2>4, <2>6
<1> QED
  BY <1>3, <1>4

\* The last of two equal characters is found.
LEMMA LastFound ==
  ASSUME NEW S, NEW c \in S, NEW a \in Seq(S), NEW b \in Seq(S \ {c})
  PROVE  LastIndexByte(a \o <<c>> \o b, c) = Len(a) + 1
<1>1. PICK s : s = a \o <<c>> \o b
  OBVIOUS
<1>2. b \in Seq(S) /\ \A i \in 1..Len(b) : b[i] # c
  OBVIOUS
<1>3. /\ s \in Seq(S) /\ Len(s) = Len(a) + 1 + Len(b)
      /\ \A i \in 1..Len(b) : s[Len(a) + 1 + i] # c
      /\ s[Len(a) + 1] = c
  BY <1>1, <1>2, Joint
<1>4. PICK n : n = LastIndexByte(s, c)
  OBVIOUS
<1>5. /\ n \in 0..Len(s)
      /\ n = 0 => \A i \in 1..Len(s) : s[i] # c
      /\ n # 0 => s[n] = c /\ \A i \in (n + 1)..Len(s) : s[i] # c
  BY <1>3, <1>4, LastIndexByteIsLast
<1>6. Len(a) \in Nat /\ Len(b) \in Nat
  OBVIOUS
<1>7. Len(a) + 1 \in 1..Len(s)
  BY <1>3, <1>6
<1>8. n # 0 /\ ~(Len(a) + 1 >= n + 1)
  BY <1>3, <1>5, <1>6, <1>7
<1>9. ~(n > Len(a) + 1)
  <2> SUFFICES ASSUME n > Len(a) + 1 PROVE FALSE
    OBVIOUS
  <2>1. n - (Len(a) + 1) \in 1..Len(b) /\ Len(a) + 1 + (n - (Len(a) + 1)) = n
    BY <1>3, <1>5, <1>6
  <2>2. s[n] # c
    BY <1>3, <2>1
  <2> QED
    BY <1>5, <1>8, <2>2
<1>10. n = Len(a) + 1
  BY <1>5, <1>6, <1>8, <1>9
<1> QED
  BY <1>1, <1>4, <1>10

\* A sequence in two halves.
LEMMA Halves ==
  ASSUME NEW S, NEW s \in Seq(S), NEW n \in 0..Len(s)
  PROVE  /\ SubSeq(s, 1, n) \in Seq(S) /\ Len(SubSeq(s, 1, n)) = n
         /\ SubSeq(s, n + 1, Len(s)) \in Seq(S) /\ Len(SubSeq(s, n + 1, Len(s))) = Len(s) - n
         /\ s = SubSeq(s, 1, n) \o SubSeq(s, n + 1, Len(s))
<1>1. PICK a : a = SubSeq(s, 1, n)
  OBVIOUS
<1>2. PICK b : b = SubSeq(s, n + 1, Len(s))
  OBVIOUS
<1>3. a \in Seq(S) /\ Len(a) = n /\ \A i \in 1..n : a[i] = s[i]
  BY <1>1
<1>4. b \in Seq(S) /\ Len(b) = Len(s) - n /\ \A i \in 1..(Len(s) - n) : b[i] = s[n + i]
  BY <1>2
<1>5. PICK t : t = a \o b
  OBVIOUS
<1>6. /\ t \in Seq(S) /\ Len(t) = Len(a) + Len(b)
      /\ \A i \in 1..(Len(a) + Len(b)) : t[i] = IF i <= Len(a) THEN a[i] ELSE b[i - Len(a)]
  BY <1>3, <1>4, <1>5, ConcatProperties
<1>7. Len(t) = Len(s)
  BY <1>3, <1>4, <1>6
<1>8. ASSUME NEW i \in 1..Len(s) PROVE t[i] = s[i]
  <2>1. CASE i <= n
    BY <1>3, <1>4, <1>6, <2>1
  <2>2. CASE ~(i <= n)
    <3>1. i - n \in 1..(Len(s) - n) /\ n + (i - n) = i /\ i \in 1..(Len(a) + Len(b))
      BY <1>3, <1>4, <2>2
    <3>2. t[i] = b[i - n]
      BY <1>3, <1>6, <2>2, <3>1
    <3> QED
      BY <1>4, <3>1, <3>2
  <2> QED
    BY <2>1, <2>2
<1>9. t = s
  BY <1>6, <1>7, <1>8, SeqEqual
<1> QED
  BY <1>1, <1>2, <1>3, <1>4, <1>5, <1>9

--------------------------------------------------------------------------------
(***************************************************************************)
(* Trimming.                                                               *)
(***************************************************************************)

\* TrimLeft takes characters of the cut set away until there is another one, and
\* makes no text longer.
LEMMA TrimLeftParts ==
  ASSUME NEW S, NEW s \in Seq(S), NEW cut
  PROVE  /\ TrimLeft(s, cut) \in Seq(S)
         /\ TrimLeft(s, cut) # <<>> => TrimLeft(s, cut)[1] \notin cut
         /\ Len(TrimLeft(s, cut)) <= Len(s)
<1> DEFINE I == {i \in 1..Len(s) : s[i] \notin cut}
<1>1. PICK i : i = SelectInSeq(s, LAMBDA d : d \notin cut)
  OBVIOUS
<1>2. i = IF I # {} THEN Min(I) ELSE 0
  BY <1>1 DEF SelectInSeq
<1>3. TrimLeft(s, cut) = IF i = 0 THEN <<>> ELSE SubSeq(s, i, Len(s))
  BY <1>1 DEF TrimLeft
<1>4. CASE I = {}
  <2>1. TrimLeft(s, cut) = <<>>
    BY <1>2, <1>3, <1>4
  <2>2. <<>> \in Seq(S) /\ Len(<<>>) <= Len(s)
    OBVIOUS
  <2> QED
    BY <2>1, <2>2, Zenon
<1>5. CASE I # {}
  <2>1. i \in I /\ \A j \in I : i <= j
    <3>1. I \in SUBSET Nat
      OBVIOUS
    <3> HIDE DEF I
    <3> QED
      BY <1>2, <1>5, <3>1, MinIsLeast
  <2>2. i \in 1..Len(s) /\ s[i] \notin cut
    BY <2>1
  <2>3. PICK t : t = SubSeq(s, i, Len(s))
    OBVIOUS
  <2>4. TrimLeft(s, cut) = t
    BY <1>3, <2>2, <2>3
  <2>5. t \in Seq(S) /\ t[1] = s[i] /\ Len(t) <= Len(s)
    BY <2>2, <2>3
  <2> QED
    BY <2>2, <2>4, <2>5, Zenon
<1> QED
  BY <1>4, <1>5

\* ... and nothing else.
LEMMA TrimLeftOf ==
  ASSUME NEW S, NEW cut, NEW a \in Seq(S), NEW t \in Seq(S),
         \A i \in 1..Len(a) : a[i] \in cut,
         t # <<>> => t[1] \notin cut
  PROVE  TrimLeft(a \o t, cut) = t
<1>s. PICK s : s = a \o t
  OBVIOUS
<1>l. Len(a) \in Nat /\ Len(t) \in Nat
  OBVIOUS
<1> DEFINE I == {i \in 1..Len(s) : s[i] \notin cut}
<1>0. /\ s \in Seq(S) /\ Len(s) = Len(a) + Len(t)
      /\ \A i \in 1..(Len(a) + Len(t)) : s[i] = IF i <= Len(a) THEN a[i] ELSE t[i - Len(a)]
  BY <1>s, ConcatProperties
<1>1. PICK i : i = SelectInSeq(s, LAMBDA d : d \notin cut)
  OBVIOUS
<1>2. i = IF I # {} THEN Min(I) ELSE 0
  BY <1>1 DEF SelectInSeq
<1>3. TrimLeft(s, cut) = IF i = 0 THEN <<>> ELSE SubSeq(s, i, Len(s))
  BY <1>1 DEF TrimLeft
<1>4. CASE t = <<>>
  <2>1. \A j \in 1..Len(s) : s[j] \in cut
    BY <1>0, <1>4, <1>l
  <2>2. I = {}
    BY <2>1
  <2> QED
    BY <1>2, <1>3, <1>4, <1>s, <2>2
<1>5. CASE t # <<>>
  <2>1. Len(t) >= 1
    BY <1>5
  <2>2. Len(a) + 1 \in I
    BY <1>0, <1>5, <1>l, <2>1
  <2>3. i \in I /\ \A j \in I : i <= j
    <3>1. I \in SUBSET Nat /\ I # {}
      BY <2>2
    <3> HIDE DEF I
    <3> QED
      BY <1>2, <3>1, MinIsLeast
  <2>4. \A j \in 1..Len(a) : j \notin I
    BY <1>0, <1>l
  <2>5. i = Len(a) + 1
    BY <1>l, <2>2, <2>3, <2>4
  <2>6. PICK r : r = SubSeq(s, Len(a) + 1, Len(s))
    OBVIOUS
  <2>7. r \in Seq(S) /\ Len(r) = Len(t) /\ \A j \in 1..Len(t) : r[j] = s[Len(a) + j]
    BY <1>0, <1>l, <2>6
  <2>8. \A j \in 1..Len(t) : s[Len(a) + j] = t[j]
    <3> TAKE j \in 1..Len(t)
    <3>1. Len(a) + j \in 1..(Len(a) + Len(t)) /\ ~(Len(a) + j <= Len(a)) /\ (Len(a) + j) - Len(a) = j
      BY <1>l
    <3> QED
      BY <1>0, <3>1
  <2>9. r = t
    BY <2>7, <2>8, SeqEqual
  <2>10. TrimLeft(s, cut) = r
    BY <1>3, <1>l, <2>5, <2>6
  <2> QED
    BY <1>s, <2>9, <2>10
<1> QED
  BY <1>4, <1>5

\* TrimRight takes characters of the cut set away until there is another one.
LEMMA TrimRightParts ==
  ASSUME NEW S, NEW s \in Seq(S), NEW cut
  PROVE  \E t :
         /\ t = TrimRight(s, cut)
         /\ t \in Seq(S)
         /\ t # <<>> => t[Len(t)] \notin cut
         /\ Len(t) <= Len(s) /\ \A i \in 1..Len(t) : t[i] = s[i]
<1> DEFINE I == {i \in 1..Len(s) : s[i] \notin cut}
<1>1. PICK n : n = SelectLastInSeq(s, LAMBDA d : d \notin cut)
  OBVIOUS
<1>2. n = IF I # {} THEN Max(I) ELSE 0
  BY <1>1 DEF SelectLastInSeq
<1>3. PICK t : t = TrimRight(s, cut)
  OBVIOUS
<1>4. t = SubSeq(s, 1, n)
  BY <1>1, <1>3 DEF TrimRight
<1>5. /\ n \in 0..Len(s)
      /\ n # 0 => s[n] \notin cut
      /\ \A j \in (n + 1)..Len(s) : s[j] \in cut
  <2>1. CASE I = {}
    BY <1>2, <2>1
  <2>2. CASE I # {}
    <3>1. I \in SUBSET (0..Len(s)) /\ Len(s) \in Nat
      OBVIOUS
    <3>2. n \in I /\ \A j \in I : j <= n
      <4> HIDE DEF I
      <4> QED
        BY <1>2, <2>2, <3>1, MaxIsGreatest
    <3> QED
      BY <3>2
  <2> QED
    BY <2>1, <2>2
<1>6. t \in Seq(S) /\ Len(t) = n /\ \A j \in 1..n : t[j] = s[j]
  BY <1>4, <1>5
<1>12. t # <<>> => t[Len(t)] \notin cut
  BY <1>5, <1>6
<1>13. Len(t) <= Len(s) /\ \A i \in 1..Len(t) : t[i] = s[i]
  BY <1>5, <1>6
<1> QED
  BY <1>3, <1>6, <1>12, <1>13, Zenon

\* ... and nothing else.
LEMMA TrimRightOf ==
  ASSUME NEW S, NEW cut, NEW t \in Seq(S), NEW b \in Seq(S),
         \A i \in 1..Len(b) : b[i] \in cut,
         t # <<>> => t[Len(t)] \notin cut
  PROVE  TrimRight(t \o b, cut) = t
<1>s. PICK s : s = t \o b
  OBVIOUS
<1>l. Len(b) \in Nat /\ Len(t) \in Nat
  OBVIOUS
<1> DEFINE I == {i \in 1..Len(s) : s[i] \notin cut}
<1>0. /\ s \in Seq(S) /\ Len(s) = Len(t) + Len(b)
      /\ \A i \in 1..(Len(t) + Len(b)) : s[i] = IF i <= Len(t) THEN t[i] ELSE b[i - Len(t)]
  BY <1>s, ConcatProperties
<1>1. PICK n : n = SelectLastInSeq(s, LAMBDA d : d \notin cut)
  OBVIOUS
<1>2. n = IF I # {} THEN Max(I) ELSE 0
  BY <1>1 DEF SelectLastInSeq
<1>3. TrimRight(s, cut) = SubSeq(s, 1, n)
  BY <1>1 DEF TrimRight
<1>4. ASSUME NEW j \in 1..Len(s), j > Len(t) PROVE j \notin I
  <2>1. j - Len(t) \in 1..Len(b) /\ ~(j <= Len(t)) /\ j \in 1..(Len(t) + Len(b))
    BY <1>0, <1>4, <1>l
  <2> QED
    BY <1>0, <2>1
<1>5. n = Len(t)
  <2>1. CASE t = <<>>
    <3>1. I = {}
      BY <1>4, <2>1
    <3> QED
      BY <1>2, <2>1, <3>1
  <2>2. CASE t # <<>>
    <3>1. Len(t) >= 1
      BY <2>2
    <3>2. Len(t) \in I
      BY <1>0, <1>l, <2>2, <3>1
    <3>3. I \in SUBSET (0..Len(s)) /\ Len(s) \in Nat
      BY <1>0
    <3>4. n \in I /\ \A j \in I : j <= n
      <4>1. I # {}
        BY <3>2
      <4> HIDE DEF I
      <4> QED
        BY <1>2, <4>1, <3>3, MaxIsGreatest
    <3>5. n \in 1..Len(s) /\ Len(t) <= n
      BY <3>2, <3>4
    <3>6. ~(n > Len(t))
      BY <1>4, <3>4, <3>5
    <3> QED
      BY <1>l, <3>5, <3>6
  <2> QED
    BY <2>1, <2>2
<1>6. PICK r : r = SubSeq(s, 1, Len(t))
  OBVIOUS
<1>7. r \in Seq(S) /\ Len(r) = Len(t) /\ \A j \in 1..Len(t) : r[j] = t[j]
  BY <1>0, <1>l, <1>6
<1>8. r = t
  BY <1>7, SeqEqual
<1> QED
  BY <1>3, <1>5, <1>6, <1>8, <1>s

--------------------------------------------------------------------------------
(***************************************************************************)
(* Escaping.                                                               *)
(***************************************************************************)

\* What delimits the parts of a URI stands for itself in no part of it.
LEMMA UserChars ==
  /\ Unescaped("user") \subseteq Plain
  /\ \A c \in {"@", ":", "?", "#", "/", " ", "%", Ctl} : c \notin Unescaped("user")
BY DEF Unescaped, Alnum, Letters, Capitals, Digits, Mark, Reserved, Plain, Other, Ctl

\* ... and neither in the host, except for brackets and colons.
LEMMA HostChars ==
  /\ Unescaped("host") \subseteq Plain
  /\ Unescaped("zone") = Unescaped("host")
  /\ \A c \in {"@", "?", "#", "/", " ", "%", Ctl} : c \notin Unescaped("host")
  /\ \A c \in {"[", "]", ":"} : c \in Unescaped("host")
BY DEF Unescaped, Alnum, Letters, Capitals, Digits, Mark, Reserved, Plain, Other, Ctl, HostDelims

\* The characters that the proofs name.
LEMMA PlainChars ==
  {"@", ":", "?", "#", "/", " ", "%", ";", "[", "]", "*", "<", ">", "\"", "\\", ",", Ctl} \subseteq Plain
BY DEF Letters, Capitals, Digits, Reserved, Plain, Other, Ctl

\* An escape is read back as the character it stands for.
LEMMA Escapes ==
  /\ \A c \in Plain : Pct[c] \in Char /\ Pct[c] \notin Plain /\ Pct[c] # BadPct
                      /\ Pct[c] # "ERROR"
  /\ \A c, d \in Plain : Pct[c] = Pct[d] => c = d
  /\ \A c \in Plain : IsPct(Pct[c]) /\ Unpct(Pct[c]) = c
  /\ \A c \in Plain : ~IsPct(c) /\ c # BadPct
  /\ ~IsPct(BadPct)
  /\ \A t \in Char : t \in Plain \/ IsPct(t) \/ t = BadPct
  /\ \A t : IsPct(t) => Unpct(t) \in Plain /\ t = Pct[Unpct(t)]
<1>1. \A c \in Plain : Pct[c] \in Char /\ Pct[c] \notin Plain /\ Pct[c] # BadPct /\ Pct[c] # "ERROR"
  BY EscapeAssumption DEF Char
<1>2. \A c, d \in Plain : Pct[c] = Pct[d] => c = d
  BY EscapeAssumption
<1>3. \A t : IsPct(t) => Unpct(t) \in Plain /\ t = Pct[Unpct(t)]
  BY DEF IsPct, Unpct
<1>4. \A c \in Plain : IsPct(Pct[c])
  BY DEF IsPct
<1>5. \A c \in Plain : Unpct(Pct[c]) = c
  BY <1>2, <1>3, <1>4
<1>6. \A c \in Plain : ~IsPct(c) /\ c # BadPct
  BY <1>1, EscapeAssumption DEF IsPct
<1>7. ~IsPct(BadPct)
  BY <1>1 DEF IsPct
<1>8. \A t \in Char : t \in Plain \/ IsPct(t) \/ t = BadPct
  BY DEF Char, IsPct
<1> QED
  BY <1>1, <1>2, <1>3, <1>4, <1>5, <1>6, <1>7, <1>8

\* What escape writes for a character.
Escaped(mode) == Unescaped(mode) \cup {Pct[c] : c \in Plain \ Unescaped(mode)}

\* escape writes a text, and unescape takes it back.
LEMMA EscapeUnescape ==
  ASSUME NEW mode \in {"user", "host"}, NEW d \in Seq(Plain)
  PROVE  /\ escape(d, mode) \in Seq(Escaped(mode))
         /\ Len(escape(d, mode)) = Len(d)
         /\ \A i \in 1..Len(d) :
                escape(d, mode)[i] = IF d[i] \in Unescaped(mode) THEN d[i] ELSE Pct[d[i]]
         /\ unescape(escape(d, mode)) = d
<1>1. PICK e : e = escape(d, mode)
  OBVIOUS
<1>2. e = [i \in 1..Len(d) |-> IF d[i] \in Unescaped(mode) THEN d[i] ELSE Pct[d[i]]]
  BY <1>1 DEF escape, shouldEscape
<1>3. \A i \in 1..Len(d) : (IF d[i] \in Unescaped(mode) THEN d[i] ELSE Pct[d[i]]) \in Escaped(mode)
  BY DEF Escaped
<1>4. e \in Seq(Escaped(mode)) /\ Len(e) = Len(d)
  BY <1>2, <1>3
<1>5. DOMAIN e = 1..Len(d)
  BY <1>2
<1>6. PICK u : u = unescape(e)
  OBVIOUS
<1>7. u = [i \in 1..Len(d) |-> IF IsPct(e[i]) THEN Unpct(e[i]) ELSE e[i]]
  BY <1>5, <1>6 DEF unescape
<1>8. ASSUME NEW i \in 1..Len(d) PROVE (IF IsPct(e[i]) THEN Unpct(e[i]) ELSE e[i]) = d[i]
  <2>1. e[i] = IF d[i] \in Unescaped(mode) THEN d[i] ELSE Pct[d[i]]
    BY <1>2
  <2>2. d[i] \in Plain
    OBVIOUS
  <2> QED
    BY <2>1, <2>2, Escapes
<1>9. u = [i \in 1..Len(d) |-> d[i]]
  BY <1>7, <1>8
<1>10. u = d
  BY <1>9
<1> QED
  BY <1>1, <1>2, <1>4, <1>6, <1>10

\* unescape of a text without a bad escape.
LEMMA UnescapeType ==
  ASSUME NEW s \in Seq(Char), \A i \in 1..Len(s) : s[i] # BadPct
  PROVE  /\ unescape(s) \in Seq(Plain) /\ Len(unescape(s)) = Len(s)
         /\ \A i \in 1..Len(s) : unescape(s)[i] = IF IsPct(s[i]) THEN Unpct(s[i]) ELSE s[i]
<1>1. PICK u : u = unescape(s)
  OBVIOUS
<1>2. u = [i \in 1..Len(s) |-> IF IsPct(s[i]) THEN Unpct(s[i]) ELSE s[i]]
  BY <1>1 DEF unescape
<1>3. ASSUME NEW i \in 1..Len(s) PROVE (IF IsPct(s[i]) THEN Unpct(s[i]) ELSE s[i]) \in Plain
  <2>1. s[i] \in Char /\ s[i] # BadPct
    OBVIOUS
  <2> QED
    BY <2>1, Escapes
<1>4. u \in Seq(Plain) /\ Len(u) = Len(s)
  BY <1>2, <1>3
<1> QED
  BY <1>1, <1>2, <1>4

--------------------------------------------------------------------------------
(***************************************************************************)
(* The host.                                                               *)
(***************************************************************************)

\* unescape accepts a part of a text if it accepts each of its elements.
LEMMA CanUnescapePart ==
  ASSUME NEW S, NEW s \in Seq(S), NEW a \in 1..(Len(s) + 1), NEW b \in 0..Len(s), NEW mode
  PROVE  canUnescape(SubSeq(s, a, b), mode) <=> \A i \in a..b : ~Refused(s[i], mode)
<1>1. PICK t : t = SubSeq(s, a, b)
  OBVIOUS
<1>2. DOMAIN t = 1..((b + 1) - a) /\ \A k \in 1..((b + 1) - a) : t[k] = s[a + (k - 1)]
  BY <1>1
<1>3. canUnescape(t, mode) <=> \A k \in 1..((b + 1) - a) : ~Refused(t[k], mode)
  BY <1>2 DEF canUnescape
<1>4. ASSUME \A k \in 1..((b + 1) - a) : ~Refused(t[k], mode), NEW i \in a..b
      PROVE  ~Refused(s[i], mode)
  <2>1. (i - a) + 1 \in 1..((b + 1) - a) /\ a + (((i - a) + 1) - 1) = i
    OBVIOUS
  <2> QED
    BY <1>2, <1>4, <2>1
<1>5. ASSUME \A i \in a..b : ~Refused(s[i], mode), NEW k \in 1..((b + 1) - a)
      PROVE  ~Refused(t[k], mode)
  <2>1. a + (k - 1) \in a..b
    OBVIOUS
  <2> QED
    BY <1>2, <1>5, <2>1
<1> QED
  BY <1>1, <1>3, <1>4, <1>5

\* What is written for what was read in a host: in the text itself, the same.
Rewritten(t) ==
    LET c == IF IsPct(t) THEN Unpct(t) ELSE t
    IN  IF c \in Unescaped("host") THEN c ELSE Pct[c]

\* A character of a host that is not refused is written as it was read: in a host only
\* an escaped per cent sign is taken apart (uri.go 130-230).
LEMMA RewrittenHost ==
  ASSUME NEW t \in Char, ~Refused(t, "host")
  PROVE  t # BadPct /\ Rewritten(t) = t
<1>1. t # BadPct /\ (IsPct(t) => t = Pct["%"]) /\ (t \in Plain => t \in Unescaped("host"))
  BY DEF Refused, shouldEscape
<1>2. CASE IsPct(t)
  <2>1. "%" \in Plain /\ "%" \notin Unescaped("host")
    BY HostChars, PlainChars
  <2>2. Unpct(t) = "%"
    BY <1>1, <1>2, <2>1, Escapes
  <2> QED
    BY <1>1, <1>2, <2>1, <2>2 DEF Rewritten
<1>3. CASE ~IsPct(t)
  <2>1. t \in Unescaped("host")
    BY <1>1, <1>3, Escapes
  <2> QED
    BY <1>1, <1>3, <2>1 DEF Rewritten
<1> QED
  BY <1>2, <1>3

\* ... and in a zone, something that is accepted there again.
LEMMA RewrittenZone ==
  ASSUME NEW t \in Char, ~Refused(t, "zone")
  PROVE  t # BadPct /\ ~Refused(Rewritten(t), "zone")
<1>1. /\ t # BadPct
      /\ IsPct(t) => Unpct(t) \in {"%", " "} \/ Unpct(t) \in Unescaped("host")
      /\ t \in Plain => t \in Unescaped("zone")
  BY DEF Refused, shouldEscape
<1>2. PICK c : c = IF IsPct(t) THEN Unpct(t) ELSE t
  OBVIOUS
<1>3. c \in Plain /\ (c \in {"%", " "} \/ c \in Unescaped("host"))
  BY <1>1, <1>2, Escapes, HostChars, PlainChars
<1>4. PICK r : r = Rewritten(t)
  OBVIOUS
<1>5. r = IF c \in Unescaped("host") THEN c ELSE Pct[c]
  BY <1>2, <1>4 DEF Rewritten
<1>6. CASE c \in Unescaped("host")
  <2>1. r = c /\ r \in Plain /\ ~IsPct(r) /\ r # BadPct /\ r \in Unescaped("zone")
    BY <1>3, <1>5, <1>6, Escapes, HostChars
  <2>2. ~Refused(r, "zone")
    BY <2>1 DEF Refused, shouldEscape
  <2> QED
    BY <1>1, <1>4, <2>2
<1>7. CASE c \notin Unescaped("host")
  <2>1. r = Pct[c] /\ r \notin Plain /\ r # BadPct /\ Unpct(r) = c /\ c \in {"%", " "}
    BY <1>3, <1>5, <1>7, Escapes
  <2>2. ~Refused(r, "zone")
    BY <2>1 DEF Refused, shouldEscape
  <2> QED
    BY <1>1, <1>4, <2>2
<1> QED
  BY <1>6, <1>7

\* The host that is written, element by element.
LEMMA HostWritten ==
  ASSUME NEW h \in Seq(Char), \A i \in 1..Len(h) : h[i] # BadPct
  PROVE  /\ escape(unescape(h), "host") \in Seq(Escaped("host"))
         /\ Len(escape(unescape(h), "host")) = Len(h)
         /\ \A i \in 1..Len(h) : escape(unescape(h), "host")[i] = Rewritten(h[i])
         /\ unescape(escape(unescape(h), "host")) = unescape(h)
<1>1. PICK d : d = unescape(h)
  OBVIOUS
<1>2. /\ d \in Seq(Plain) /\ Len(d) = Len(h)
      /\ \A i \in 1..Len(h) : d[i] = IF IsPct(h[i]) THEN Unpct(h[i]) ELSE h[i]
  BY <1>1, UnescapeType
<1>3. /\ escape(d, "host") \in Seq(Escaped("host"))
      /\ Len(escape(d, "host")) = Len(d)
      /\ \A i \in 1..Len(d) :
             escape(d, "host")[i] = IF d[i] \in Unescaped("host") THEN d[i] ELSE Pct[d[i]]
      /\ unescape(escape(d, "host")) = d
  BY <1>2, EscapeUnescape
<1>4. \A i \in 1..Len(h) : escape(d, "host")[i] = Rewritten(h[i])
  BY <1>2, <1>3 DEF Rewritten
<1> QED
  BY <1>1, <1>2, <1>3, <1>4

\* A host without a zone is written as it was read.
LEMMA PlainHostSurvives ==
  ASSUME NEW h \in Seq(Char), canUnescape(h, "host")
  PROVE  /\ \A i \in 1..Len(h) : h[i] # BadPct
         /\ escape(unescape(h), "host") = h
<1>1. \A i \in 1..Len(h) : h[i] \in Char /\ ~Refused(h[i], "host")
  BY DEF canUnescape
<1>2. \A i \in 1..Len(h) : h[i] # BadPct /\ Rewritten(h[i]) = h[i]
  BY <1>1, RewrittenHost
<1>3. PICK e : e = escape(unescape(h), "host")
  OBVIOUS
<1>4. e \in Seq(Escaped("host")) /\ Len(e) = Len(h) /\ \A i \in 1..Len(h) : e[i] = Rewritten(h[i])
  BY <1>2, <1>3, HostWritten
<1>5. \A i \in 1..Len(e) : e[i] \in Char
  BY <1>1, <1>2, <1>4
<1>6. e \in Seq(Char)
  BY <1>4, <1>5, SeqOver
<1>7. e = h
  BY <1>2, <1>4, <1>6, SeqEqual
<1> QED
  BY <1>2, <1>3, <1>7

\* A host with a zone is written so that its parts are found again.
LEMMA ZoneHostSurvives ==
  ASSUME NEW h \in Seq(Char), h # <<>>, h[1] = "[",
         NEW close, close = LastIndexByte(h, "]"), close # 0,
         NEW zone, zone = IndexByte(Upto(h, close), Pct["%"]), zone # 0,
         canUnescape(Upto(h, zone), "host"),
         canUnescape(SubSeq(h, zone, close - 1), "zone"),
         canUnescape(SubSeq(h, close, Len(h)), "host"),
         NEW e, e = escape(unescape(h), "host")
  PROVE  /\ \A i \in 1..Len(h) : h[i] # BadPct
         /\ e \in Seq(Escaped("host")) /\ unescape(e) = unescape(h)
         /\ e # <<>> /\ e[1] = "["
         /\ LastIndexByte(e, "]") = close
         /\ After(e, close) = After(h, close)
         /\ IndexByte(Upto(e, close), Pct["%"]) = zone
         /\ canUnescape(Upto(e, zone), "host")
         /\ canUnescape(SubSeq(e, zone, close - 1), "zone")
         /\ canUnescape(SubSeq(e, close, Len(e)), "host")
<1>0. Len(h) \in Nat /\ h \in [1..Len(h) -> Char]
  OBVIOUS
<1>1. /\ close \in 1..Len(h) /\ h[close] = "]"
      /\ \A i \in (close + 1)..Len(h) : h[i] # "]"
  BY LastIndexByteIsLast
<1>2. PICK a : a = Upto(h, close)
  OBVIOUS
<1>3. a \in Seq(Char) /\ Len(a) = close - 1 /\ \A k \in 1..(close - 1) : a[k] = h[k]
  BY <1>1, <1>2 DEF Upto
<1>4. /\ zone \in 1..(close - 1) /\ h[zone] = Pct["%"]
      /\ \A k \in 1..(zone - 1) : h[k] # Pct["%"]
  <2>1. zone = IndexByte(a, Pct["%"])
    BY <1>2
  <2>2. /\ zone \in 0..Len(a)
        /\ zone # 0 => /\ a[zone] = Pct["%"]
                       /\ \A k \in 1..(zone - 1) : a[k] # Pct["%"]
    BY <1>3, <2>1, IndexByteIsFirst
  <2> QED
    BY <1>1, <1>3, <2>2
<1>5. \A i \in 1..(zone - 1) : ~Refused(h[i], "host")
  <2>1. Upto(h, zone) = SubSeq(h, 1, zone - 1) /\ 1 \in 1..(Len(h) + 1) /\ zone - 1 \in 0..Len(h)
    BY <1>0, <1>1, <1>4 DEF Upto
  <2> QED
    BY <2>1, CanUnescapePart
<1>6. \A i \in zone..(close - 1) : ~Refused(h[i], "zone")
  <2>1. zone \in 1..(Len(h) + 1) /\ close - 1 \in 0..Len(h)
    BY <1>0, <1>1, <1>4
  <2> QED
    BY <2>1, CanUnescapePart
<1>7. \A i \in close..Len(h) : ~Refused(h[i], "host")
  <2>1. close \in 1..(Len(h) + 1) /\ Len(h) \in 0..Len(h)
    BY <1>0, <1>1
  <2> QED
    BY <2>1, CanUnescapePart
<1>8. \A i \in 1..Len(h) : \/ i \in 1..(zone - 1)
                           \/ i \in zone..(close - 1)
                           \/ i \in close..Len(h)
  BY <1>0, <1>1, <1>4
<1>9. \A i \in 1..Len(h) : h[i] # BadPct
  BY <1>0, <1>5, <1>6, <1>7, <1>8, RewrittenHost, RewrittenZone
<1>10. /\ e \in Seq(Escaped("host")) /\ Len(e) = Len(h) /\ unescape(e) = unescape(h)
       /\ \A i \in 1..Len(h) : e[i] = Rewritten(h[i])
  BY <1>9, HostWritten
<1>11. \A i \in (1..(zone - 1)) \cup (close..Len(h)) : i \in 1..Len(h) /\ e[i] = h[i]
  <2>1. \A i \in (1..(zone - 1)) \cup (close..Len(h)) : i \in 1..Len(h) /\ ~Refused(h[i], "host")
    BY <1>0, <1>1, <1>4, <1>5, <1>7
  <2> QED
    BY <1>0, <1>10, <2>1, RewrittenHost
<1>12. \A i \in zone..(close - 1) : ~Refused(e[i], "zone")
  <2>1. \A i \in zone..(close - 1) : i \in 1..Len(h)
    BY <1>0, <1>1, <1>4
  <2> QED
    BY <1>0, <1>6, <1>10, <2>1, RewrittenZone
<1>13. e[zone] = Pct["%"]
  <2>1. "%" \in Plain /\ "%" \notin Unescaped("host")
    BY PlainChars, HostChars
  <2>2. IsPct(h[zone]) /\ Unpct(h[zone]) = "%"
    BY <1>4, <2>1, Escapes
  <2>3. Rewritten(h[zone]) = Pct["%"]
    BY <2>1, <2>2 DEF Rewritten
  <2>4. zone \in 1..Len(h)
    BY <1>0, <1>1, <1>4
  <2> QED
    BY <1>10, <2>3, <2>4
<1>14. zone # 1
  <2>1. "%" \in Plain /\ "[" \in Plain
    BY PlainChars
  <2> QED
    BY <1>4, <2>1, Escapes
<1>15. e # <<>> /\ e[1] = "["
  <2>1. 1 \in 1..(zone - 1)
    BY <1>4, <1>14
  <2> QED
    BY <1>0, <1>1, <1>10, <1>11, <2>1
<1>16. e[close] = "]" /\ \A i \in (close + 1)..Len(h) : e[i] # "]"
  <2>1. close \in close..Len(h) /\ \A i \in (close + 1)..Len(h) : i \in close..Len(h)
    BY <1>0, <1>1
  <2> QED
    BY <1>1, <1>11, <2>1
<1>17. LastIndexByte(e, "]") = close
  <2>1. PICK n : n = LastIndexByte(e, "]")
    OBVIOUS
  <2>2. /\ n \in 0..Len(e)
        /\ n = 0 => \A i \in 1..Len(e) : e[i] # "]"
        /\ n # 0 => e[n] = "]" /\ \A i \in (n + 1)..Len(e) : e[i] # "]"
    BY <1>10, <2>1, LastIndexByteIsLast
  <2>3. n # 0
    BY <1>1, <1>10, <1>16, <2>2
  <2>4. ~(n < close)
    BY <1>1, <1>10, <1>16, <2>2, <2>3
  <2>5. ~(n > close)
    BY <1>1, <1>10, <1>16, <2>2, <2>3
  <2> QED
    BY <1>1, <2>1, <2>2, <2>4, <2>5
<1>18. After(e, close) = After(h, close)
  <2>1. PICK x : x = After(e, close)
    OBVIOUS
  <2>2. PICK y : y = After(h, close)
    OBVIOUS
  <2>3. y \in Seq(Char) /\ Len(y) = Len(h) - close /\ \A k \in 1..(Len(h) - close) : y[k] = h[close + k]
    BY <1>1, <2>2 DEF After
  <2>4. close \in 1..Len(e)
    BY <1>1, <1>10
  <2>5. x \in Seq(Escaped("host")) /\ Len(x) = Len(h) - close
        /\ \A k \in 1..(Len(h) - close) : x[k] = e[close + k]
    BY <1>10, <2>1, <2>4 DEF After
  <2>6. ASSUME NEW k \in 1..(Len(h) - close) PROVE x[k] = y[k]
    <3>1. close + k \in close..Len(h)
      BY <1>0, <1>1
    <3> QED
      BY <1>11, <2>3, <2>5, <3>1
  <2>7. \A k \in 1..Len(x) : x[k] \in Char
    BY <2>3, <2>5, <2>6
  <2>8. x \in Seq(Char)
    BY <2>5, <2>7, SeqOver
  <2>9. x = y
    BY <2>3, <2>5, <2>6, <2>8, SeqEqual
  <2> QED
    BY <2>1, <2>2, <2>9
<1>19. IndexByte(Upto(e, close), Pct["%"]) = zone
  <2>1. PICK x : x = Upto(e, close)
    OBVIOUS
  <2>2. x \in Seq(Escaped("host")) /\ Len(x) = close - 1 /\ \A k \in 1..(close - 1) : x[k] = e[k]
    BY <1>1, <1>10, <2>1 DEF Upto
  <2>3. PICK n : n = IndexByte(x, Pct["%"])
    OBVIOUS
  <2>4. /\ n \in 0..(close - 1)
        /\ n = 0 => \A i \in 1..(close - 1) : e[i] # Pct["%"]
        /\ n # 0 => e[n] = Pct["%"] /\ \A i \in 1..(n - 1) : e[i] # Pct["%"]
    <3>1. /\ n \in 0..Len(x)
          /\ n = 0 => \A i \in 1..Len(x) : x[i] # Pct["%"]
          /\ n # 0 => x[n] = Pct["%"] /\ \A i \in 1..(n - 1) : x[i] # Pct["%"]
      BY <2>2, <2>3, IndexByteIsFirst
    <3>2. n \in 0..(close - 1)
      BY <2>2, <3>1
    <3>3. ASSUME n = 0, NEW i \in 1..(close - 1) PROVE e[i] # Pct["%"]
      BY <2>2, <3>1, <3>3
    <3>4. ASSUME n # 0 PROVE e[n] = Pct["%"]
      <4>1. n \in 1..(close - 1)
        BY <1>1, <3>2, <3>4
      <4> QED
        BY <2>2, <3>1, <3>4, <4>1
    <3>5. ASSUME n # 0, NEW i \in 1..(n - 1) PROVE e[i] # Pct["%"]
      <4>1. i \in 1..(close - 1)
        BY <1>1, <3>2, <3>5
      <4> QED
        BY <2>2, <3>1, <3>5, <4>1
    <3> QED
      BY <3>2, <3>3, <3>4, <3>5
  <2>5. \A k \in 1..(zone - 1) : e[k] # Pct["%"]
    BY <1>4, <1>11
  <2>6. n = zone
    BY <1>1, <1>4, <1>13, <2>4, <2>5
  <2> QED
    BY <2>1, <2>3, <2>6
<1>20. canUnescape(Upto(e, zone), "host")
  <2>1. Upto(e, zone) = SubSeq(e, 1, zone - 1) /\ 1 \in 1..(Len(e) + 1) /\ zone - 1 \in 0..Len(e)
    BY <1>0, <1>1, <1>4, <1>10 DEF Upto
  <2>2. \A i \in 1..(zone - 1) : ~Refused(e[i], "host")
    BY <1>5, <1>11
  <2> QED
    BY <1>10, <2>1, <2>2, CanUnescapePart
<1>21. canUnescape(SubSeq(e, zone, close - 1), "zone")
  <2>1. zone \in 1..(Len(e) + 1) /\ close - 1 \in 0..Len(e)
    BY <1>0, <1>1, <1>4, <1>10
  <2> QED
    BY <1>10, <1>12, <2>1, CanUnescapePart
<1>22. canUnescape(SubSeq(e, close, Len(e)), "host")
  <2>1. close \in 1..(Len(e) + 1) /\ Len(e) \in 0..Len(e)
    BY <1>0, <1>1, <1>10
  <2>2. \A i \in close..Len(e) : ~Refused(e[i], "host")
    BY <1>7, <1>10, <1>11
  <2> QED
    BY <1>10, <2>1, <2>2, CanUnescapePart
<1> QED
  BY <1>9, <1>10, <1>15, <1>17, <1>18, <1>19, <1>20, <1>21, <1>22

\* The host that parseHost accepts is the same host after escape and parseHost.
LEMMA HostSurvives ==
  ASSUME NEW h \in Seq(Char), parseHost(h) # NoHost
  PROVE  /\ parseHost(h) = unescape(h)
         /\ parseHost(h) \in Seq(Plain)
         /\ escape(parseHost(h), "host") \in Seq(Escaped("host"))
         /\ parseHost(escape(parseHost(h), "host")) = parseHost(h)
<1> DEFINE close  == LastIndexByte(h, "]")
           colon  == LastIndexByte(h, ":")
           zone   == IndexByte(Upto(h, close), Pct["%"])
           inner  == h # <<>> /\ h[1] = "["
           portOK == IF inner THEN close # 0 /\ validOptionalPort(After(h, close))
                              ELSE colon = 0 \/ validOptionalPort(SubSeq(h, colon, Len(h)))
           hostOK == IF inner /\ zone # 0
                     THEN /\ canUnescape(Upto(h, zone), "host")
                          /\ canUnescape(SubSeq(h, zone, close - 1), "zone")
                          /\ canUnescape(SubSeq(h, close, Len(h)), "host")
                     ELSE canUnescape(h, "host")
<1>1. parseHost(h) = IF portOK /\ hostOK THEN unescape(h) ELSE NoHost
  BY DEF parseHost
<1>2. portOK /\ hostOK /\ parseHost(h) = unescape(h)
  <2> HIDE DEF portOK, hostOK
  <2> QED
    BY <1>1
<1>e. PICK e : e = escape(unescape(h), "host")
  OBVIOUS
<1>3. CASE inner /\ zone # 0
  <2>1. /\ h # <<>> /\ h[1] = "["
        /\ close # 0 /\ zone # 0
        /\ validOptionalPort(After(h, close))
        /\ canUnescape(Upto(h, zone), "host")
        /\ canUnescape(SubSeq(h, zone, close - 1), "zone")
        /\ canUnescape(SubSeq(h, close, Len(h)), "host")
    <3> HIDE DEF close, zone
    <3> QED
      BY <1>2, <1>3
  <2>2. /\ \A i \in 1..Len(h) : h[i] # BadPct
        /\ e \in Seq(Escaped("host")) /\ unescape(e) = unescape(h)
        /\ e # <<>> /\ e[1] = "["
        /\ LastIndexByte(e, "]") = close
        /\ After(e, close) = After(h, close)
        /\ IndexByte(Upto(e, close), Pct["%"]) = zone
        /\ canUnescape(Upto(e, zone), "host")
        /\ canUnescape(SubSeq(e, zone, close - 1), "zone")
        /\ canUnescape(SubSeq(e, close, Len(e)), "host")
    BY <1>e, <2>1, ZoneHostSurvives
  <2>3. unescape(h) \in Seq(Plain)
    BY <2>2, UnescapeType
  <2>4. parseHost(e) = unescape(e)
    <3> HIDE DEF close, zone
    <3> QED
      BY <2>1, <2>2, Zenon DEF parseHost
  <2> QED
    BY <1>2, <1>e, <2>2, <2>3, <2>4
<1>4. CASE ~(inner /\ zone # 0)
  <2>1. canUnescape(h, "host")
    <3> HIDE DEF close, zone, inner
    <3> QED
      BY <1>2, <1>4
  <2>2. /\ \A i \in 1..Len(h) : h[i] # BadPct
        /\ escape(unescape(h), "host") = h
    BY <2>1, PlainHostSurvives
  <2>3. unescape(h) \in Seq(Plain) /\ escape(unescape(h), "host") \in Seq(Escaped("host"))
    BY <2>2, UnescapeType, HostWritten
  <2> QED
    BY <1>2, <2>2, <2>3
<1> QED
  BY <1>3, <1>4

--------------------------------------------------------------------------------
(***************************************************************************)
(* The URI.                                                                *)
(***************************************************************************)

\* What a URI without a fragment consists of.
UriChar == Char \ {"#", Ctl}

\* ... its authority, and each part of the authority.
RestChar == UriChar \ {"?"}
AuthChar == RestChar \ {"@"}

\* An escape is none of the characters that delimit the parts of a URI.
LEMMA EscapedChars ==
  /\ Escaped("user") \subseteq UriChar \ {"@", ":", "?", " ", "/"}
  /\ Escaped("host") \subseteq UriChar \ {"@", "?", " ", "/"}
<1>1. "@" \in Plain /\ ":" \in Plain /\ "?" \in Plain /\ "#" \in Plain /\ "/" \in Plain
      /\ " " \in Plain /\ Ctl \in Plain
  BY PlainChars
<1>2. ASSUME NEW c \in Plain PROVE Pct[c] \in UriChar \ {"@", ":", "?", " ", "/"}
  <2>1. PICK p : p = Pct[c]
    OBVIOUS
  <2>2. p \in Char /\ p \notin Plain
    BY <2>1, Escapes
  <2>3. p \in UriChar \ {"@", ":", "?", " ", "/"}
    BY <1>1, <2>2 DEF UriChar
  <2> QED
    BY <2>1, <2>3
<1>3. \A c \in Unescaped("user") : c \in UriChar \ {"@", ":", "?", " ", "/"}
  BY UserChars DEF UriChar, Char
<1>4. \A c \in Unescaped("host") : c \in UriChar \ {"@", "?", " ", "/"}
  BY HostChars DEF UriChar, Char
<1> QED
  BY <1>2, <1>3, <1>4 DEF Escaped

\* A user name or a password that is accepted is written and accepted again.
LEMMA UserSurvives ==
  ASSUME NEW s \in Seq(Char), canUnescape(s, "user")
  PROVE  /\ unescape(s) \in Seq(Plain)
         /\ escape(unescape(s), "user") \in Seq(Escaped("user"))
         /\ validUserinfo(escape(unescape(s), "user"))
         /\ canUnescape(escape(unescape(s), "user"), "user")
         /\ unescape(escape(unescape(s), "user")) = unescape(s)
<1>1. \A i \in 1..Len(s) : s[i] # BadPct
  BY DEF canUnescape, Refused
<1>2. PICK d : d = unescape(s)
  OBVIOUS
<1>3. d \in Seq(Plain)
  BY <1>1, <1>2, UnescapeType
<1>4. PICK e : e = escape(d, "user")
  OBVIOUS
<1>5. e \in Seq(Escaped("user")) /\ unescape(e) = d
  BY <1>3, <1>4, EscapeUnescape
<1>6. \A c \in Escaped("user") :
          \/ c \in Alnum \cup Mark \cup {":", "$", "&", "*", "+", ",", ";", "=", "@"}
          \/ IsPct(c)
  <2>1. \A c \in Unescaped("user") :
            c \in Alnum \cup Mark \cup {":", "$", "&", "*", "+", ",", ";", "=", "@"}
    BY DEF Unescaped, Reserved
  <2>2. \A c \in Plain : IsPct(Pct[c])
    BY Escapes
  <2> QED
    BY <2>1, <2>2 DEF Escaped
<1>7. \A c \in Escaped("user") : c # BadPct
  <2>1. \A c \in Unescaped("user") : c # BadPct
    BY UserChars, Escapes
  <2>2. \A c \in Plain : Pct[c] # BadPct
    BY Escapes
  <2> QED
    BY <2>1, <2>2 DEF Escaped
<1>8. \A i \in DOMAIN e : e[i] \in Escaped("user")
  BY <1>5
<1>9. validUserinfo(e)
  BY <1>6, <1>8 DEF validUserinfo
<1>10. canUnescape(e, "user")
  BY <1>7, <1>8 DEF canUnescape, Refused
<1> QED
  BY <1>2, <1>3, <1>4, <1>5, <1>9, <1>10

\* The parts of User, unescaped one by one.
LEMMA UserParts ==
  /\ [i \in DOMAIN <<>> |-> unescape(<<>>[i])] = <<>>
  /\ \A a : [i \in DOMAIN <<a>> |-> unescape(<<a>>[i])] = <<unescape(a)>>
  /\ \A a, b : [i \in DOMAIN <<a, b>> |-> unescape(<<a, b>>[i])] = <<unescape(a), unescape(b)>>
OBVIOUS

\* Which texts do not have a character.
LEMMA HasNot ==
  ASSUME NEW S, NEW s \in Seq(S), NEW c
  PROVE  ~Has(s, c) <=> s \in Seq(S \ {c})
BY DEF Has, ToSet

\* A text put together around a character has it.
LEMMA HasJoint ==
  ASSUME NEW S, NEW a \in Seq(S), NEW b \in Seq(S), NEW c \in S
  PROVE  Has(a \o <<c>> \o b, c)
<1>1. PICK s : s = a \o <<c>> \o b
  OBVIOUS
<1>2. s \in Seq(S) /\ Len(s) = Len(a) + 1 + Len(b) /\ s[Len(a) + 1] = c
  BY <1>1, Joint
<1>3. Len(a) + 1 \in 1..Len(s)
  BY <1>2
<1>4. Has(s, c)
  BY <1>2, <1>3 DEF Has, ToSet
<1> QED
  BY <1>1, <1>4

\* A sequence over a set is one over a larger set.
LEMMA SeqSub ==
  ASSUME NEW S, NEW T, S \subseteq T, NEW s \in Seq(S)
  PROVE  s \in Seq(T)
OBVIOUS

\* What is escaped for the user has no delimiter.
LEMMA UserEscaped ==
  ASSUME NEW e \in Seq(Escaped("user"))
  PROVE  /\ e \in Seq(AuthChar)
         /\ e \in Seq(AuthChar \ {":"})
<1>1. Escaped("user") \subseteq AuthChar
  BY EscapedChars DEF AuthChar, RestChar
<1>2. Escaped("user") \subseteq AuthChar \ {":"}
  BY EscapedChars DEF AuthChar, RestChar
<1> QED
  BY <1>1, <1>2, SeqSub

\* How a user is written.
LEMMA UserStrings ==
  /\ \A a : UserString(<<a>>) = escape(a, "user") /\ <<a>> # <<>>
  /\ \A a, b : UserString(<<a, b>>) = escape(a, "user") \o <<":">> \o escape(b, "user")
               /\ <<a, b>> # <<>>
<1>1. ASSUME NEW a PROVE UserString(<<a>>) = escape(a, "user") /\ <<a>> # <<>>
  <2>1. <<a>> # <<>> /\ Len(<<a>>) = 1 /\ <<a>>[1] = a
    OBVIOUS
  <2>2. PICK u : u = <<a>>
    OBVIOUS
  <2>3. u # <<>> /\ Len(u) = 1 /\ Len(u) # 2 /\ u[1] = a
    BY <2>1, <2>2
  <2>4. UserString(u) = escape(u[1], "user")
    BY <2>3 DEF UserString
  <2> QED
    BY <2>1, <2>2, <2>3, <2>4
<1>2. ASSUME NEW a, NEW b
      PROVE  UserString(<<a, b>>) = escape(a, "user") \o <<":">> \o escape(b, "user")
             /\ <<a, b>> # <<>>
  <2>1. <<a, b>> # <<>> /\ Len(<<a, b>>) = 2 /\ <<a, b>>[1] = a /\ <<a, b>>[2] = b
    OBVIOUS
  <2>2. PICK u : u = <<a, b>>
    OBVIOUS
  <2>3. u # <<>> /\ Len(u) = 2 /\ Len(u) # 1 /\ u[1] = a /\ u[2] = b
    BY <2>1, <2>2
  <2>4. UserString(u) = escape(u[1], "user") \o <<":">> \o escape(u[2], "user")
    BY <2>3 DEF UserString
  <2> QED
    BY <2>1, <2>2, <2>3, <2>4
<1> QED
  BY <1>1, <1>2

\* What authorityOK asks of the user.
UserOK(v) == \A i \in DOMAIN v : validUserinfo(v[i]) /\ canUnescape(v[i], "user")

Unescape(v) == [i \in DOMAIN v |-> unescape(v[i])]

\* A user name that is accepted is written and accepted again.
LEMMA NameSurvives ==
  ASSUME NEW s \in Seq(Char), canUnescape(s, "user")
  PROVE  /\ UserString(<<unescape(s)>>) \in Seq(AuthChar)
         /\ UserOK(userinfo(UserString(<<unescape(s)>>)))
         /\ Unescape(userinfo(UserString(<<unescape(s)>>))) = <<unescape(s)>>
<1>1. PICK e : e = escape(unescape(s), "user")
  OBVIOUS
<1>2. /\ e \in Seq(Escaped("user"))
      /\ validUserinfo(e) /\ canUnescape(e, "user") /\ unescape(e) = unescape(s)
  BY <1>1, UserSurvives
<1>3. UserString(<<unescape(s)>>) = e
  BY <1>1, UserStrings
<1>4. e \in Seq(AuthChar) /\ e \in Seq(AuthChar \ {":"})
  BY <1>2, UserEscaped
<1>5. ~Has(e, ":")
  BY <1>4, HasNot
<1>6. userinfo(e) = <<e>>
  BY <1>5 DEF userinfo
<1>7. UserOK(<<e>>)
  BY <1>2 DEF UserOK
<1>8. Unescape(<<e>>) = <<unescape(e)>>
  BY UserParts DEF Unescape
<1> QED
  BY <1>2, <1>3, <1>4, <1>6, <1>7, <1>8

\* ... and so are a user name and a password.
LEMMA NameAndPasswordSurvive ==
  ASSUME NEW n \in Seq(Char), canUnescape(n, "user"), NEW w \in Seq(Char), canUnescape(w, "user"),
         NEW t, t = UserString(<<unescape(n), unescape(w)>>)
  PROVE  /\ t \in Seq(AuthChar)
         /\ UserOK(userinfo(t))
         /\ Unescape(userinfo(t)) = <<unescape(n), unescape(w)>>
<1>1. PICK e : e = escape(unescape(n), "user")
  OBVIOUS
<1>2. PICK f : f = escape(unescape(w), "user")
  OBVIOUS
<1>3. /\ e \in Seq(Escaped("user"))
      /\ validUserinfo(e) /\ canUnescape(e, "user") /\ unescape(e) = unescape(n)
  BY <1>1, UserSurvives
<1>4. /\ f \in Seq(Escaped("user"))
      /\ validUserinfo(f) /\ canUnescape(f, "user") /\ unescape(f) = unescape(w)
  BY <1>2, UserSurvives
<1>5. t = e \o <<":">> \o f
  BY <1>1, <1>2, UserStrings
<1>6. ":" \in AuthChar
  BY PlainChars DEF AuthChar, RestChar, UriChar, Char, Ctl
<1>7. /\ e \in Seq(AuthChar) /\ e \in Seq(AuthChar \ {":"})
      /\ f \in Seq(AuthChar)
  BY <1>3, <1>4, UserEscaped
<1>8. t \in Seq(AuthChar)
  <2>1. e \o <<":">> \o f \in Seq(AuthChar)
    BY <1>6, <1>7, JointSeq
  <2> QED
    BY <1>5, <2>1
<1>9. Has(t, ":")
  BY <1>5, <1>6, <1>7, HasJoint
<1>10. split(t, ":") = <<e, f>>
  BY <1>5, <1>6, <1>7, SplitAt
<1>11. userinfo(t) = <<e, f>>
  BY <1>9, <1>10 DEF userinfo
<1>12. UserOK(<<e, f>>)
  BY <1>3, <1>4 DEF UserOK
<1>13. Unescape(<<e, f>>) = <<unescape(e), unescape(f)>>
  BY UserParts DEF Unescape
<1> QED
  BY <1>3, <1>4, <1>8, <1>11, <1>12, <1>13

\* The parts of the user information that are accepted are written and accepted
\* again, as the same parts.
LEMMA UserinfoSurvives ==
  ASSUME NEW s \in Seq(Char), UserOK(userinfo(s)), NEW u, u = Unescape(userinfo(s))
  PROVE  /\ u # <<>>
         /\ UserString(u) \in Seq(AuthChar)
         /\ UserOK(userinfo(UserString(u)))
         /\ Unescape(userinfo(UserString(u))) = u
<1>1. CASE ~Has(s, ":")
  <2>1. userinfo(s) = <<s>>
    BY <1>1 DEF userinfo
  <2>2. canUnescape(s, "user")
    <3>1. 1 \in DOMAIN <<s>> /\ <<s>>[1] = s
      OBVIOUS
    <3> QED
      BY <2>1, <3>1 DEF UserOK
  <2>3. u = <<unescape(s)>>
    BY <2>1, UserParts DEF Unescape
  <2> QED
    BY <2>2, <2>3, NameSurvives, UserStrings
<1>2. CASE Has(s, ":")
  <2>1. PICK n : n = Upto(s, IndexByte(s, ":"))
    OBVIOUS
  <2>2. PICK w : w = After(s, IndexByte(s, ":"))
    OBVIOUS
  <2>3. IndexByte(s, ":") \in 1..Len(s)
    <3>1. /\ IndexByte(s, ":") \in 0..Len(s)
          /\ IndexByte(s, ":") = 0 => \A i \in 1..Len(s) : s[i] # ":"
      BY IndexByteIsFirst
    <3>2. \E i \in 1..Len(s) : s[i] = ":"
      BY <1>2 DEF Has, ToSet
    <3> QED
      BY <3>1, <3>2
  <2>4. split(s, ":") = <<n, w>>
    BY <2>1, <2>2, <2>3 DEF split
  <2>5. n \in Seq(Char) /\ w \in Seq(Char)
    BY <2>1, <2>2, <2>3, CutAt
  <2>6. userinfo(s) = <<n, w>>
    BY <1>2, <2>4 DEF userinfo
  <2>7. canUnescape(n, "user") /\ canUnescape(w, "user")
    <3>1. /\ 1 \in DOMAIN <<n, w>> /\ <<n, w>>[1] = n
          /\ 2 \in DOMAIN <<n, w>> /\ <<n, w>>[2] = w
      OBVIOUS
    <3> QED
      BY <2>6, <3>1 DEF UserOK
  <2>8. u = <<unescape(n), unescape(w)>>
    BY <2>6, UserParts DEF Unescape
  <2> QED
    BY <2>5, <2>7, <2>8, NameAndPasswordSurvive, UserStrings
<1> QED
  BY <1>1, <1>2

\* After(s, 0) is the whole text.
LEMMA AfterNone ==
  ASSUME NEW S, NEW s \in Seq(S)
  PROVE  After(s, 0) = s
BY SubSeqFull DEF After

\* A part that follows a separator, unless it is empty.
ParamText(c, q) == IF q = <<>> THEN <<>> ELSE <<c>> \o q
Optional(e, c, q) == e \o ParamText(c, q)

\* ... is taken apart again.
LEMMA SplitOptional ==
  ASSUME NEW S, NEW c \in S, NEW e \in Seq(S \ {c}), NEW q \in Seq(S)
  PROVE  /\ Optional(e, c, q) \in Seq(S)
         /\ split(Optional(e, c, q), c) = <<e, q>>
<1>1. e \in Seq(S)
  OBVIOUS
<1>w. PICK w : w = Optional(e, c, q)
  OBVIOUS
<1>3. CASE q = <<>>
  <2>1. w = e
    BY <1>1, <1>3, <1>w, ConcatEmptySeq DEF Optional, ParamText
  <2>2. split(e, c) = <<e, <<>>>>
    BY SplitNone
  <2> QED
    BY <1>1, <1>3, <1>w, <2>1, <2>2, Zenon
<1>4. CASE q # <<>>
  <2>a. PICK x : x = <<c>>
    OBVIOUS
  <2>b. PICK ex : ex = e \o x
    OBVIOUS
  <2>c. PICK d : d = x \o q
    OBVIOUS
  <2>d. x \in Seq(S)
    BY <2>a
  <2>e. ex \o q = e \o d
    BY <1>1, <2>b, <2>c, <2>d, Associative
  <2>1. w = e \o d
    BY <1>4, <1>w, <2>a, <2>c, Zenon DEF Optional, ParamText
  <2>2. w = e \o <<c>> \o q
    BY <2>a, <2>b, <2>e, <2>1, Zenon
  <2>3. e \o <<c>> \o q \in Seq(S)
    BY <1>1, JointSeq
  <2>4. split(e \o <<c>> \o q, c) = <<e, q>>
    BY SplitAt
  <2> QED
    BY <1>w, <2>2, <2>3, <2>4, Zenon
<1> QED
  BY <1>3, <1>4

\* Host and parameters are taken apart where they were joined.
LEMMA HostParam ==
  ASSUME NEW e \in Seq(AuthChar \ {";"}), NEW q \in Seq(AuthChar)
  PROVE  /\ Optional(e, ";", q) \in Seq(AuthChar)
         /\ split(Optional(e, ";", q), ";") = <<e, q>>
<1>1. ";" \in AuthChar
  BY PlainChars DEF AuthChar, RestChar, UriChar, Char, Ctl
<1> QED
  BY <1>1, SplitOptional

\* What parseAuthority takes a text apart into.
LEMMA AuthorityParts ==
  ASSUME NEW p \in Seq(RestChar), NEW auth, auth = parseAuthority(p)
  PROVE  /\ auth.RawParameter \in Seq(AuthChar)
         /\ \E h \in Seq(Char) : auth.Host = parseHost(h)
         /\ auth.User = <<>> \/ \E s \in Seq(Char) : auth.User = userinfo(s)
<1>1. PICK at : at = LastIndexByte(p, "@")
  OBVIOUS
<1>2. PICK x : x = After(p, at)
  OBVIOUS
<1>3. PICK hp : hp = split(x, ";")
  OBVIOUS
<1>4. auth = [User |-> IF at = 0 THEN <<>> ELSE userinfo(Upto(p, at)),
              Host |-> parseHost(hp[1]), RawParameter |-> hp[2]]
  BY <1>1, <1>2, <1>3 DEF parseAuthority
<1>5. /\ at \in 0..Len(p)
      /\ at = 0 => \A i \in 1..Len(p) : p[i] # "@"
      /\ at # 0 => p[at] = "@" /\ \A i \in (at + 1)..Len(p) : p[i] # "@"
  BY <1>1, LastIndexByteIsLast
<1>6. x \in Seq(AuthChar)
  <2>1. x \in Seq(RestChar) /\ Len(x) = Len(p) - at /\ \A k \in 1..(Len(p) - at) : x[k] = p[at + k]
    BY <1>2, <1>5 DEF After
  <2>2. ASSUME NEW k \in 1..Len(x) PROVE x[k] \in AuthChar
    <3>1. x[k] \in RestChar /\ x[k] = p[at + k] /\ at + k \in (at + 1)..Len(p) /\ at + k \in 1..Len(p)
      BY <1>5, <2>1
    <3>2. x[k] # "@"
      BY <1>5, <3>1
    <3> QED
      BY <3>1, <3>2 DEF AuthChar
  <2> QED
    BY <2>1, <2>2, SeqOver
<1>7. hp[1] \in Seq(AuthChar) /\ hp[2] \in Seq(AuthChar)
  <2>1. \/ /\ x \in Seq(AuthChar \ {";"})
           /\ hp = <<x, <<>>>>
        \/ /\ hp[1] \in Seq(AuthChar \ {";"})
           /\ hp[2] \in Seq(AuthChar)
    BY <1>3, <1>6, SplitParts
  <2>2. CASE hp = <<x, <<>>>>
    <3>1. hp[1] = x /\ hp[2] = <<>> /\ <<>> \in Seq(AuthChar)
      BY <2>2
    <3> QED
      BY <1>6, <3>1
  <2>3. CASE hp[1] \in Seq(AuthChar \ {";"}) /\ hp[2] \in Seq(AuthChar)
    <3>1. AuthChar \ {";"} \subseteq AuthChar
      OBVIOUS
    <3> QED
      BY <2>3, <3>1, SeqSub
  <2> QED
    BY <2>1, <2>2, <2>3
<1>8. AuthChar \subseteq Char /\ RestChar \subseteq Char
  BY DEF AuthChar, RestChar, UriChar
<1>9. hp[1] \in Seq(Char)
  BY <1>7, <1>8, SeqSub
<1>10. at # 0 => Upto(p, at) \in Seq(Char)
  <2> SUFFICES ASSUME at # 0 PROVE Upto(p, at) \in Seq(Char)
    OBVIOUS
  <2>1. at \in 1..Len(p)
    BY <1>5
  <2>2. Upto(p, at) \in Seq(RestChar)
    BY <2>1, CutAt
  <2> QED
    BY <1>8, <2>2, SeqSub
<1>11. auth.RawParameter = hp[2] /\ auth.Host = parseHost(hp[1])
       /\ auth.User = IF at = 0 THEN <<>> ELSE userinfo(Upto(p, at))
  BY <1>4
<1> QED
  BY <1>7, <1>9, <1>10, <1>11

\* An authority without a user, taken apart.
LEMMA AuthorityWithoutUser ==
  ASSUME NEW x \in Seq(AuthChar)
  PROVE  parseAuthority(x) =
             [User |-> <<>>, Host |-> parseHost(split(x, ";")[1]), RawParameter |-> split(x, ";")[2]]
<1>1. AuthChar = RestChar \ {"@"}
  BY DEF AuthChar
<1>2. LastIndexByte(x, "@") = 0
  BY <1>1, NotFound
<1>3. After(x, 0) = x
  BY AfterNone
<1> QED
  BY <1>2, <1>3 DEF parseAuthority

\* An authority with a user, taken apart.
LEMMA AuthorityWithUser ==
  ASSUME NEW y \in Seq(RestChar), NEW x \in Seq(AuthChar)
  PROVE  /\ y \o <<"@">> \o x \in Seq(RestChar)
         /\ parseAuthority(y \o <<"@">> \o x) =
                [User |-> userinfo(y), Host |-> parseHost(split(x, ";")[1]),
                 RawParameter |-> split(x, ";")[2]]
<1>1. "@" \in RestChar /\ AuthChar = RestChar \ {"@"}
  BY PlainChars DEF AuthChar, RestChar, UriChar, Char, Ctl
<1>2. x \in Seq(RestChar \ {"@"}) /\ x \in Seq(RestChar)
  <2>1. RestChar \ {"@"} \subseteq RestChar
    OBVIOUS
  <2>2. x \in Seq(RestChar \ {"@"})
    BY <1>1, Zenon
  <2> QED
    BY <2>1, <2>2, SeqSub
<1>3. y \o <<"@">> \o x \in Seq(RestChar)
  BY <1>1, <1>2, JointSeq
<1>4. LastIndexByte(y \o <<"@">> \o x, "@") = Len(y) + 1
  BY <1>1, <1>2, LastFound
<1>5. /\ Upto(y \o <<"@">> \o x, Len(y) + 1) = y
      /\ After(y \o <<"@">> \o x, Len(y) + 1) = x
  BY <1>1, <1>2, JointParts
<1>7. Len(y) + 1 # 0
  <2>1. Len(y) \in Nat
    BY LenProperties
  <2> QED
    BY <2>1
<1>8. PICK t : t = y \o <<"@">> \o x
  OBVIOUS
<1>9. PICK at : at = Len(y) + 1
  OBVIOUS
<1>10. LastIndexByte(t, "@") = at /\ Upto(t, at) = y /\ After(t, at) = x /\ at # 0
  BY <1>4, <1>5, <1>7, <1>8, <1>9
<1>11. parseAuthority(t) =
          [User |-> userinfo(y), Host |-> parseHost(split(x, ";")[1]),
           RawParameter |-> split(x, ";")[2]]
  BY <1>10 DEF parseAuthority
<1> QED
  BY <1>3, <1>8, <1>11

\* A host that has no semicolon is written without one.
LEMMA HostWithoutSemicolon ==
  ASSUME NEW host \in Seq(Plain), ~Has(host, ";")
  PROVE  escape(host, "host") \in Seq(AuthChar \ {";"})
<1>1. PICK e : e = escape(host, "host")
  OBVIOUS
<1>2. /\ e \in Seq(Escaped("host")) /\ Len(e) = Len(host)
      /\ \A i \in 1..Len(host) :
             e[i] = IF host[i] \in Unescaped("host") THEN host[i] ELSE Pct[host[i]]
  BY <1>1, EscapeUnescape
<1>3. ASSUME NEW i \in 1..Len(host) PROVE host[i] # ";" /\ host[i] \in Plain
  <2>1. host \in Seq(Plain \ {";"})
    BY HasNot
  <2>2. host[i] \in Plain \ {";"}
    BY <2>1, ElementOfSeq
  <2> QED
    BY <2>2
<1>4. ";" \in Plain
  BY PlainChars
<1>5. \A i \in 1..Len(host) : Pct[host[i]] # ";"
  BY <1>3, <1>4, Escapes
<1>6. \A i \in 1..Len(e) : e[i] # ";"
  BY <1>2, <1>3, <1>5
<1>7. Escaped("host") \subseteq AuthChar
  BY EscapedChars DEF AuthChar, RestChar
<1>8. ASSUME NEW i \in 1..Len(e) PROVE e[i] \in AuthChar \ {";"}
  <2>1. e[i] \in Escaped("host")
    BY <1>2, ElementOfSeq
  <2> QED
    BY <1>6, <1>7, <2>1
<1>9. e \in Seq(AuthChar \ {";"})
  BY <1>2, <1>8, SeqOver
<1> QED
  BY <1>1, <1>9

\* The authority of a URI, as String writes it.
UserText(user) == IF user = <<>> THEN <<>> ELSE UserString(user) \o <<"@">>
AuthorityText(user, host, param) ==
    UserText(user) \o Optional(escape(host, "host"), ";", param)

\* An authority that is accepted is written and accepted again, as the same.
LEMMA AuthoritySurvives ==
  ASSUME NEW user, user = <<>> \/ \E s \in Seq(Char) : user = userinfo(s),
         UserOK(user),
         NEW host \in Seq(Plain), ~Has(host, ";"), parseHost(escape(host, "host")) = host,
         NEW param \in Seq(AuthChar)
  PROVE  /\ AuthorityText(Unescape(user), host, param) \in Seq(RestChar)
         /\ \E v : /\ UserOK(v) /\ Unescape(v) = Unescape(user)
                   /\ parseAuthority(AuthorityText(Unescape(user), host, param)) =
                         [User |-> v, Host |-> host, RawParameter |-> param]
<1>1. PICK e : e = escape(host, "host")
  OBVIOUS
<1>2. e \in Seq(AuthChar \ {";"}) /\ parseHost(e) = host
  BY <1>1, HostWithoutSemicolon
<1>3. PICK x : x = Optional(e, ";", param)
  OBVIOUS
<1>4. x \in Seq(AuthChar) /\ split(x, ";")[1] = e /\ split(x, ";")[2] = param
  <2>1. x \in Seq(AuthChar) /\ split(x, ";") = <<e, param>>
    BY <1>2, <1>3, HostParam
  <2>2. <<e, param>>[1] = e /\ <<e, param>>[2] = param
    OBVIOUS
  <2> QED
    BY <2>1, <2>2, Zenon
<1>5. AuthChar \subseteq RestChar
  BY DEF AuthChar
<1>6. x \in Seq(RestChar)
  BY <1>4, <1>5, SeqSub
<1>7. CASE user = <<>>
  <2>1. Unescape(user) = <<>> /\ UserOK(<<>>)
    BY <1>7, UserParts DEF Unescape, UserOK
  <2>2. AuthorityText(<<>>, host, param) = x
    BY <1>1, <1>3, <1>6, ConcatEmptySeq DEF AuthorityText, UserText
  <2>3. parseAuthority(x) = [User |-> <<>>, Host |-> parseHost(e), RawParameter |-> param]
    BY <1>4, AuthorityWithoutUser
  <2> QED
    BY <1>2, <1>6, <1>7, <2>1, <2>2, <2>3, Zenon
<1>8. CASE user # <<>>
  <2>1. PICK s \in Seq(Char) : user = userinfo(s)
    BY <1>8
  <2>2. PICK u : u = Unescape(user)
    OBVIOUS
  <2>3. PICK y : y = UserString(u)
    OBVIOUS
  <2>4. /\ u # <<>>
        /\ y \in Seq(AuthChar)
        /\ UserOK(userinfo(y))
        /\ Unescape(userinfo(y)) = u
    BY <2>1, <2>2, <2>3, UserinfoSurvives
  <2>5. y \in Seq(RestChar)
    BY <1>5, <2>4, SeqSub
  <2>6. AuthorityText(u, host, param) = y \o <<"@">> \o x
    BY <1>1, <1>3, <2>3, <2>4 DEF AuthorityText, UserText
  <2>7. /\ y \o <<"@">> \o x \in Seq(RestChar)
        /\ parseAuthority(y \o <<"@">> \o x) =
               [User |-> userinfo(y), Host |-> parseHost(e), RawParameter |-> param]
    <3>1. parseAuthority(y \o <<"@">> \o x) =
              [User |-> userinfo(y), Host |-> parseHost(split(x, ";")[1]),
               RawParameter |-> split(x, ";")[2]]
      BY <1>4, <2>5, AuthorityWithUser
    <3>2. y \o <<"@">> \o x \in Seq(RestChar)
      BY <1>4, <2>5, AuthorityWithUser
    <3> QED
      BY <1>4, <3>1, <3>2, Zenon
  <2> QED
    BY <1>2, <2>2, <2>4, <2>6, <2>7, Zenon
<1> QED
  BY <1>7, <1>8

\* The characters of a scheme.
SchemeChar == Alnum \cup {"+", "-", "."}

\* ... are none that delimits it.
LEMMA SchemeChars ==
  /\ SchemeChar \subseteq UriChar
  /\ ":" \notin SchemeChar /\ ":" \in UriChar /\ "?" \in UriChar
  /\ Letters \cup Capitals \subseteq SchemeChar
  /\ "*" \notin Letters \cup Capitals /\ ":" \notin Letters \cup Capitals
BY DEF SchemeChar, Alnum, UriChar, Char, Plain, Letters, Capitals, Digits, Reserved, Other, Ctl

\* What getscheme takes a text apart into.
LEMMA SchemeParts ==
  ASSUME NEW S, NEW s \in Seq(S), getscheme(s)[1] # <<>>
  PROVE  /\ getscheme(s)[1] \in Seq(SchemeChar)
         /\ getscheme(s)[1][1] \in Letters \cup Capitals
         /\ getscheme(s)[2] \in Seq(S)
<1>1. PICK i : i = IndexByte(s, ":")
  OBVIOUS
<1>2. i \in 0..Len(s)
  BY <1>1, IndexByteIsFirst
<1>3. PICK ok : ok = (/\ i > 1
                      /\ s[1] \in Letters \cup Capitals
                      /\ \A k \in 1..(i - 1) : s[k] \in SchemeChar)
  OBVIOUS
<1>4. getscheme(s) = IF ok THEN <<Upto(s, i), After(s, i)>> ELSE <<<<>>, s>>
  BY <1>1, <1>3, Zenon DEF getscheme, SchemeChar
<1>5. ok
  <2>1. <<<<>>, s>>[1] = <<>>
    OBVIOUS
  <2> QED
    BY <1>4, <2>1, Zenon
<1>6. i \in 1..Len(s) /\ i > 1 /\ s[1] \in Letters \cup Capitals
      /\ \A k \in 1..(i - 1) : s[k] \in SchemeChar
  <2>1. /\ i > 1
        /\ s[1] \in Letters \cup Capitals
        /\ \A k \in 1..(i - 1) : s[k] \in SchemeChar
    BY <1>3, <1>5, Zenon
  <2>2. i \in 1..Len(s)
    BY <1>2, <2>1
  <2> QED
    BY <2>1, <2>2, Zenon
<1>7. /\ Upto(s, i) \in Seq(S) /\ Len(Upto(s, i)) = i - 1
      /\ \A k \in 1..(i - 1) : Upto(s, i)[k] = s[k]
      /\ After(s, i) \in Seq(S)
  BY <1>6, CutAt
<1>8. \A k \in 1..Len(Upto(s, i)) : Upto(s, i)[k] \in SchemeChar
  BY <1>6, <1>7
<1>9. Upto(s, i) \in Seq(SchemeChar)
  BY <1>7, <1>8, SeqOver
<1>10. Upto(s, i)[1] \in Letters \cup Capitals
  BY <1>6, <1>7
<1>11. getscheme(s)[1] = Upto(s, i) /\ getscheme(s)[2] = After(s, i)
  <2>1. getscheme(s) = <<Upto(s, i), After(s, i)>>
    BY <1>4, <1>5
  <2> QED
    BY <2>1
<1> QED
  BY <1>7, <1>9, <1>10, <1>11, Zenon

\* getscheme finds a scheme that was written.
LEMMA SchemeFound ==
  ASSUME NEW a \in Seq(SchemeChar), a # <<>>, a[1] \in Letters \cup Capitals, NEW r \in Seq(UriChar)
  PROVE  getscheme(a \o <<":">> \o r) = <<a, r>>
<1>1. PICK c : c = ":"
  OBVIOUS
<1>2. c \in UriChar /\ SchemeChar \subseteq UriChar \ {c}
  BY <1>1, SchemeChars
<1>3. a \in Seq(UriChar \ {c}) /\ a \in Seq(UriChar)
  BY <1>2, SeqSub
<1>4. PICK s : s = a \o <<c>> \o r
  OBVIOUS
<1>5. /\ s \in Seq(UriChar)
      /\ \A i \in 1..Len(a) : s[i] = a[i]
  BY <1>2, <1>3, <1>4, Joint
<1>6. IndexByte(s, c) = Len(a) + 1
  BY <1>2, <1>3, <1>4, FirstFound
<1>7. Upto(s, Len(a) + 1) = a /\ After(s, Len(a) + 1) = r
  BY <1>2, <1>3, <1>4, JointParts
<1>8. Len(a) \in Nat /\ Len(a) >= 1
  OBVIOUS
<1>9. PICK i : i = Len(a) + 1
  OBVIOUS
<1>10. i > 1 /\ s[1] \in Letters \cup Capitals /\ \A k \in 1..(i - 1) : s[k] \in SchemeChar
  BY <1>5, <1>8, <1>9
<1>11. IndexByte(s, ":") = i /\ Upto(s, i) = a /\ After(s, i) = r
  BY <1>1, <1>6, <1>7, <1>9
<1>12. getscheme(s) = <<a, r>>
  BY <1>10, <1>11, Zenon DEF getscheme, SchemeChar
<1> QED
  BY <1>1, <1>4, <1>12, Zenon

\* ... and the text begins with it.
LEMMA SchemeWritten ==
  ASSUME NEW a \in Seq(SchemeChar), a # <<>>, a[1] \in Letters \cup Capitals, NEW r \in Seq(UriChar)
  PROVE  /\ a \o <<":">> \o r \in Seq(UriChar) /\ a \o <<":">> \o r # <<>>
         /\ (a \o <<":">> \o r)[1] \in Letters \cup Capitals
<1>1. PICK c : c = ":"
  OBVIOUS
<1>2. c \in UriChar /\ SchemeChar \subseteq UriChar
  BY <1>1, SchemeChars
<1>3. a \in Seq(UriChar)
  BY <1>2, SeqSub
<1>4. PICK t : t = a \o <<c>> \o r
  OBVIOUS
<1>5. /\ t \in Seq(UriChar) /\ Len(t) = Len(a) + 1 + Len(r)
      /\ \A i \in 1..Len(a) : t[i] = a[i]
  BY <1>2, <1>3, <1>4, Joint
<1>6. Len(a) \in Nat /\ Len(a) >= 1 /\ Len(r) \in Nat
  BY LenProperties, EmptySeq
<1>7. t # <<>>
  BY <1>5, <1>6
<1>8. t[1] = a[1]
  BY <1>5, <1>6
<1> QED
  BY <1>1, <1>4, <1>5, <1>7, <1>8, Zenon

\* A scheme in lower case is a scheme, and stays as it is.
LEMMA LowerScheme ==
  ASSUME NEW a \in Seq(SchemeChar), a # <<>>, a[1] \in Letters \cup Capitals
  PROVE  /\ ToLower(a) \in Seq(SchemeChar) /\ ToLower(a) # <<>>
         /\ ToLower(a)[1] \in Letters \cup Capitals
         /\ ToLower(ToLower(a)) = ToLower(a)
<1>1. PICK b : b = ToLower(a)
  OBVIOUS
<1>2. b = [i \in 1..Len(a) |-> IF a[i] = "A" THEN "a" ELSE a[i]]
  BY <1>1 DEF ToLower
<1>3. "a" \in SchemeChar /\ "a" \in Letters
  BY DEF SchemeChar, Alnum, Letters
<1>4. b \in Seq(SchemeChar) /\ Len(b) = Len(a)
  BY <1>2, <1>3
<1>5. \A i \in 1..Len(a) : b[i] # "A"
  BY <1>2
<1>6. PICK d : d = ToLower(b)
  OBVIOUS
<1>7. d = [i \in 1..Len(b) |-> IF b[i] = "A" THEN "a" ELSE b[i]]
  BY <1>4, <1>6 DEF ToLower
<1>8. d = [i \in 1..Len(b) |-> b[i]]
  BY <1>4, <1>5, <1>7
<1>9. d = b
  BY <1>4, <1>8
<1>10. Len(a) \in Nat /\ Len(a) >= 1
  OBVIOUS
<1>11. b # <<>>
  BY <1>4, <1>10
<1>12. b[1] \in Letters \cup Capitals
  BY <1>2, <1>3, <1>10
<1> QED
  BY <1>1, <1>4, <1>6, <1>9, <1>11, <1>12

\* OnlyMark of a text without a question mark, and of one with it.
LEMMA OnlyMarks ==
  ASSUME NEW S, "?" \in S
  PROVE  /\ \A s \in Seq(S \ {"?"}) : ~OnlyMark(s)
         /\ \A p \in Seq(S \ {"?"}), q \in Seq(S) : OnlyMark(p \o <<"?">> \o q) <=> q = <<>>
<1>1. ASSUME NEW s \in Seq(S \ {"?"}) PROVE ~OnlyMark(s)
  <2>1. IndexByte(s, "?") = 0
    BY NotFound
  <2>2. s # <<>> => Len(s) # 0
    OBVIOUS
  <2> QED
    BY <2>1, <2>2 DEF OnlyMark
<1>2. ASSUME NEW p \in Seq(S \ {"?"}), NEW q \in Seq(S)
      PROVE  OnlyMark(p \o <<"?">> \o q) <=> q = <<>>
  <2>1. PICK c : c = "?"
    OBVIOUS
  <2>2. c \in S /\ p \in Seq(S \ {c})
    BY <2>1
  <2>3. p \in Seq(S)
    BY <2>2
  <2>4. PICK s : s = p \o <<c>> \o q
    OBVIOUS
  <2>5. /\ s \in Seq(S) /\ Len(s) = Len(p) + 1 + Len(q)
        /\ s[Len(p) + 1] = c
    BY <2>2, <2>3, <2>4, Joint
  <2>6. IndexByte(s, c) = Len(p) + 1
    BY <2>2, <2>4, FirstFound
  <2>7. Len(p) \in Nat /\ Len(q) \in Nat /\ (q = <<>> <=> Len(q) = 0)
    BY <2>3, EmptySeq, LenProperties
  <2>8. s # <<>>
    BY <2>5, <2>7
  <2>9. OnlyMark(s) <=> s[Len(s)] = c /\ Len(p) + 1 = Len(s)
    BY <2>1, <2>6, <2>8 DEF OnlyMark, Last
  <2>10. OnlyMark(s) <=> q = <<>>
    BY <2>5, <2>7, <2>9
  <2> QED
    BY <2>1, <2>4, <2>10, Zenon
<1> QED
  BY <1>1, <1>2

\* A URI that Parse returns, by its parts; the user is still escaped.
UriOf(scheme, user, host, param, force, query) ==
    [Scheme |-> scheme, User |-> Unescape(user), Host |-> host, Path |-> <<>>,
     RawParameter |-> param, ForceQuery |-> force, RawQuery |-> query, Fragment |-> <<>>]

\* What the parts of a URI are.
UriParts(scheme, user, host, param, force, query) ==
    /\ scheme \in Seq(SchemeChar) /\ scheme # <<>> /\ scheme[1] \in Letters \cup Capitals
    /\ ToLower(scheme) = scheme
    /\ user = <<>> \/ \E s \in Seq(Char) : user = userinfo(s)
    /\ UserOK(user)
    /\ host \in Seq(Plain) /\ host # NoHost /\ parseHost(escape(host, "host")) = host
    /\ param \in Seq(AuthChar)
    /\ force \in BOOLEAN /\ query \in Seq(UriChar)
    /\ force => query = <<>>

\* What follows the scheme, taken apart at the question mark.
LEMMA RestParts ==
  ASSUME NEW r \in Seq(UriChar)
  PROVE  /\ split(r, "?")[1] \in Seq(RestChar)
         /\ split(r, "?")[2] \in Seq(UriChar)
         /\ OnlyMark(r) => split(r, "?")[2] = <<>>
<1>1. "?" \in UriChar /\ RestChar = UriChar \ {"?"}
  BY SchemeChars DEF RestChar
<1>2. PICK x : x = split(r, "?")
  OBVIOUS
<1>3. \/ /\ r \in Seq(UriChar \ {"?"})
         /\ x = <<r, <<>>>>
      \/ /\ x[1] \in Seq(UriChar \ {"?"})
         /\ x[2] \in Seq(UriChar)
         /\ r = x[1] \o <<"?">> \o x[2]
  <2>1. \/ /\ r \in Seq(UriChar \ {"?"})
           /\ split(r, "?") = <<r, <<>>>>
        \/ /\ "?" \in UriChar
           /\ split(r, "?")[1] \in Seq(UriChar \ {"?"})
           /\ split(r, "?")[2] \in Seq(UriChar)
           /\ r = split(r, "?")[1] \o <<"?">> \o split(r, "?")[2]
    BY SplitParts
  <2> QED
    BY <1>2, <2>1, Zenon
<1>4. CASE r \in Seq(UriChar \ {"?"}) /\ x = <<r, <<>>>>
  <2>1. x[1] = r /\ x[2] = <<>>
    BY <1>4
  <2>2. <<>> \in Seq(UriChar)
    OBVIOUS
  <2> QED
    BY <1>1, <1>2, <1>4, <2>1, <2>2, Zenon
<1>5. CASE /\ x[1] \in Seq(UriChar \ {"?"})
           /\ x[2] \in Seq(UriChar)
           /\ r = x[1] \o <<"?">> \o x[2]
  <2>1. OnlyMark(r) <=> x[2] = <<>>
    BY <1>1, <1>5, OnlyMarks
  <2> QED
    BY <1>1, <1>2, <1>5, <2>1, Zenon
<1> QED
  BY <1>3, <1>4, <1>5

\* The parts of a URI that parse accepts.
LEMMA ParsedParts ==
  ASSUME NEW c \in Seq(Char \ {"#"}), parse(c) # NoUri, parse(c).Scheme # <<>>
  PROVE  \E scheme, user, host, param, force, query :
             /\ UriParts(scheme, user, host, param, force, query)
             /\ parse(c) = UriOf(scheme, user, host, param, force, query)
<1>1. PICK sch : sch = getscheme(c)
  OBVIOUS
<1>2. PICK rest : rest = split(sch[2], "?")
  OBVIOUS
<1>3. PICK auth : auth = parseAuthority(rest[1])
  OBVIOUS
<1>4. ~(c = <<"*">>)
  <2> SUFFICES ASSUME c = <<"*">> PROVE FALSE
    OBVIOUS
  <2>1. PICK v : v = NewUri(<<>>, NoAuthority, FALSE, <<>>)
    OBVIOUS
  <2>2. parse(c) = [v EXCEPT !.Path = <<"*">>]
    <3>1. ~Has(c, Ctl) /\ ~MissingScheme(c)
      BY DEF Has, ToSet, MissingScheme, Ctl
    <3> QED
      BY <2>1, <3>1, Zenon DEF parse
  <2>3. ToLower(<<>>) = <<>>
    BY DEF ToLower
  <2>4. parse(c).Scheme = <<>>
    BY <2>1, <2>2, <2>3 DEF NewUri
  <2> QED
    BY <2>4
<1>5. ~(Has(c, Ctl) \/ MissingScheme(c))
  BY <1>4, Zenon DEF parse
<1>6. parse(c) = WithAuthority(sch[1], auth, OnlyMark(sch[2]), rest[2])
  BY <1>1, <1>2, <1>3, <1>4, <1>5, Zenon DEF parse
<1>7. authorityOK(auth) /\ parse(c) = NewUri(sch[1], auth, OnlyMark(sch[2]), rest[2])
  BY <1>6, Zenon DEF WithAuthority
<1>8. c \in Seq(UriChar)
  <2>1. c \in Seq((Char \ {"#"}) \ {Ctl})
    BY <1>5, HasNot
  <2>2. (Char \ {"#"}) \ {Ctl} \subseteq UriChar
    BY DEF UriChar
  <2> QED
    BY <2>1, <2>2, SeqSub
<1>9. parse(c).Scheme = ToLower(sch[1])
  BY <1>7 DEF NewUri
<1>10. sch[1] # <<>>
  <2>1. ToLower(<<>>) = <<>>
    BY DEF ToLower
  <2> QED
    BY <1>9, <2>1
<1>11. sch[1] \in Seq(SchemeChar) /\ sch[1][1] \in Letters \cup Capitals /\ sch[2] \in Seq(UriChar)
  BY <1>1, <1>8, <1>10, SchemeParts
<1>12. PICK scheme : scheme = ToLower(sch[1])
  OBVIOUS
<1>13. scheme \in Seq(SchemeChar) /\ scheme # <<>> /\ scheme[1] \in Letters \cup Capitals
       /\ ToLower(scheme) = scheme
  BY <1>10, <1>11, <1>12, LowerScheme
<1>14. /\ rest[1] \in Seq(RestChar) /\ rest[2] \in Seq(UriChar)
       /\ OnlyMark(sch[2]) => rest[2] = <<>>
  BY <1>2, <1>11, RestParts
<1>15. /\ auth.RawParameter \in Seq(AuthChar)
       /\ \E h \in Seq(Char) : auth.Host = parseHost(h)
       /\ auth.User = <<>> \/ \E s \in Seq(Char) : auth.User = userinfo(s)
  BY <1>3, <1>14, AuthorityParts
<1>16. auth.Host # NoHost /\ UserOK(auth.User)
  BY <1>7, Zenon DEF authorityOK, UserOK
<1>17. auth.Host \in Seq(Plain) /\ parseHost(escape(auth.Host, "host")) = auth.Host
  <2>1. PICK h \in Seq(Char) : auth.Host = parseHost(h)
    BY <1>15
  <2> QED
    BY <1>16, <2>1, HostSurvives
<1>18. OnlyMark(sch[2]) \in BOOLEAN
  BY DEF OnlyMark
<1>19. parse(c) = UriOf(scheme, auth.User, auth.Host, auth.RawParameter, OnlyMark(sch[2]), rest[2])
  BY <1>7, <1>12, Zenon DEF NewUri, UriOf, Unescape
<1>20. UriParts(scheme, auth.User, auth.Host, auth.RawParameter, OnlyMark(sch[2]), rest[2])
  BY <1>13, <1>14, <1>15, <1>16, <1>17, <1>18, Zenon DEF UriParts
<1> QED
  BY <1>19, <1>20, Zenon

\* What is written after the authority.
QueryText(force, query) == IF force \/ query # <<>> THEN <<"?">> \o query ELSE <<>>

\* A query is taken apart where it was joined, and so is an empty one.
LEMMA QueryFound ==
  ASSUME NEW a \in Seq(RestChar), NEW force \in BOOLEAN, NEW query \in Seq(UriChar),
         force => query = <<>>
  PROVE  /\ QueryText(force, query) \in Seq(UriChar)
         /\ a \o QueryText(force, query) \in Seq(UriChar)
         /\ split(a \o QueryText(force, query), "?") = <<a, query>>
         /\ OnlyMark(a \o QueryText(force, query)) <=> force
<1>1. PICK c : c = "?"
  OBVIOUS
<1>2. c \in UriChar /\ RestChar = UriChar \ {c}
  BY <1>1, SchemeChars DEF RestChar
<1>3. a \in Seq(UriChar \ {c})
  BY <1>2, Zenon
<1>4. a \in Seq(UriChar)
  BY <1>3
<1>5. PICK b : b = QueryText(force, query)
  OBVIOUS
<1>6. CASE force \/ query # <<>>
  <2>1. PICK x : x = <<c>>
    OBVIOUS
  <2>2. x \in Seq(UriChar)
    BY <1>2, <2>1
  <2>3. b = x \o query
    BY <1>1, <1>5, <1>6, <2>1, Zenon DEF QueryText
  <2>4. b \in Seq(UriChar)
    BY <2>2, <2>3, ConcatProperties
  <2>5. PICK ax : ax = a \o x
    OBVIOUS
  <2>6. ax \o query = a \o b
    BY <1>4, <2>2, <2>3, <2>5, Associative
  <2>7. a \o b = a \o <<c>> \o query
    BY <2>1, <2>5, <2>6, Zenon
  <2>8. a \o <<c>> \o query \in Seq(UriChar)
    BY <1>2, <1>4, JointSeq
  <2>9. split(a \o <<c>> \o query, c) = <<a, query>>
    BY <1>2, <1>3, SplitAt
  <2>10. OnlyMark(a \o <<c>> \o query) <=> query = <<>>
    BY <1>1, <1>2, <1>3, OnlyMarks
  <2>11. force <=> query = <<>>
    BY <1>6
  <2> QED
    BY <1>1, <1>5, <2>4, <2>7, <2>8, <2>9, <2>10, <2>11, Zenon
<1>7. CASE ~(force \/ query # <<>>)
  <2>1. b = <<>> /\ query = <<>> /\ ~force
    BY <1>5, <1>7 DEF QueryText
  <2>2. a \o <<>> = a
    BY <1>4, ConcatEmptySeq
  <2>3. split(a, c) = <<a, <<>>>>
    BY <1>3, SplitNone
  <2>4. ~OnlyMark(a)
    BY <1>1, <1>2, <1>3, OnlyMarks
  <2>5. <<>> \in Seq(UriChar)
    OBVIOUS
  <2> QED
    BY <1>1, <1>4, <1>5, <2>1, <2>2, <2>3, <2>4, <2>5, Zenon
<1> QED
  BY <1>6, <1>7

\* The parts of the authority are texts.
LEMMA AuthorityTypes ==
  ASSUME NEW user, user = <<>> \/ \E s \in Seq(Char) : user = userinfo(s),
         UserOK(user),
         NEW host \in Seq(Plain), NEW param \in Seq(AuthChar)
  PROVE  /\ UserText(Unescape(user)) \in Seq(UriChar)
         /\ escape(host, "host") \in Seq(UriChar)
         /\ ParamText(";", param) \in Seq(UriChar)
<1>1. AuthChar \subseteq UriChar
  BY DEF AuthChar, RestChar
<1>2. escape(host, "host") \in Seq(UriChar)
  <2>1. escape(host, "host") \in Seq(Escaped("host"))
    BY EscapeUnescape
  <2>2. Escaped("host") \subseteq UriChar
    BY EscapedChars
  <2> QED
    BY <2>1, <2>2, SeqSub
<1>3. param \in Seq(UriChar)
  BY <1>1, SeqSub
<1>4. PICK semi : semi = <<";">>
  OBVIOUS
<1>5. PICK at : at = <<"@">>
  OBVIOUS
<1>6. semi \in Seq(UriChar) /\ at \in Seq(UriChar)
  <2>1. ";" \in UriChar /\ "@" \in UriChar
    BY PlainChars DEF UriChar, Char, Ctl
  <2>2. <<";">> \in Seq(UriChar) /\ <<"@">> \in Seq(UriChar)
    BY <2>1, One
  <2> QED
    BY <1>4, <1>5, <2>2, Zenon
<1>7. ParamText(";", param) \in Seq(UriChar)
  <2>1. semi \o param \in Seq(UriChar)
    BY <1>3, <1>6, ConcatProperties
  <2>2. <<>> \in Seq(UriChar)
    OBVIOUS
  <2> QED
    BY <1>4, <2>1, <2>2, Zenon DEF ParamText
<1>8. UserText(Unescape(user)) \in Seq(UriChar)
  <2>1. CASE user = <<>>
    <3>1. Unescape(user) = <<>>
      BY <2>1, UserParts DEF Unescape
    <3>2. <<>> \in Seq(UriChar)
      OBVIOUS
    <3> QED
      BY <3>1, <3>2, Zenon DEF UserText
  <2>2. CASE user # <<>>
    <3>1. PICK s \in Seq(Char) : user = userinfo(s)
      BY <2>2
    <3>2. PICK y : y = UserString(Unescape(user))
      OBVIOUS
    <3>3. Unescape(user) # <<>> /\ y \in Seq(AuthChar)
      BY <3>1, <3>2, UserinfoSurvives
    <3>4. y \in Seq(UriChar)
      BY <1>1, <3>3, SeqSub
    <3>5. y \o at \in Seq(UriChar)
      BY <1>6, <3>4, ConcatProperties
    <3> QED
      BY <1>5, <3>2, <3>3, <3>5, Zenon DEF UserText
  <2> QED
    BY <2>1, <2>2
<1> QED
  BY <1>2, <1>7, <1>8

\* String, by the parts.
UriText(scheme, user, host, param, force, query) ==
    scheme \o <<":">>
    \o (AuthorityText(Unescape(user), host, param) \o QueryText(force, query))

\* ... is what String writes.
LEMMA StringOf ==
  ASSUME NEW scheme, NEW user, NEW host, NEW param, NEW force, NEW query,
         UriParts(scheme, user, host, param, force, query)
  PROVE  String(UriOf(scheme, user, host, param, force, query)) =
             UriText(scheme, user, host, param, force, query)
<1>1. PICK u : u = UriOf(scheme, user, host, param, force, query)
  OBVIOUS
<1>2. /\ u.Scheme = scheme /\ u.User = Unescape(user) /\ u.Host = host /\ u.Path = <<>>
      /\ u.RawParameter = param /\ u.ForceQuery = force /\ u.RawQuery = query
      /\ u.Fragment = <<>>
  BY <1>1 DEF UriOf
<1>3. scheme # <<>> /\ scheme \in Seq(UriChar)
  BY SchemeChars, SeqSub DEF UriParts
<1>4. PICK a : a = scheme \o <<":">>
  OBVIOUS
<1>5. PICK b : b = UserText(Unescape(user))
  OBVIOUS
<1>6. PICK c : c = escape(host, "host")
  OBVIOUS
<1>7. PICK d : d = ParamText(";", param)
  OBVIOUS
<1>8. PICK e : e = QueryText(force, query)
  OBVIOUS
<1>9. String(u) = a \o b \o c \o <<>> \o d \o e \o <<>>
  BY <1>2, <1>3, <1>4, <1>5, <1>6, <1>7, <1>8, Zenon
     DEF String, UserText, ParamText, QueryText
<1>10. a \in Seq(UriChar)
  <2>1. <<":">> \in Seq(UriChar)
    BY SchemeChars, One
  <2> QED
    BY <1>3, <1>4, <2>1, ConcatProperties
<1>11. b \in Seq(UriChar) /\ c \in Seq(UriChar) /\ d \in Seq(UriChar)
  BY <1>5, <1>6, <1>7, AuthorityTypes DEF UriParts
<1>12. e \in Seq(UriChar)
  <2>1. <<>> \in Seq(RestChar) /\ force \in BOOLEAN /\ query \in Seq(UriChar)
        /\ (force => query = <<>>)
    BY DEF UriParts
  <2> QED
    BY <1>8, <2>1, QueryFound
<1>13. a \o b \o c \o <<>> \o d \o e \o <<>> = a \o ((b \o (c \o d)) \o e)
  <2>1. PICK p : p = a \o b
    OBVIOUS
  <2>2. PICK q : q = p \o c
    OBVIOUS
  <2>3. PICK r : r = q \o d
    OBVIOUS
  <2>4. PICK t : t = r \o e
    OBVIOUS
  <2>5. p \in Seq(UriChar)
    BY <1>10, <1>11, <2>1, ConcatProperties
  <2>6. q \in Seq(UriChar)
    BY <1>11, <2>2, <2>5, ConcatProperties
  <2>7. r \in Seq(UriChar)
    BY <1>11, <2>3, <2>6, ConcatProperties
  <2>8. t \in Seq(UriChar)
    BY <1>12, <2>4, <2>7, ConcatProperties
  <2>9. q \o <<>> = q /\ t \o <<>> = t
    BY <2>6, <2>8, ConcatEmptySeq
  <2>x. PICK x : x = c \o d
    OBVIOUS
  <2>y. PICK y : y = b \o x
    OBVIOUS
  <2>z. PICK z : z = y \o e
    OBVIOUS
  <2>10. x \in Seq(UriChar)
    BY <1>11, <2>x, ConcatProperties
  <2>11. y \in Seq(UriChar)
    BY <1>11, <2>10, <2>y, ConcatProperties
  <2>12. q \o d = p \o x
    BY <1>11, <2>2, <2>5, <2>x, Associative
  <2>13. p \o x = a \o y
    BY <1>10, <1>11, <2>1, <2>10, <2>y, Associative
  <2>14. r = a \o y
    BY <2>3, <2>12, <2>13, Zenon
  <2>15. r \o e = a \o z
    BY <1>10, <1>12, <2>11, <2>14, <2>z, Associative
  <2> QED
    BY <2>1, <2>2, <2>3, <2>4, <2>9, <2>15, <2>x, <2>y, <2>z, Zenon
<1>14. AuthorityText(Unescape(user), host, param) = b \o (c \o d)
  BY <1>5, <1>6, <1>7, Zenon DEF AuthorityText, Optional
<1> QED
  BY <1>1, <1>4, <1>8, <1>9, <1>13, <1>14, Zenon DEF UriText

\* What is written for a URI has no fragment and no control character, begins with
\* the scheme, and is read as the same URI.
LEMMA WrittenIsRead ==
  ASSUME NEW scheme, NEW user, NEW host, NEW param, NEW force, NEW query,
         UriParts(scheme, user, host, param, force, query), ~Has(host, ";"),
         NEW t, t = String(UriOf(scheme, user, host, param, force, query))
  PROVE  /\ t \in Seq(UriChar) /\ t # <<>> /\ t[1] \in Letters \cup Capitals
         /\ parse(t) = UriOf(scheme, user, host, param, force, query)
<1>1. PICK a : a = AuthorityText(Unescape(user), host, param)
  OBVIOUS
<1>2. PICK r : r = a \o QueryText(force, query)
  OBVIOUS
<1>3. t = scheme \o <<":">> \o r
  <2>1. t = UriText(scheme, user, host, param, force, query)
    BY StringOf
  <2> QED
    BY <1>1, <1>2, <2>1, Zenon DEF UriText
<1>4. a \in Seq(RestChar)
  BY <1>1, AuthoritySurvives DEF UriParts
<1>5. PICK v : /\ UserOK(v) /\ Unescape(v) = Unescape(user)
               /\ parseAuthority(a) = [User |-> v, Host |-> host, RawParameter |-> param]
  BY <1>1, AuthoritySurvives DEF UriParts
<1>6. r \in Seq(UriChar) /\ split(r, "?") = <<a, query>> /\ (OnlyMark(r) <=> force)
  BY <1>2, <1>4, QueryFound DEF UriParts
<1>9. t \in Seq(UriChar) /\ t # <<>> /\ t[1] \in Letters \cup Capitals
  <2>1. scheme \in Seq(SchemeChar) /\ scheme # <<>> /\ scheme[1] \in Letters \cup Capitals
    BY DEF UriParts
  <2> QED
    <3>1. /\ scheme \o <<":">> \o r \in Seq(UriChar) /\ scheme \o <<":">> \o r # <<>>
          /\ (scheme \o <<":">> \o r)[1] \in Letters \cup Capitals
      BY <1>6, <2>1, SchemeWritten
    <3> QED
      BY <1>3, <3>1, Zenon
<1>11. t # <<"*">> /\ ~MissingScheme(t)
  <2>1. t[1] # "*" /\ t[1] # ":"
    BY <1>9, SchemeChars
  <2>2. <<"*">>[1] = "*"
    OBVIOUS
  <2> QED
    BY <2>1, <2>2, Zenon DEF MissingScheme
<1>12. ~Has(t, Ctl)
  <2>1. UriChar \subseteq UriChar \ {Ctl}
    BY DEF UriChar
  <2>2. t \in Seq(UriChar \ {Ctl})
    BY <1>9, <2>1, SeqSub
  <2> QED
    BY <1>9, <2>2, HasNot
<1>13. getscheme(t) = <<scheme, r>>
  <2>1. getscheme(scheme \o <<":">> \o r) = <<scheme, r>>
    BY <1>6, SchemeFound DEF UriParts
  <2> QED
    BY <1>3, <2>1, Zenon
<1>14. /\ getscheme(t)[1] = scheme /\ getscheme(t)[2] = r
       /\ split(r, "?")[1] = a /\ split(r, "?")[2] = query
  <2>1. <<scheme, r>>[1] = scheme /\ <<scheme, r>>[2] = r /\ <<a, query>>[1] = a /\ <<a, query>>[2] = query
    OBVIOUS
  <2> QED
    BY <1>6, <1>13, <2>1, Zenon
<1>15. OnlyMark(r) = force
  <2>1. OnlyMark(r) \in BOOLEAN /\ force \in BOOLEAN
    BY DEF OnlyMark, UriParts
  <2>2. CASE force
    BY <1>6, <2>1, <2>2, Zenon
  <2>3. CASE ~force
    BY <1>6, <2>1, <2>3, Zenon
  <2> QED
    BY <2>2, <2>3
<1>16. PICK auth : auth = parseAuthority(a)
  OBVIOUS
<1>17. parse(t) = WithAuthority(scheme, auth, force, query)
  BY <1>11, <1>12, <1>14, <1>15, <1>16, Zenon DEF parse
<1>18. auth.User = v /\ auth.Host = host /\ auth.RawParameter = param
  <2>1. auth = [User |-> v, Host |-> host, RawParameter |-> param]
    BY <1>5, <1>16
  <2> QED
    BY <2>1, Zenon
<1>19. authorityOK(auth)
  <2>1. host # NoHost
    BY DEF UriParts
  <2> QED
    BY <1>5, <1>18, <2>1, Zenon DEF authorityOK, UserOK
<1>20. ToLower(scheme) = scheme
  BY DEF UriParts
<1>21. parse(t) = UriOf(scheme, user, host, param, force, query)
  <2>1. parse(t) = NewUri(scheme, auth, force, query)
    BY <1>17, <1>19, Zenon DEF WithAuthority
  <2>2. NewUri(scheme, auth, force, query) =
            [Scheme |-> scheme, User |-> Unescape(v), Host |-> host, Path |-> <<>>,
             RawParameter |-> param, ForceQuery |-> force, RawQuery |-> query, Fragment |-> <<>>]
    BY <1>18, <1>20, Zenon DEF NewUri, Unescape
  <2> QED
    BY <1>5, <2>1, <2>2, Zenon DEF UriOf
<1> QED
  BY <1>9, <1>21

\* A record with the fields of a URI, without a fragment.
UriRecord(v1, v2, v3, v4, v5, v6, v7) ==
    [Scheme |-> v1, User |-> v2, Host |-> v3, Path |-> v4, RawParameter |-> v5,
     ForceQuery |-> v6, RawQuery |-> v7, Fragment |-> <<>>]

\* ... is what parse returns.
LEMMA ParsedRecord ==
  ASSUME NEW c, parse(c) # NoUri
  PROVE  \E v1, v2, v3, v4, v5, v6, v7 : parse(c) = UriRecord(v1, v2, v3, v4, v5, v6, v7)
<1>1. ASSUME NEW s, NEW a, NEW f, NEW q
      PROVE  NewUri(s, a, f, q) =
                 UriRecord(ToLower(s), Unescape(a.User), a.Host, <<>>, a.RawParameter, f, q)
  BY Zenon DEF NewUri, UriRecord, Unescape
<1>2. CASE c = <<"*">>
  <2>1. ~Has(c, Ctl) /\ ~MissingScheme(c)
    BY <1>2 DEF Has, ToSet, MissingScheme, Ctl
  <2>2. PICK v : v = NewUri(<<>>, NoAuthority, FALSE, <<>>)
    OBVIOUS
  <2>3. parse(c) = [v EXCEPT !.Path = <<"*">>]
    BY <1>2, <2>1, <2>2, Zenon DEF parse
  <2>4. PICK v1, v2, v3, v4, v5, v6, v7 : v = UriRecord(v1, v2, v3, v4, v5, v6, v7)
    <3>1. v = UriRecord(ToLower(<<>>), Unescape(NoAuthority.User), NoAuthority.Host, <<>>,
                        NoAuthority.RawParameter, FALSE, <<>>)
      BY <1>1, <2>2, Zenon
    <3> QED
      BY <3>1
  <2>5. PICK star : star = <<"*">>
    OBVIOUS
  <2>6. [v EXCEPT !.Path = star] = UriRecord(v1, v2, v3, star, v5, v6, v7)
    BY <2>4 DEF UriRecord
  <2>7. parse(c) = UriRecord(v1, v2, v3, star, v5, v6, v7)
    BY <2>3, <2>5, <2>6, Zenon
  <2> QED
    BY <2>7
<1>3. CASE c # <<"*">>
  <2>1. ~(Has(c, Ctl) \/ MissingScheme(c))
    BY <1>3, Zenon DEF parse
  <2>2. PICK s, a, f, q : parse(c) = WithAuthority(s, a, f, q)
    BY <1>3, <2>1, Zenon DEF parse
  <2>3. parse(c) = NewUri(s, a, f, q)
    BY <2>2, Zenon DEF WithAuthority
  <2>4. parse(c) = UriRecord(ToLower(s), Unescape(a.User), a.Host, <<>>, a.RawParameter, f, q)
    BY <1>1, <2>3, Zenon
  <2> QED
    BY <2>4
<1> QED
  BY <1>2, <1>3

\* ... so that an empty fragment changes nothing.
LEMMA EmptyFragment ==
  ASSUME NEW c, parse(c) # NoUri
  PROVE  /\ [parse(c) EXCEPT !.Fragment = <<>>] = parse(c)
         /\ \A f : [parse(c) EXCEPT !.Fragment = f].Fragment = f
         /\ parse(c).Fragment = <<>>
<1>1. PICK u : u = parse(c)
  OBVIOUS
<1>2. PICK v1, v2, v3, v4, v5, v6, v7 : u = UriRecord(v1, v2, v3, v4, v5, v6, v7)
  BY <1>1, ParsedRecord, Zenon
<1>3. [u EXCEPT !.Fragment = <<>>] = u
  BY <1>2 DEF UriRecord
<1>4. \A f : [u EXCEPT !.Fragment = f].Fragment = f
  BY <1>2 DEF UriRecord
<1>5. u.Fragment = <<>>
  BY <1>2 DEF UriRecord
<1> QED
  BY <1>1, <1>3, <1>4, <1>5, Zenon

\* Without a number sign, Parse is parse.
LEMMA NoFragment ==
  ASSUME NEW s \in Seq(Char \ {"#"})
  PROVE  Parse(s) = parse(s)
<1>1. split(s, "#") = <<s, <<>>>>
  BY SplitNone
<1>2. <<s, <<>>>>[1] = s /\ <<s, <<>>>>[2] = <<>>
  OBVIOUS
<1>3. Parse(s) = setFragment(parse(s), <<>>)
  BY <1>1, <1>2, Zenon DEF Parse
<1>4. unescape(<<>>) = <<>> /\ canUnescape(<<>>, "fragment")
  BY DEF unescape, canUnescape
<1>5. CASE parse(s) = NoUri
  BY <1>3, <1>5, Zenon DEF setFragment
<1>6. CASE parse(s) # NoUri
  <2>1. Parse(s) = [parse(s) EXCEPT !.Fragment = <<>>]
    BY <1>3, <1>4, <1>6, Zenon DEF setFragment
  <2> QED
    BY <1>6, <2>1, EmptyFragment, Zenon
<1> QED
  BY <1>5, <1>6

\* A URI whose fragment is empty is what parse returns for the rest.
LEMMA FragmentCut ==
  ASSUME NEW s \in Seq(Char), Parse(s) # NoUri, Parse(s).Fragment = <<>>
  PROVE  \E c \in Seq(Char \ {"#"}) : parse(c) # NoUri /\ Parse(s) = parse(c)
<1>1. PICK cut : cut = split(s, "#")
  OBVIOUS
<1>2. cut[1] \in Seq(Char \ {"#"})
  <2>1. \/ /\ s \in Seq(Char \ {"#"})
           /\ split(s, "#") = <<s, <<>>>>
        \/ /\ "#" \in Char
           /\ split(s, "#")[1] \in Seq(Char \ {"#"})
           /\ split(s, "#")[2] \in Seq(Char)
           /\ s = split(s, "#")[1] \o <<"#">> \o split(s, "#")[2]
    BY SplitParts
  <2>2. <<s, <<>>>>[1] = s
    OBVIOUS
  <2> QED
    BY <1>1, <2>1, <2>2, Zenon
<1>3. PICK c : c = cut[1]
  OBVIOUS
<1>4. Parse(s) = setFragment(parse(c), cut[2])
  BY <1>1, <1>3, Zenon DEF Parse
<1>5. parse(c) # NoUri /\ Parse(s) = [parse(c) EXCEPT !.Fragment = unescape(cut[2])]
  BY <1>4, Zenon DEF setFragment
<1>6. unescape(cut[2]) = <<>>
  BY <1>5, EmptyFragment, Zenon
<1>7. Parse(s) = parse(c)
  BY <1>5, <1>6, EmptyFragment, Zenon
<1> QED
  BY <1>2, <1>3, <1>5, <1>7, Zenon

\* A URI that is accepted is the same after String and Parse.
LEMMA UriIsStable ==
  ASSUME NEW c \in Seq(Char \ {"#"}), parse(c) # NoUri, parse(c).Scheme # <<>>,
         ~Has(parse(c).Host, ";")
  PROVE  /\ Parse(String(parse(c))) = parse(c)
         /\ String(parse(c)) \in Seq(UriChar)
         /\ String(parse(c)) # <<>> /\ String(parse(c))[1] \in Letters \cup Capitals
<1>1. PICK scheme, user, host, param, force, query :
          /\ UriParts(scheme, user, host, param, force, query)
          /\ parse(c) = UriOf(scheme, user, host, param, force, query)
  BY ParsedParts
<1>2. parse(c).Host = host
  <2>1. UriOf(scheme, user, host, param, force, query).Host = host
    BY DEF UriOf
  <2> QED
    BY <1>1, <2>1, Zenon
<1>3. ~Has(host, ";")
  BY <1>2, Zenon
<1>4. PICK t : t = String(UriOf(scheme, user, host, param, force, query))
  OBVIOUS
<1>5. /\ t \in Seq(UriChar) /\ t # <<>> /\ t[1] \in Letters \cup Capitals
      /\ parse(t) = UriOf(scheme, user, host, param, force, query)
  BY <1>1, <1>3, <1>4, WrittenIsRead
<1>6. t \in Seq(Char \ {"#"})
  <2>1. UriChar \subseteq Char \ {"#"}
    BY DEF UriChar
  <2> QED
    BY <1>5, <2>1, SeqSub
<1>7. Parse(t) = parse(t)
  BY <1>6, NoFragment
<1> QED
  BY <1>1, <1>4, <1>5, <1>7, Zenon

--------------------------------------------------------------------------------
(***************************************************************************)
(* The specification.                                                      *)
(***************************************************************************)

\* What is being sent is one of the parts, and the elements are of its kind.
TypeOK ==
    /\ part \in DOMAIN Parts
    /\ input \in Seq(Elements[Parts[part].what])

\* The peer sends elements of one kind (MessageSyntax.Send).
THEOREM InputTyped == Spec => []TypeOK
<1>1. Init => TypeOK
  BY PartsAssumption, Zenon DEF Init, TypeOK
<1>2. TypeOK /\ [Next]_vars => TypeOK'
  <2> SUFFICES ASSUME TypeOK, [Next]_vars PROVE TypeOK'
    OBVIOUS
  <2>1. CASE Next
    <3>1. PICK c \in Parts[part].elements : Send(c)
      BY <2>1 DEF Next
    <3>2. c \in Elements[Parts[part].what]
      BY <3>1, PartsAssumption DEF TypeOK
    <3>3. Append(input, c) \in Seq(Elements[Parts[part].what])
      BY <3>2, AppendProperties DEF TypeOK
    <3> QED
      BY <3>1, <3>3, Zenon DEF Send, TypeOK
  <2>2. CASE UNCHANGED vars
    BY <2>2 DEF vars, TypeOK
  <2> QED
    BY <2>1, <2>2
<1> QED
  BY <1>1, <1>2, PTL DEF Spec

\* The URI that the peer sent is the same after String and Parse, whatever it is
\* (uri.go 457-815).
THEOREM UriIsKept == Spec => []UriSurvives
<1>1. TypeOK => UriSurvives
  <2> SUFFICES ASSUME TypeOK, Sent("uri"), Parse(input) # NoUri, Parse(input).Scheme # <<>>,
                      ~Has(input, "#"), ~Has(Parse(input).Host, ";")
               PROVE  Parse(String(Parse(input))) = Parse(input)
    BY Zenon DEF UriSurvives
  <2>1. Elements["uri"] = Char
    BY DEF Elements
  <2>2. input \in Seq(Char)
    BY <2>1, Zenon DEF TypeOK, Sent
  <2>3. input \in Seq(Char \ {"#"})
    BY <2>2, HasNot
  <2>4. Parse(input) = parse(input)
    BY <2>3, NoFragment
  <2> QED
    BY <2>3, <2>4, UriIsStable, Zenon
<1> QED
  BY <1>1, InputTyped, PTL

--------------------------------------------------------------------------------
(***************************************************************************)
(* The body.                                                               *)
(***************************************************************************)

\* Before the first line, and after one more.
NoneRead == <<0, 0>>
OneMore(r, size, total) == <<r[1] + size, Refill(r[2], r[1], size, total)>>

\* The function that ReadLines defines, for the first n lines.
Reads(sizes, total, n, f) ==
    f = [i \in 0..n |-> IF i = 0 THEN NoneRead ELSE OneMore(f[i - 1], sizes[i], total)]

\* There is such a function.
LEMMA ReadsExists ==
  ASSUME NEW sizes, NEW total
  PROVE  \A n \in Nat : \E f : Reads(sizes, total, n, f)
<1> DEFINE T == {n \in Nat : ~\E f : Reads(sizes, total, n, f)}
<1> SUFFICES ASSUME T # {} PROVE FALSE
  OBVIOUS
<1>1. PICK n \in T : \A k \in T : n <= k
  BY Least
<1>2. n # 0
  <2>1. Reads(sizes, total, 0, [i \in 0..0 |-> NoneRead])
    BY DEF Reads
  <2> QED
    BY <2>1
<1>3. PICK f : Reads(sizes, total, n - 1, f)
  <2>1. n - 1 \in Nat /\ n - 1 \notin T
    BY <1>1, <1>2
  <2> QED
    BY <2>1
<1> DEFINE g == [i \in 0..n |-> IF i = n THEN OneMore(f[n - 1], sizes[n], total) ELSE f[i]]
<1>4. Reads(sizes, total, n, g)
  BY <1>2, <1>3 DEF Reads
<1> QED
  BY <1>4

\* ReadLines, line by line.
LEMMA ReadLinesSteps ==
  ASSUME NEW sizes, NEW N \in Nat, N = Len(sizes), NEW total
  PROVE  \E f : /\ ReadLines(sizes, total) = f[N]
                /\ f[0] = NoneRead
                /\ \A i \in 1..N : f[i] = OneMore(f[i - 1], sizes[i], total)
<1>2. PICK f : f = CHOOSE g : Reads(sizes, total, N, g)
  OBVIOUS
<1>3. Reads(sizes, total, N, f)
  BY <1>2, ReadsExists
<1>4. ReadLines(sizes, total) = f[N]
  BY <1>2 DEF ReadLines, Reads, OneMore, NoneRead
<1>5. \A i \in 0..N : f[i] = IF i = 0 THEN NoneRead ELSE OneMore(f[i - 1], sizes[i], total)
  BY <1>3 DEF Reads
<1>6. f[0] = NoneRead
  BY <1>5
<1>7. ASSUME NEW i \in 1..N PROVE f[i] = OneMore(f[i - 1], sizes[i], total)
  BY <1>5
<1> QED
  BY <1>4, <1>6, <1>7

\* Induction up to N, and down from N.
LEMMA StepByStep ==
  ASSUME NEW N \in Nat, NEW S, 0 \in S, \A i \in 1..N : i - 1 \in S => i \in S
  PROVE  \A i \in 0..N : i \in S
<1> DEFINE T == {i \in Nat : i <= N /\ i \notin S}
<1> SUFFICES ASSUME T # {} PROVE FALSE
  OBVIOUS
<1>1. PICK i \in T : \A k \in T : i <= k
  BY Least
<1>2. i # 0 /\ i \in 1..N
  BY <1>1
<1>3. i - 1 \in Nat /\ i - 1 <= N /\ i - 1 \notin T
  BY <1>1, <1>2
<1> QED
  BY <1>1, <1>2, <1>3

\* The same downwards: a set that holds N, and i - 1 with every i, holds all of 0..N.
LEMMA StepByStepDown ==
  ASSUME NEW N \in Nat, NEW S, N \in S, \A i \in 1..N : i \in S => i - 1 \in S
  PROVE  \A i \in 0..N : i \in S
<1> DEFINE T == {k \in Nat : k <= N /\ N - k \notin S}
<1>1. T = {}
  <2> SUFFICES ASSUME T # {} PROVE FALSE
    OBVIOUS
  <2>1. PICK k \in T : \A j \in T : k <= j
    BY Least
  <2>2. k # 0
    BY <2>1
  <2>3. k - 1 \in Nat /\ k - 1 <= N /\ k - 1 \notin T
    BY <2>1, <2>2
  <2>4. N - (k - 1) \in S /\ N - (k - 1) \in 1..N /\ (N - (k - 1)) - 1 = N - k
    BY <2>1, <2>2, <2>3
  <2> QED
    BY <2>1, <2>4
<1>2. ASSUME NEW i \in 0..N PROVE i \in S
  <2>1. N - i \in Nat /\ N - i <= N /\ N - (N - i) = i
    OBVIOUS
  <2> QED
    BY <1>1, <2>1
<1> QED
  BY <1>2

\* A sum that grows.
LEMMA Growing ==
  ASSUME NEW N \in Nat, NEW p, NEW s, p[0] \in Nat,
         \A i \in 1..N : s[i] \in Nat /\ p[i] = p[i - 1] + s[i]
  PROVE  \A i \in 0..N : p[i] \in Nat /\ p[i] <= p[N]
<1> DEFINE S == {i \in 0..N : p[i] \in Nat}
<1>1. \A i \in 0..N : i \in S
  <2>1. 0 \in S
    OBVIOUS
  <2>2. \A i \in 1..N : i - 1 \in S => i \in S
    OBVIOUS
  <2> HIDE DEF S
  <2> QED
    BY <2>1, <2>2, StepByStep
<1>2. \A i \in 0..N : p[i] \in Nat
  BY <1>1
<1> DEFINE R == {i \in 0..N : p[i] <= p[N]}
<1>3. \A i \in 0..N : i \in R
  <2>1. N \in R
    BY <1>2
  <2>2. ASSUME NEW i \in 1..N, i \in R PROVE i - 1 \in R
    <3>1. i \in 0..N /\ i - 1 \in 0..N /\ N \in 0..N
      OBVIOUS
    <3>2. p[i] \in Nat /\ p[i - 1] \in Nat /\ p[N] \in Nat /\ s[i] \in Nat
      BY <3>1, <1>2
    <3>3. p[i] <= p[N]
      BY <2>2
    <3> QED
      BY <3>1, <3>2, <3>3
  <2>3. \A i \in 1..N : i \in R => i - 1 \in R
    BY <2>2
  <2> HIDE DEF R
  <2> QED
    BY <2>1, <2>3, StepByStepDown
<1> QED
  BY <1>2, <1>3

\* A number below the divisor.
LEMMA NoPieces ==
  ASSUME NEW a \in Nat, NEW b \in Nat \ {0}, a < b
  PROVE  b * (a \div b) = 0
<1>1. a \div b = 0
  BY SMTT(30)
<1> QED
  BY <1>1

\* A datagram that fits into the buffer is buffered by the first line that is
\* read.
LEMMA FirstRefill ==
  ASSUME NEW size \in Nat \ {0}, NEW total \in Nat, size <= total, total <= BufSize
  PROVE  Refill(0, 0, size, total) = total
<1>1. BufSize \in Nat \ {0} /\ size - 1 \in Nat /\ size - 1 < BufSize
  BY BufferAssumption
<1>2. BufSize * ((size - 1) \div BufSize) = 0
  BY <1>1, NoPieces
<1>3. Refill(0, 0, size, total) = Min({total, 0 + 0 + BufSize})
  <2>1. ~(0 + size <= 0)
    OBVIOUS
  <2> QED
    BY <2>1, <1>2, Zenon DEF Refill
<1>4. PICK b : b = 0 + 0 + BufSize
  OBVIOUS
<1>5. b \in Nat /\ total <= b
  BY <1>1, <1>4
<1>6. Min({total, b}) = total
  BY <1>5, MinIsLeast
<1> QED
  BY <1>3, <1>4, <1>6

\* p adds the sizes up; b is up to where the datagram is buffered on the way.
Adds(N, p, s) == \A i \in 1..N : p[i] = p[i - 1] + s[i]
Refills(N, b, p, s, total) == \A i \in 1..N : b[i] = Refill(b[i - 1], p[i - 1], s[i], total)

\* Two sums of the same sizes.
LEMMA SameSums ==
  ASSUME NEW N \in Nat, NEW p, NEW q, NEW s, p[0] = 0, q[0] = 0, Adds(N, p, s), Adds(N, q, s)
  PROVE  \A i \in 0..N : q[i] = p[i]
<1> DEFINE S == {i \in 0..N : q[i] = p[i]}
<1>1. 0 \in S
  OBVIOUS
<1>2. ASSUME NEW i \in 1..N, i - 1 \in S PROVE i \in S
  <2>1. i \in 0..N /\ q[i - 1] = p[i - 1]
    BY <1>2
  <2>2. q[i] = p[i]
    BY <2>1, Zenon DEF Adds
  <2> QED
    BY <2>1, <2>2
<1>3. \A i \in 1..N : i - 1 \in S => i \in S
  BY <1>2
<1> HIDE DEF S
<1>4. \A i \in 0..N : i \in S
  BY <1>1, <1>3, StepByStep
<1> QED
  BY <1>4 DEF S

\* The positions after each line, and up to where the datagram is buffered when
\* it fits into the buffer.
LEMMA Buffered ==
  ASSUME NEW N \in Nat, NEW p, NEW b, NEW s, NEW total \in Nat,
         total <= BufSize, p[0] = 0, b[0] = 0, p[N] <= total,
         \A i \in 1..N : s[i] \in Nat \ {0},
         Adds(N, p, s), Refills(N, b, p, s, total)
  PROVE  \A i \in 1..N : b[i] = total
<1>1. \A i \in 0..N : p[i] \in Nat /\ p[i] <= p[N]
  BY Growing DEF Adds
<1> DEFINE S == {i \in 0..N : i = 0 \/ b[i] = total}
<1>2. 0 \in S
  OBVIOUS
<1>3. ASSUME NEW i \in 1..N, i - 1 \in S PROVE i \in S
  <2>1. i \in 0..N /\ i - 1 \in 0..N /\ N \in 0..N
    OBVIOUS
  <2>2. p[i] \in Nat /\ p[i] <= p[N] /\ p[i - 1] \in Nat /\ p[N] \in Nat
    BY <2>1, <1>1
  <2>3. PICK size : size = s[i]
    OBVIOUS
  <2>4. size \in Nat \ {0} /\ p[i] = p[i - 1] + size
    BY <2>3 DEF Adds
  <2>5. p[i - 1] + size <= total
    BY <2>2, <2>4
  <2>6. b[i] = Refill(b[i - 1], p[i - 1], size, total)
    BY <2>3 DEF Refills
  <2>7. CASE i = 1
    <3>1. p[i - 1] = 0 /\ b[i - 1] = 0 /\ size <= total
      BY <2>4, <2>5, <2>7
    <3>2. Refill(0, 0, size, total) = total
      BY <3>1, <2>4, FirstRefill
    <3>3. b[i] = total
      BY <3>1, <3>2, <2>6
    <3> QED
      BY <2>1, <3>3
  <2>8. CASE i # 1
    <3>1. b[i - 1] = total
      BY <2>8, <1>3
    <3>2. b[i] = total
      BY <3>1, <2>5, <2>6, Zenon DEF Refill
    <3> QED
      BY <2>1, <3>2
  <2> QED
    BY <2>7, <2>8
<1>4. \A i \in 1..N : i - 1 \in S => i \in S
  BY <1>3
<1> HIDE DEF S
<1>5. \A i \in 0..N : i \in S
  BY <1>2, <1>4, StepByStep
<1> QED
  BY <1>5 DEF S

\* The body is what is left of the datagram after the lines of the header.
LEMMA BodyRead ==
  ASSUME NEW sizes \in Seq(Nat \ {0}), NEW n \in Nat, SumOf(sizes) + n <= BufSize
  PROVE  bodyLength(sizes, n) = n
<1>0. PICK N : N = Len(sizes)
  OBVIOUS
<1>1. N \in Nat /\ N = Len(sizes) /\ \A i \in 1..N : sizes[i] \in Nat \ {0}
  BY <1>0
<1>2. PICK total : total = SumOf(sizes) + n
  OBVIOUS
<1>a. \A t : \E f : /\ ReadLines(sizes, t) = f[N]
                    /\ f[0] = NoneRead
                    /\ \A i \in 1..N : f[i] = OneMore(f[i - 1], sizes[i], t)
  BY <1>1, ReadLinesSteps
<1>3. PICK g : /\ ReadLines(sizes, 0) = g[N]
               /\ g[0] = NoneRead
               /\ \A i \in 1..N : g[i] = OneMore(g[i - 1], sizes[i], 0)
  BY <1>a, Zenon
<1>4. PICK f : /\ ReadLines(sizes, total) = f[N]
               /\ f[0] = NoneRead
               /\ \A i \in 1..N : f[i] = OneMore(f[i - 1], sizes[i], total)
  BY <1>a, Zenon
<1>5. PICK q : q = [i \in 0..N |-> g[i][1]]
  OBVIOUS
<1>6. PICK p : p = [i \in 0..N |-> f[i][1]]
  OBVIOUS
<1>7. PICK b : b = [i \in 0..N |-> f[i][2]]
  OBVIOUS
<1>8. p[0] = 0 /\ b[0] = 0 /\ q[0] = 0
  BY <1>1, <1>3, <1>4, <1>5, <1>6, <1>7 DEF NoneRead
<1>9. ASSUME NEW i \in 1..N
      PROVE  /\ q[i] = q[i - 1] + sizes[i]
             /\ p[i] = p[i - 1] + sizes[i]
             /\ b[i] = Refill(b[i - 1], p[i - 1], sizes[i], total)
  <2>1. i \in 0..N /\ i - 1 \in 0..N
    BY <1>1
  <2>2. g[i][1] = g[i - 1][1] + sizes[i]
    BY <1>3 DEF OneMore
  <2>3. f[i][1] = f[i - 1][1] + sizes[i]
    BY <1>4 DEF OneMore
  <2>4. f[i][2] = Refill(f[i - 1][2], f[i - 1][1], sizes[i], total)
    BY <1>4 DEF OneMore
  <2> QED
    BY <2>1, <2>2, <2>3, <2>4, <1>5, <1>6, <1>7, Zenon
<1>10. Adds(N, q, sizes)
  BY <1>9 DEF Adds
<1>11. Adds(N, p, sizes)
  BY <1>9 DEF Adds
<1>12. Refills(N, b, p, sizes, total)
  BY <1>9 DEF Refills
<1>13. p[N] = q[N]
  <2>1. \A i \in 0..N : q[i] = p[i]
    BY <1>1, <1>8, <1>10, <1>11, SameSums
  <2> QED
    BY <2>1, <1>1
<1>14. p[N] \in Nat
  <2>1. \A i \in 1..N : sizes[i] \in Nat /\ p[i] = p[i - 1] + sizes[i]
    BY <1>1, <1>11 DEF Adds
  <2>2. p[0] \in Nat
    BY <1>8
  <2>3. \A i \in 0..N : p[i] \in Nat /\ p[i] <= p[N]
    BY <1>1, <2>1, <2>2, Growing
  <2> QED
    BY <2>3, <1>1
<1>15. SumOf(sizes) = p[N]
  <2>1. q[N] = g[N][1]
    BY <1>1, <1>5
  <2> QED
    BY <2>1, <1>13, <1>3, Zenon DEF SumOf
<1>16. total = p[N] + n /\ total \in Nat /\ total <= BufSize /\ p[N] <= total
  BY <1>14, <1>15, <1>2
<1>17. \A i \in 1..N : b[i] = total
  BY <1>1, <1>8, <1>11, <1>12, <1>16, Buffered
<1>18. PICK r : r = ReadLines(sizes, total)
  OBVIOUS
<1>19. r[1] = p[N] /\ r[2] = b[N]
  BY <1>18, <1>4, <1>1, <1>6, <1>7
<1>20. bodyLength(sizes, n) = IF r[1] < r[2] THEN Min({Room, r[2] - r[1]}) ELSE Min({Room, total - r[1]})
  BY <1>2, <1>18, Zenon DEF bodyLength
<1>21. bodyLength(sizes, n) = Min({Room, n})
  <2>1. total - r[1] = n
    BY <1>14, <1>16, <1>19
  <2>2. CASE r[1] < r[2]
    <3>1. N # 0
      BY <1>8, <1>19, <2>2
    <3>2. r[2] = total
      BY <3>1, <1>1, <1>17, <1>19
    <3> QED
      BY <2>1, <2>2, <3>2, <1>20, Zenon
  <2>3. CASE ~(r[1] < r[2])
    BY <2>1, <2>3, <1>20, Zenon
  <2> QED
    BY <2>2, <2>3
<1>22. Room \in Nat /\ n <= Room
  BY <1>14, <1>16, BufferAssumption
<1>23. Min({Room, n}) = n
  <2>1. {Room, n} \in SUBSET Nat /\ {Room, n} # {}
    BY <1>22
  <2>2. Min({Room, n}) \in {Room, n} /\ Min({Room, n}) <= n
    BY <2>1, MinIsLeast
  <2> QED
    BY <2>2, <1>22
<1> QED
  BY <1>21, <1>23

\* The body of a datagram that fits into the buffer is read to its end, whatever
\* the lines of its header are long: for every size of the buffer and of Body that
\* is no smaller.
THEOREM BodyIsKept == Spec => []BodyIsWhole
<1>1. TypeOK => BodyIsWhole
  <2> SUFFICES ASSUME TypeOK, Sent("sizes"), NEW n \in 0..MaxBody, SumOf(input) + n <= BufSize
               PROVE  bodyLength(input, n) = n
    BY DEF BodyIsWhole
  <2>1. input \in Seq(Nat \ {0})
    BY DEF TypeOK, Sent, Elements
  <2>2. n \in Nat
    OBVIOUS
  <2> QED
    BY <2>1, <2>2, BodyRead
<1> QED
  BY <1>1, InputTyped, PTL

--------------------------------------------------------------------------------
(***************************************************************************)
(* Texts that are put together.                                            *)
(***************************************************************************)
\* The function that FlattenSeq defines, for the first n texts.
Flattens(seqs, n, f) ==
    f = [i \in 1..n |-> IF i = 1 THEN seqs[i] ELSE f[i - 1] \o seqs[i]]

\* There is such a function.
LEMMA FlattensExists ==
  ASSUME NEW seqs
  PROVE  \A n \in Nat : \E f : Flattens(seqs, n, f)
<1> DEFINE T == {n \in Nat : ~\E f : Flattens(seqs, n, f)}
<1> SUFFICES ASSUME T # {} PROVE FALSE
  OBVIOUS
<1>1. PICK n \in T : \A k \in T : n <= k
  BY Least
<1>2. n # 0
  <2>1. Flattens(seqs, 0, [i \in 1..0 |-> seqs])
    BY DEF Flattens
  <2> QED
    BY <2>1
<1>3. PICK f : Flattens(seqs, n - 1, f)
  <2>1. n - 1 \in Nat /\ n - 1 \notin T
    BY <1>1, <1>2
  <2> QED
    BY <2>1
<1>4. PICK last : last = IF n = 1 THEN seqs[n] ELSE f[n - 1] \o seqs[n]
  OBVIOUS
<1> DEFINE g == [i \in 1..n |-> IF i = n THEN last ELSE f[i]]
<1>5. Flattens(seqs, n, g)
  <2>1. ASSUME NEW i \in 1..n PROVE g[i] = IF i = 1 THEN seqs[i] ELSE g[i - 1] \o seqs[i]
    <3>1. CASE i = n
      <4>1. n # 1 => g[n - 1] = f[n - 1]
        BY <1>2
      <4> QED
        BY <3>1, <4>1, <1>4
    <3>2. CASE i # n
      <4>1. i \in 1..(n - 1) /\ g[i] = f[i]
        BY <3>2
      <4>2. f[i] = IF i = 1 THEN seqs[i] ELSE f[i - 1] \o seqs[i]
        BY <4>1, <1>3 DEF Flattens
      <4>3. i # 1 => g[i - 1] = f[i - 1]
        BY <3>2
      <4> QED
        BY <4>1, <4>2, <4>3, Zenon
    <3> QED
      BY <3>1, <3>2
  <2>2. g = [i \in 1..n |-> g[i]]
    OBVIOUS
  <2> HIDE DEF g
  <2> QED
    BY <2>1, <2>2 DEF Flattens
<1> QED
  BY <1>5

\* FlattenSeq, text by text.
LEMMA FlattenSteps ==
  ASSUME NEW seqs, NEW N \in Nat \ {0}, N = Len(seqs)
  PROVE  \E f : /\ FlattenSeq(seqs) = f[N]
                /\ f[1] = seqs[1]
                /\ \A i \in 2..N : f[i] = f[i - 1] \o seqs[i]
<1>1. PICK f : f = CHOOSE g : Flattens(seqs, N, g)
  OBVIOUS
<1>2. Flattens(seqs, N, f)
  BY <1>1, FlattensExists
<1>3. FlattenSeq(seqs) = f[N]
  BY <1>1 DEF FlattenSeq, Flattens
<1>4. \A i \in 1..N : f[i] = IF i = 1 THEN seqs[i] ELSE f[i - 1] \o seqs[i]
  BY <1>2 DEF Flattens
<1>5. f[1] = seqs[1]
  BY <1>4
<1>6. ASSUME NEW i \in 2..N PROVE f[i] = f[i - 1] \o seqs[i]
  <2>1. i \in 1..N /\ i # 1
    OBVIOUS
  <2> QED
    BY <1>4, <2>1
<1> QED
  BY <1>3, <1>5, <1>6

\* What is put together from texts is a text.
LEMMA FlattenOver ==
  ASSUME NEW S, NEW seqs, NEW N \in Nat \ {0}, N = Len(seqs), \A i \in 1..N : seqs[i] \in Seq(S)
  PROVE  FlattenSeq(seqs) \in Seq(S)
<1>1. PICK f : /\ FlattenSeq(seqs) = f[N]
               /\ f[1] = seqs[1]
               /\ \A i \in 2..N : f[i] = f[i - 1] \o seqs[i]
  BY FlattenSteps, Zenon
<1> DEFINE G == {i \in 0..N : i = 0 \/ f[i] \in Seq(S)}
<1>2. 0 \in G
  OBVIOUS
<1>3. ASSUME NEW i \in 1..N, i - 1 \in G PROVE i \in G
  <2>1. CASE i = 1
    BY <2>1, <1>1
  <2>2. CASE i # 1
    <3>1. i \in 2..N /\ f[i - 1] \in Seq(S) /\ seqs[i] \in Seq(S)
      BY <2>2, <1>3
    <3>2. PICK a : a = f[i - 1]
      OBVIOUS
    <3>3. PICK b : b = seqs[i]
      OBVIOUS
    <3>4. a \o b \in Seq(S)
      BY <3>1, <3>2, <3>3, ConcatProperties
    <3>5. f[i] = a \o b
      BY <3>1, <3>2, <3>3, <1>1, Zenon
    <3>6. f[i] \in Seq(S)
      BY <3>4, <3>5, Zenon
    <3>7. i \in 0..N
      OBVIOUS
    <3> QED
      BY <3>6, <3>7, Zenon
  <2> QED
    BY <2>1, <2>2
<1>4. \A i \in 1..N : i - 1 \in G => i \in G
  BY <1>3
<1>5. N \in G
  <2>1. N \in Nat /\ N \in 0..N
    OBVIOUS
  <2> HIDE DEF G
  <2>2. \A i \in 0..N : i \in G
    BY <2>1, <1>2, <1>4, StepByStep
  <2> QED
    BY <2>1, <2>2
<1> QED
  BY <1>1, <1>5

\* Putting sequences over a set one behind the other gives a sequence over it.
LEMMA FlattenType ==
  ASSUME NEW S, NEW seqs \in Seq(Seq(S))
  PROVE  FlattenSeq(seqs) \in Seq(S)
<1>1. PICK T : T = Seq(S)
  OBVIOUS
<1>2. seqs \in Seq(T)
  BY <1>1, Zenon
<1>3. Len(seqs) \in Nat /\ \A i \in 1..Len(seqs) : seqs[i] \in T
  BY <1>2
<1>4. CASE Len(seqs) = 0
  <2>1. FlattenSeq(seqs) = seqs /\ seqs = <<>>
    BY <1>2, <1>4, EmptySeq DEF FlattenSeq
  <2>2. <<>> \in Seq(S)
    OBVIOUS
  <2> QED
    BY <2>1, <2>2, Zenon
<1>5. CASE Len(seqs) # 0
  <2>1. PICK N : N = Len(seqs)
    OBVIOUS
  <2>2. N \in Nat \ {0} /\ N = Len(seqs) /\ \A i \in 1..N : seqs[i] \in Seq(S)
    BY <1>1, <1>3, <1>5, <2>1, Zenon
  <2> QED
    BY <2>2, FlattenOver, Zenon
<1> QED
  BY <1>4, <1>5

\* What Trim leaves, and a text that is not changed by it.
LEMMA Trimmed ==
  ASSUME NEW S, NEW s \in Seq(S), NEW cut
  PROVE  /\ Trim(s, cut) \in Seq(S)
         /\ Trim(s, cut) # <<>> => /\ Trim(s, cut)[1] \notin cut
                                   /\ Trim(s, cut)[Len(Trim(s, cut))] \notin cut
<1>1. PICK l : l = TrimLeft(s, cut)
  OBVIOUS
<1>2. l \in Seq(S) /\ (l # <<>> => l[1] \notin cut)
  BY <1>1, TrimLeftParts
<1>3. PICK t : /\ t = TrimRight(l, cut)
               /\ t \in Seq(S)
               /\ t # <<>> => t[Len(t)] \notin cut
               /\ Len(t) <= Len(l) /\ \A i \in 1..Len(t) : t[i] = l[i]
  <2>1. l \in Seq(S)
    BY <1>2
  <2> QED
    BY <2>1, TrimRightParts
<1>4. /\ t \in Seq(S)
      /\ t # <<>> => t[Len(t)] \notin cut
      /\ Len(t) <= Len(l) /\ \A i \in 1..Len(t) : t[i] = l[i]
  BY <1>3, Zenon
<1>5. Trim(s, cut) = t
  BY <1>1, <1>3 DEF Trim
<1>6. t # <<>> => t[1] \notin cut
  <2> SUFFICES ASSUME t # <<>> PROVE t[1] \notin cut
    OBVIOUS
  <2>1. 1 \in 1..Len(t) /\ l # <<>>
    BY <1>2, <1>4
  <2> QED
    BY <2>1, <1>2, <1>4
<1> QED
  BY <1>4, <1>5, <1>6

\* strings.Trim takes off what is to be cut at both ends, and stops at the text.
LEMMA TrimOf ==
  ASSUME NEW S, NEW cut, NEW a \in Seq(S), NEW t \in Seq(S), NEW b \in Seq(S), t # <<>>,
         \A i \in 1..Len(a) : a[i] \in cut,
         \A i \in 1..Len(b) : b[i] \in cut,
         t[1] \notin cut, t[Len(t)] \notin cut
  PROVE  Trim(a \o (t \o b), cut) = t
<1>1. PICK r : r = t \o b
  OBVIOUS
<1>2. r \in Seq(S) /\ r # <<>> /\ r[1] = t[1]
  BY <1>1
<1>3. TrimLeft(a \o r, cut) = r
  BY <1>2, TrimLeftOf
<1>4. TrimRight(t \o b, cut) = t
  BY TrimRightOf
<1> QED
  BY <1>1, <1>3, <1>4 DEF Trim

\* strings.Trim leaves a text alone that neither begins nor ends with what is cut.
LEMMA TrimNothing ==
  ASSUME NEW S, NEW cut, NEW t \in Seq(S),
         t # <<>> => t[1] \notin cut /\ t[Len(t)] \notin cut
  PROVE  Trim(t, cut) = t
<1>1. PICK e : e = <<>>
  OBVIOUS
<1>2. e \in Seq(S) /\ Len(e) = 0 /\ e \o t = t /\ t \o e = t
  BY <1>1
<1>3. TrimLeft(e \o t, cut) = t
  <2>1. \A i \in 1..Len(e) : e[i] \in cut
    BY <1>2
  <2>2. e \in Seq(S)
    BY <1>2
  <2> QED
    BY <2>1, <2>2, TrimLeftOf, Zenon
<1>4. TrimRight(t \o e, cut) = t
  <2>1. \A i \in 1..Len(e) : e[i] \in cut
    BY <1>2
  <2>2. e \in Seq(S)
    BY <1>2
  <2> QED
    BY <2>1, <2>2, TrimRightOf, Zenon
<1> QED
  BY <1>2, <1>3, <1>4 DEF Trim

--------------------------------------------------------------------------------
(***************************************************************************)
(* Addresses.                                                              *)
(***************************************************************************)
\* An address in brackets: what is before them, the URI, and what follows.
Layout(b, u, p) == b \o <<"<">> \o (u \o <<">">> \o p)

Bracket == {" ", "<", ">"}
AroundName == {" ", "\""}

\* Where its parts are.
LaidOut(b, u, p, w, lt, gt) ==
    /\ w \in Seq(Char) /\ Len(w) = Len(b) + Len(u) + Len(p) + 2
    /\ \A i \in 1..Len(b) : w[i] = b[i]
    /\ w[lt] = "<"
    /\ \A i \in (lt + 1)..(gt - 1) : w[i] = u[i - lt]
    /\ w[gt] = ">"
    /\ Upto(w, lt) = b
    /\ SubSeq(w, lt + 1, gt - 1) = u
    /\ SubSeq(w, gt, Len(w)) = <<">">> \o p

\* Where the brackets of an address that is laid out are, and what is around them.
LEMMA LayoutAt ==
  ASSUME NEW b \in Seq(Char), NEW u \in Seq(Char), NEW p \in Seq(Char),
         NEW w, w = Layout(b, u, p), NEW lt, lt = Len(b) + 1, NEW gt, gt = Len(b) + Len(u) + 2
  PROVE  LaidOut(b, u, p, w, lt, gt)
<1>0. PICK c : c = "<"
  OBVIOUS
<1>1. PICK d : d = ">"
  OBVIOUS
<1>2. c \in Char /\ d \in Char
  BY <1>0, <1>1 DEF Char, Plain, Other
<1>3. PICK y : y = u \o <<d>> \o p
  OBVIOUS
<1>4. /\ y \in Seq(Char)
      /\ Len(y) = Len(u) + 1 + Len(p)
      /\ \A i \in 1..Len(u) : y[i] = u[i]
      /\ y[Len(u) + 1] = d
      /\ \A i \in 1..Len(p) : y[Len(u) + 1 + i] = p[i]
  BY <1>2, <1>3, Joint
<1>5. w = b \o <<c>> \o y
  BY <1>0, <1>1, <1>3, Zenon DEF Layout
<1>6. /\ w \in Seq(Char)
      /\ Len(w) = Len(b) + 1 + Len(y)
      /\ \A i \in 1..Len(b) : w[i] = b[i]
      /\ w[Len(b) + 1] = c
      /\ \A i \in 1..Len(y) : w[Len(b) + 1 + i] = y[i]
  <2>1. y \in Seq(Char)
    BY <1>4
  <2> QED
    BY <2>1, <1>2, <1>5, Joint
<1>7. Len(b) \in Nat /\ Len(u) \in Nat /\ Len(p) \in Nat
  OBVIOUS
<1>8. Len(w) = Len(b) + Len(u) + Len(p) + 2
  BY <1>4, <1>6, <1>7
<1>9. w[lt] = c
  BY <1>6
<1>10. ASSUME NEW i \in (lt + 1)..(gt - 1) PROVE w[i] = u[i - lt]
  <2>1. PICK k : k = i - lt
    OBVIOUS
  <2>2. k \in 1..Len(u) /\ k \in 1..Len(y) /\ i = Len(b) + 1 + k
    BY <2>1, <1>4, <1>7
  <2>3. w[i] = y[k] /\ y[k] = u[k]
    BY <2>2, <1>4, <1>6
  <2> QED
    BY <2>1, <2>3
<1>11. w[gt] = d
  <2>1. PICK k : k = Len(u) + 1
    OBVIOUS
  <2>2. k \in 1..Len(y) /\ gt = Len(b) + 1 + k
    BY <2>1, <1>4, <1>7
  <2>3. w[gt] = y[k] /\ y[k] = d
    BY <2>1, <2>2, <1>4, <1>6
  <2> QED
    BY <2>3
<1>12. Upto(w, lt) = b
  <2>1. Upto(b \o <<c>> \o y, Len(b) + 1) = b
    BY <1>2, <1>4, JointParts
  <2> QED
    BY <2>1, <1>5, Zenon
<1>13. SubSeq(w, lt + 1, gt - 1) = u
  <2>1. PICK z : z = SubSeq(w, lt + 1, gt - 1)
    OBVIOUS
  <2>2. lt \in Nat /\ gt \in Nat /\ gt - 1 - lt = Len(u) /\ gt <= Len(w) /\ lt + 1 >= 1
    BY <1>7, <1>8
  <2>3. /\ z \in Seq(Char) /\ Len(z) = Len(u)
        /\ \A i \in 1..Len(u) : z[i] = w[lt + i]
    BY <2>1, <2>2, <1>6, <1>7
  <2>4. ASSUME NEW i \in 1..Len(u) PROVE z[i] = u[i]
    <3>1. PICK k : k = lt + i
      OBVIOUS
    <3>2. k \in (lt + 1)..(gt - 1) /\ k - lt = i
      BY <3>1, <2>2, <1>7
    <3>3. w[k] = u[k - lt]
      BY <3>2, <1>10
    <3> QED
      BY <3>1, <3>2, <3>3, <2>3
  <2>5. z = u
    BY <2>3, <2>4, SeqEqual
  <2> QED
    BY <2>1, <2>5
<1>14. SubSeq(w, gt, Len(w)) = <<d>> \o p
  <2>1. PICK z : z = SubSeq(w, gt, Len(w))
    OBVIOUS
  <2>2. PICK e : e = <<d>> \o p
    OBVIOUS
  <2>3. gt \in Nat /\ gt >= 1 /\ Len(w) - gt + 1 = Len(p) + 1 /\ gt <= Len(w)
    BY <1>7, <1>8
  <2>4. /\ z \in Seq(Char) /\ Len(z) = Len(p) + 1
        /\ \A i \in 1..(Len(p) + 1) : z[i] = w[gt + i - 1]
    BY <2>1, <2>3, <1>6, <1>7
  <2>5. /\ e \in Seq(Char) /\ Len(e) = Len(p) + 1
        /\ \A i \in 1..(Len(p) + 1) : e[i] = IF i = 1 THEN d ELSE p[i - 1]
    BY <2>2, <1>2, <1>7
  <2>6. ASSUME NEW i \in 1..(Len(p) + 1) PROVE z[i] = e[i]
    <3>1. CASE i = 1
      <4>1. gt + i - 1 = gt
        BY <3>1, <2>3
      <4>2. z[i] = w[gt + i - 1]
        BY <2>4
      <4>3. e[i] = d
        BY <2>5, <3>1
      <4> QED
        BY <4>1, <4>2, <4>3, <1>11, Zenon
    <3>2. CASE i # 1
      <4>1. PICK k : k = i - 1
        OBVIOUS
      <4>2. PICK m : m = Len(u) + 1 + k
        OBVIOUS
      <4>3. k \in 1..Len(p) /\ m \in 1..Len(y) /\ gt + i - 1 = Len(b) + 1 + m
        BY <4>1, <4>2, <3>2, <1>4, <1>7
      <4>4. w[Len(b) + 1 + m] = y[m] /\ y[m] = p[k]
        BY <4>2, <4>3, <1>4, <1>6
      <4> QED
        BY <4>1, <4>3, <4>4, <3>2, <2>4, <2>5
    <3> QED
      BY <3>1, <3>2
  <2>7. z = e
    BY <2>4, <2>5, <2>6, SeqEqual
  <2> QED
    BY <2>1, <2>2, <2>7
<1>15. \A i \in (lt + 1)..(gt - 1) : w[i] = u[i - lt]
  BY <1>10
<1> QED
  BY <1>0, <1>1, <1>6, <1>8, <1>9, <1>11, <1>12, <1>13, <1>14, <1>15, Zenon DEF LaidOut

\* Whether a position is quoted, from the quotes before it.
LEMMA QuotedBy ==
  ASSUME NEW s, NEW i
  PROVE  /\ {q \in Quotes(s) : q < i} = {} => ~Quoted(s, i)
         /\ {q \in Quotes(s) : q < i} = {1} => Quoted(s, i)
         /\ \A m : m # 1 /\ {q \in Quotes(s) : q < i} = {1, m} => ~Quoted(s, i)
<1>1. PICK Q : Q = {q \in Quotes(s) : q < i}
  OBVIOUS
<1>2. Quoted(s, i) <=> Cardinality(Q) % 2 = 1
  BY <1>1, Zenon DEF Quoted
<1>3. Q = {} => Cardinality(Q) = 0
  BY FS_EmptySet
<1>4. Q = {1} => Cardinality(Q) = 1
  BY FS_Singleton
<1>5. ASSUME NEW m, m # 1, Q = {1, m} PROVE Cardinality(Q) = 2
  <2>1. IsFiniteSet({1}) /\ Cardinality({1}) = 1
    BY FS_Singleton
  <2>2. Q = {1} \cup {m} /\ m \notin {1}
    BY <1>5
  <2> QED
    BY <2>1, <2>2, FS_AddElement
<1> QED
  BY <1>1, <1>2, <1>3, <1>4, <1>5

\* FirstOutside is the first such character.
LEMMA FirstOutsideIs ==
  ASSUME NEW S, NEW s \in Seq(S), NEW c, NEW i \in Nat, NEW k \in 1..Len(s), k >= i, s[k] = c, ~Quoted(s, k),
         \A j \in 1..(k - 1) : j >= i /\ s[j] = c => Quoted(s, j)
  PROVE  FirstOutside(s, c, i) = k
<1> DEFINE f == [j \in DOMAIN s |-> j >= i /\ s[j] = c /\ ~Quoted(s, j)]
<1> DEFINE I == {j \in 1..Len(f) : f[j]}
<1>1. FirstOutside(s, c, i) = IF I # {} THEN Min(I) ELSE 0
  BY DEF FirstOutside, SelectInSeq
<1>2. Len(f) = Len(s) /\ DOMAIN s = 1..Len(s)
  OBVIOUS
<1>3. k \in I /\ I \in SUBSET Nat
  <2>1. f[k] = (k >= i /\ s[k] = c /\ ~Quoted(s, k))
    BY <1>2
  <2>2. f[k]
    BY <2>1, Zenon
  <2>3. k \in 1..Len(f)
    BY <1>2
  <2>4. k \in I
    BY <2>2, <2>3, Zenon
  <2>5. I \in SUBSET Nat
    BY <1>2
  <2> QED
    BY <2>4, <2>5
<1>4. ASSUME NEW j \in I PROVE k <= j
  <2>1. j \in 1..Len(s) /\ j >= i /\ s[j] = c /\ ~Quoted(s, j)
    BY <1>2
  <2>2. j \notin 1..(k - 1)
    BY <2>1
  <2> QED
    BY <2>1, <2>2
<1> HIDE DEF I, f
<1>5. Min(I) \in I /\ Min(I) <= k
  BY <1>3, MinIsLeast
<1>6. k <= Min(I)
  BY <1>4, <1>5
<1>7. Min(I) = k
  <2>1. PICK m : m = Min(I)
    OBVIOUS
  <2>2. m \in Nat /\ m <= k /\ k <= m /\ k \in Nat
    BY <2>1, <1>3, <1>5, <1>6
  <2>3. m = k
    BY <2>2
  <2> QED
    BY <2>1, <2>3
<1>8. I # {}
  BY <1>3
<1> QED
  BY <1>1, <1>7, <1>8, Zenon

\* A character that is not there is not found outside of quotes (header.go 668-690).
LEMMA NoneOutside ==
  ASSUME NEW S, NEW s \in Seq(S), NEW c, NEW i, \A j \in 1..Len(s) : s[j] # c
  PROVE  FirstOutside(s, c, i) = 0
<1> DEFINE f == [j \in DOMAIN s |-> j >= i /\ s[j] = c /\ ~Quoted(s, j)]
<1> DEFINE I == {j \in 1..Len(f) : f[j]}
<1>1. FirstOutside(s, c, i) = IF I # {} THEN Min(I) ELSE 0
  BY DEF FirstOutside, SelectInSeq
<1>2. Len(f) = Len(s) /\ DOMAIN s = 1..Len(s)
  OBVIOUS
<1>3. I = {}
  BY <1>2
<1> QED
  BY <1>1, <1>3

\* A quote and a backslash.
DQ == "\""
BS == "\\"

\* Which quotes count: those that are not escaped, wherever the text is.
LEMMA QuotesAre ==
  /\ \A s, q : q \in Quotes(s) <=> q \in DOMAIN s /\ s[q] = DQ /\ (q = 1 \/ s[q - 1] # BS)
BY Zenon DEF Quotes, DQ, BS

\* A text that does not begin or end with characters of the cut set.
Ends(t, cut) == t # <<>> => t[1] \notin cut /\ t[Len(t)] \notin cut

\* A URI that can be found between brackets.
Clean(u) ==
    /\ u \in Seq(Char)
    /\ u # <<>> => u[1] \notin Bracket /\ u[Len(u)] \notin Bracket
    /\ \A i \in 1..Len(u) : u[i] # "<" /\ u[i] # ">" /\ u[i] # DQ

\* What follows the closing bracket.
Trail(p) == p \in Seq(Char) /\ (p # <<>> => p[1] \notin Bracket)

ReadAddr(b, u, p) == [Addr |-> NewNameAddr(Trim(b, AroundName), Parse(u)), trail |-> p]

\* A bracket in the name is quoted.
Hides(w, b) == \A k \in 1..Len(b) : b[k] = "<" => Quoted(w, k)

\* The address between the brackets that are found.
LEMMA BracketsRead ==
  ASSUME NEW b \in Seq(Char), NEW u, Clean(u), NEW p, Trail(p),
         NEW w, w = Layout(b, u, p), NEW lt, lt = Len(b) + 1, NEW gt, gt = Len(b) + Len(u) + 2,
         ~Quoted(w, lt), ~Quoted(w, gt), Hides(w, b)
  PROVE  ParseNameAddr(w) = ReadAddr(b, u, p)
<1>0. /\ u \in Seq(Char) /\ p \in Seq(Char)
      /\ u # <<>> => u[1] \notin Bracket /\ u[Len(u)] \notin Bracket
      /\ \A i \in 1..Len(u) : u[i] # ">"
      /\ p # <<>> => p[1] \notin Bracket
      /\ \A k \in 1..Len(b) : b[k] = "<" => Quoted(w, k)
  BY Zenon DEF Clean, Trail, Hides
<1>1. /\ w \in Seq(Char) /\ Len(w) = Len(b) + Len(u) + Len(p) + 2
      /\ \A i \in 1..Len(b) : w[i] = b[i]
      /\ w[lt] = "<"
      /\ \A i \in (lt + 1)..(gt - 1) : w[i] = u[i - lt]
      /\ w[gt] = ">"
      /\ Upto(w, lt) = b
      /\ SubSeq(w, lt + 1, gt - 1) = u
      /\ SubSeq(w, gt, Len(w)) = <<">">> \o p
  <2>1. LaidOut(b, u, p, w, lt, gt)
    BY <1>0, LayoutAt
  <2> QED
    BY <2>1, Zenon DEF LaidOut
<1>2. Len(b) \in Nat /\ Len(u) \in Nat /\ Len(p) \in Nat
  BY <1>0
<1>3. lt \in 1..Len(w) /\ gt \in 1..Len(w) /\ lt >= 1 /\ gt >= lt + 1 /\ lt + 1 \in Nat /\ lt # 0 /\ gt # 0
  BY <1>1, <1>2
<1>4. FirstOutside(w, "<", 1) = lt
  <2>1. ASSUME NEW j \in 1..(lt - 1), w[j] = "<" PROVE Quoted(w, j)
    <3>1. j \in 1..Len(b)
      BY <1>2
    <3>2. b[j] = "<"
      BY <3>1, <2>1, <1>1
    <3> QED
      BY <3>1, <3>2, <1>0
  <2>2. PICK c : c = "<"
    OBVIOUS
  <2>3. w \in Seq(Char) /\ w[lt] = c /\ 1 \in Nat
    BY <1>1, <2>2
  <2>4. \A j \in 1..(lt - 1) : j >= 1 /\ w[j] = c => Quoted(w, j)
    BY <2>1, <2>2
  <2>5. FirstOutside(w, c, 1) = lt
    BY <2>3, <2>4, <1>3, FirstOutsideIs
  <2> QED
    BY <2>2, <2>5
<1>5. FirstOutside(w, ">", lt + 1) = gt
  <2>1. PICK c : c = ">"
    OBVIOUS
  <2>2. w \in Seq(Char) /\ w[gt] = c
    BY <1>1, <2>1
  <2>3. ASSUME NEW j \in 1..(gt - 1), j >= lt + 1, w[j] = c PROVE FALSE
    <3>1. PICK i : i = j - lt
      OBVIOUS
    <3>2. j \in (lt + 1)..(gt - 1) /\ i \in 1..Len(u)
      BY <3>1, <2>3, <1>2
    <3>3. w[j] = u[i]
      BY <3>1, <3>2, <1>1
    <3> QED
      BY <3>2, <3>3, <2>1, <2>3, <1>0
  <2>4. \A j \in 1..(gt - 1) : j >= lt + 1 /\ w[j] = c => Quoted(w, j)
    BY <2>3
  <2>5. PICK n : n = lt + 1
    OBVIOUS
  <2>6. FirstOutside(w, c, n) = gt
    BY <2>2, <2>4, <2>5, <1>3, FirstOutsideIs
  <2> QED
    BY <2>1, <2>5, <2>6, Zenon
<1>6. ParseNameAddr(w) = NameAddrAt(w, lt, gt)
  BY <1>3, <1>4, <1>5, Zenon DEF ParseNameAddr
<1>7. NameAddrAt(w, lt, gt) =
         [Addr  |-> NewNameAddr(Trim(Upto(w, lt), AroundName),
                                Parse(Trim(SubSeq(w, lt + 1, gt - 1), Bracket))),
          trail |-> TrimLeft(SubSeq(w, gt, Len(w)), Bracket)]
  BY <1>3, Zenon DEF NameAddrAt, AroundName, Bracket
<1>8. Trim(u, Bracket) = u
  BY <1>0, TrimNothing, Zenon
<1>9. TrimLeft(<<">">> \o p, Bracket) = p
  <2>1. PICK a : a = <<">">>
    OBVIOUS
  <2>2. ">" \in Char /\ ">" \in Bracket
    BY DEF Char, Plain, Other, Bracket
  <2>3. a \in Seq(Char) /\ \A i \in 1..Len(a) : a[i] \in Bracket
    BY <2>1, <2>2
  <2>4. TrimLeft(a \o p, Bracket) = p
    BY <2>3, <1>0, TrimLeftOf, Zenon
  <2> QED
    BY <2>1, <2>4
<1>10. /\ Upto(w, lt) = b
       /\ SubSeq(w, lt + 1, gt - 1) = u
       /\ SubSeq(w, gt, Len(w)) = <<">">> \o p
  BY <1>1, Zenon
<1> QED
  BY <1>6, <1>7, <1>8, <1>9, <1>10, Zenon DEF ReadAddr

\* Without quotes nothing is quoted.
LEMMA NothingQuoted ==
  ASSUME NEW S, NEW s \in Seq(S), NEW n \in Nat, n <= Len(s) + 1, \A i \in 1..(n - 1) : s[i] # DQ
  PROVE  \A i \in 1..n : ~Quoted(s, i)
<1> SUFFICES ASSUME NEW i \in 1..n PROVE ~Quoted(s, i)
  OBVIOUS
<1>1. ASSUME NEW q \in Quotes(s), q < i PROVE FALSE
  <2>1. q \in DOMAIN s /\ s[q] = DQ
    BY QuotesAre, Zenon
  <2>2. q \in 1..Len(s)
    BY <2>1
  <2>3. q \in 1..(n - 1)
    BY <2>2, <1>1
  <2> QED
    BY <2>1, <2>3
<1>2. {q \in Quotes(s) : q < i} = {}
  BY <1>1, Zenon
<1> QED
  BY <1>2, QuotedBy

\* What is between the first two quotes that are not escaped is quoted, what
\* follows them is not.
LEMMA BetweenQuotes ==
  ASSUME NEW S, NEW s \in Seq(S), NEW m \in Nat, NEW n \in Nat, 2 < m, m < n, n <= Len(s) + 1,
         s[1] = DQ, s[m] = DQ, s[m - 1] # BS,
         \A i \in 2..(m - 1) : s[i] = DQ => s[i - 1] = BS,
         \A i \in (m + 1)..(n - 1) : s[i] # DQ
  PROVE  /\ \A i \in 2..m : Quoted(s, i)
         /\ \A i \in (m + 1)..n : ~Quoted(s, i)
<1>0. Len(s) \in Nat /\ DOMAIN s = 1..Len(s) /\ 1 \in 1..Len(s) /\ m \in 1..Len(s)
  OBVIOUS
<1>1. 1 \in Quotes(s) /\ m \in Quotes(s)
  BY <1>0, QuotesAre, Zenon
<1>2. ASSUME NEW q \in Quotes(s), q < n PROVE q \in Nat /\ (q = 1 \/ q = m)
  <2>1. q \in 1..Len(s) /\ s[q] = DQ /\ (q = 1 \/ s[q - 1] # BS)
    BY <1>0, QuotesAre, Zenon
  <2>2. q \in Nat /\ q >= 1 /\ q \notin 2..(m - 1) /\ q \notin (m + 1)..(n - 1)
    BY <2>1
  <2> QED
    BY <2>2, <1>2
<1>3. ASSUME NEW i \in 2..m PROVE Quoted(s, i)
  <2>1. ASSUME NEW q \in Quotes(s), q < i PROVE q = 1
    <3>1. q \in Nat
      BY <1>0, QuotesAre
    <3>2. q < n /\ q # m
      BY <2>1, <3>1
    <3> QED
      BY <3>2, <1>2
  <2>2. 1 < i
    OBVIOUS
  <2>3. {q \in Quotes(s) : q < i} = {1}
    BY <1>1, <2>1, <2>2, Zenon
  <2> QED
    BY <2>3, QuotedBy, Zenon
<1>4. ASSUME NEW i \in (m + 1)..n PROVE ~Quoted(s, i)
  <2>1. ASSUME NEW q \in Quotes(s), q < i PROVE q = 1 \/ q = m
    <3>1. q \in Nat
      BY <1>0, QuotesAre
    <3>2. q < n
      BY <2>1, <3>1
    <3> QED
      BY <3>2, <1>2
  <2>2. 1 < i /\ m < i /\ m # 1
    OBVIOUS
  <2>3. {q \in Quotes(s) : q < i} = {1, m}
    BY <1>1, <2>1, <2>2, Zenon
  <2> QED
    BY <2>2, <2>3, QuotedBy, Zenon
<1> QED
  BY <1>3, <1>4

\* What is written is laid out like this.
LEMMA LayoutText ==
  ASSUME NEW b \in Seq(Char), NEW u \in Seq(Char), NEW p \in Seq(Char)
  PROVE  (b \o (<<"<">> \o u \o <<">">>)) \o p = Layout(b, u, p)
<1>1. PICK l : l = <<"<">>
  OBVIOUS
<1>2. PICK g : g = <<">">>
  OBVIOUS
<1>3. l \in Seq(Char) /\ g \in Seq(Char)
  <2>1. "<" \in Char /\ ">" \in Char
    BY DEF Char, Plain, Other
  <2> QED
    BY <1>1, <1>2, <2>1, One
<1>4. PICK lu : lu = l \o u
  OBVIOUS
<1>5. PICK x : x = lu \o g
  OBVIOUS
<1>6. PICK gp : gp = g \o p
  OBVIOUS
<1>7. PICK ug : ug = u \o g
  OBVIOUS
<1>8. PICK y : y = ug \o p
  OBVIOUS
<1>9. PICK ly : ly = l \o y
  OBVIOUS
<1>10. PICK bl : bl = b \o l
  OBVIOUS
<1>11. PICK bx : bx = b \o x
  OBVIOUS
<1>12. lu \in Seq(Char) /\ gp \in Seq(Char) /\ ug \in Seq(Char)
  BY <1>3, <1>4, <1>6, <1>7, ConcatProperties
<1>13. x \in Seq(Char) /\ y \in Seq(Char)
  BY <1>3, <1>5, <1>8, <1>12, ConcatProperties
<1>14. y = u \o gp
  BY <1>3, <1>6, <1>7, <1>8, Associative
<1>15. lu \o gp = l \o y
  <2>1. l \in Seq(Char) /\ gp \in Seq(Char)
    BY <1>3, <1>12
  <2> QED
    BY <2>1, <1>4, <1>14, Associative
<1>16. x \o p = lu \o gp
  <2>1. lu \in Seq(Char) /\ g \in Seq(Char)
    BY <1>3, <1>12
  <2> QED
    BY <2>1, <1>5, <1>6, Associative
<1>17. ly = x \o p
  BY <1>9, <1>15, <1>16
<1>18. bx \o p = b \o ly
  BY <1>11, <1>13, <1>17, Associative
<1>19. bl \o y = b \o ly
  BY <1>3, <1>9, <1>10, <1>13, Associative
<1>20. Layout(b, u, p) = bl \o y
  BY <1>1, <1>2, <1>7, <1>8, <1>10, Zenon DEF Layout
<1>21. (b \o (<<"<">> \o u \o <<">">>)) \o p = bx \o p
  BY <1>1, <1>2, <1>4, <1>5, <1>11, Zenon
<1> QED
  BY <1>18, <1>19, <1>20, <1>21, Zenon

\* A character in front of a text.
LEMMA Prefixed ==
  ASSUME NEW S, NEW c \in S, NEW s \in Seq(S)
  PROVE  <<c>> \o s \in Seq(S) /\ Len(<<c>> \o s) = Len(s) + 1 /\ (<<c>> \o s)[1] = c
OBVIOUS

ParamCut == {" ", ";"}

\* The parameters, without the semicolon that was written before them.
LEMMA ParamKept ==
  ASSUME NEW r \in Seq(Char), r # <<>> => r[1] \notin ParamCut /\ r[Len(r)] \notin ParamCut
  PROVE  /\ ParamText(";", r) \in Seq(Char)
         /\ ParamText(";", r) # <<>> => ParamText(";", r)[1] \notin Bracket
         /\ Param(ParamText(";", r)) = r
         /\ \A s \in Seq(Char) : WithParam(s, r) = s \o ParamText(";", r)
<1>1. CASE r = <<>>
  <2>1. ParamText(";", r) = r
    BY <1>1, Zenon DEF ParamText
  <2>2. Trim(r, ParamCut) = r
    BY <1>1, TrimNothing
  <2>3. Param(r) = r
    BY <2>2, Zenon DEF Param, ParamCut
  <2>4. ASSUME NEW s \in Seq(Char) PROVE WithParam(s, r) = s \o r
    BY <1>1 DEF WithParam
  <2> QED
    BY <1>1, <2>1, <2>3, <2>4, Zenon
<1>2. CASE r # <<>>
  <2>1. PICK a : a = <<";">>
    OBVIOUS
  <2>2. ";" \in Char /\ ";" \in ParamCut /\ ";" \notin Bracket
    BY DEF Char, Plain, Reserved, ParamCut, Bracket
  <2>3. a \in Seq(Char) /\ (\A i \in 1..Len(a) : a[i] \in ParamCut) /\ a[1] = ";" /\ Len(a) = 1
    <3>1. PICK c : c = ";"
      OBVIOUS
    <3>2. c \in Char /\ c \in ParamCut
      BY <3>1, <2>2
    <3>3. a = <<c>>
      BY <3>1, <2>1
    <3>4. a \in Seq(Char) /\ (\A i \in 1..Len(a) : a[i] \in ParamCut) /\ a[1] = c /\ Len(a) = 1
      BY <3>2, <3>3
    <3> QED
      BY <3>1, <3>4
  <2>4. PICK p : p = a \o r
    OBVIOUS
  <2>5. ParamText(";", r) = p
    BY <1>2, <2>1, <2>4, Zenon DEF ParamText
  <2>6. p \in Seq(Char) /\ p[1] = ";"
    <3>1. \A c \in Char : <<c>> \o r \in Seq(Char) /\ (<<c>> \o r)[1] = c
      BY Prefixed
    <3> QED
      BY <3>1, <2>1, <2>2, <2>4, Zenon
  <2>7. Trim(p, ParamCut) = r
    <3>1. TrimLeft(a \o r, ParamCut) = r
      BY <2>3, TrimLeftOf, Zenon
    <3>2. PICK e : e = <<>>
      OBVIOUS
    <3>3. e \in Seq(Char) /\ r \o e = r /\ \A i \in 1..Len(e) : e[i] \in ParamCut
      BY <3>2
    <3>4. TrimRight(r \o e, ParamCut) = r
      BY <3>3, TrimRightOf, Zenon
    <3> QED
      BY <2>4, <3>1, <3>3, <3>4, Zenon DEF Trim
  <2>8. Param(p) = r
    BY <2>7, Zenon DEF Param, ParamCut
  <2>9. ASSUME NEW s \in Seq(Char) PROVE WithParam(s, r) = s \o p
    <3>1. PICK sa : sa = s \o a
      OBVIOUS
    <3>2. sa \o r = s \o p
      <4>1. a \in Seq(Char)
        BY <2>3
      <4> QED
        BY <4>1, <2>4, <3>1, Associative
    <3> QED
      BY <1>2, <2>1, <3>1, <3>2, Zenon DEF WithParam
  <2> QED
    BY <2>2, <2>5, <2>6, <2>8, <2>9, Zenon
<1> QED
  BY <1>1, <1>2

\* An address whose name has neither quotes nor brackets is read as its name, its
\* URI and its parameters (header.go 112-160).
LEMMA UnquotedRead ==
  ASSUME NEW b \in Seq(Char), NEW u, Clean(u), NEW p, Trail(p),
         \A i \in 1..Len(b) : b[i] # DQ /\ b[i] # "<"
  PROVE  ParseNameAddr(Layout(b, u, p)) = ReadAddr(b, u, p)
<1>1. PICK w : w = Layout(b, u, p)
  OBVIOUS
<1>2. PICK lt : lt = Len(b) + 1
  OBVIOUS
<1>3. PICK gt : gt = Len(b) + Len(u) + 2
  OBVIOUS
<1>4. u \in Seq(Char) /\ p \in Seq(Char)
  BY DEF Clean, Trail
<1>5. LaidOut(b, u, p, w, lt, gt)
  BY <1>1, <1>2, <1>3, <1>4, LayoutAt
<1>6. /\ w \in Seq(Char) /\ Len(w) = Len(b) + Len(u) + Len(p) + 2
      /\ \A i \in 1..Len(b) : w[i] = b[i]
      /\ w[lt] = "<"
      /\ \A i \in (lt + 1)..(gt - 1) : w[i] = u[i - lt]
  BY <1>5, Zenon DEF LaidOut
<1>7. Len(b) \in Nat /\ Len(u) \in Nat /\ Len(p) \in Nat
  BY <1>4
<1>8. "<" # DQ
  BY Zenon DEF DQ
<1>9. ASSUME NEW i \in 1..(gt - 1) PROVE w[i] # DQ
  <2>1. CASE i \in 1..Len(b)
    BY <2>1, <1>6
  <2>2. CASE i = lt
    BY <2>2, <1>6, <1>8, Zenon
  <2>3. CASE i \in (lt + 1)..(gt - 1)
    <3>1. i - lt \in 1..Len(u)
      BY <2>3, <1>2, <1>3, <1>7
    <3>2. w[i] = u[i - lt]
      BY <2>3, <1>6
    <3> QED
      BY <3>1, <3>2, Zenon DEF Clean
  <2> QED
    BY <2>1, <2>2, <2>3, <1>2, <1>3, <1>7
<1>10. \A i \in 1..gt : ~Quoted(w, i)
  <2>1. gt \in Nat /\ gt <= Len(w) + 1 /\ w \in Seq(Char)
    BY <1>3, <1>6, <1>7
  <2>2. \A i \in 1..(gt - 1) : w[i] # DQ
    BY <1>9
  <2> QED
    BY <2>1, <2>2, NothingQuoted
<1>11. ~Quoted(w, lt) /\ ~Quoted(w, gt)
  <2>1. lt \in 1..gt /\ gt \in 1..gt
    BY <1>2, <1>3, <1>7
  <2> QED
    BY <2>1, <1>10
<1>12. \A k \in 1..Len(b) : b[k] = "<" => Quoted(w, k)
  BY Zenon
<1>13. Hides(w, b)
  BY <1>12 DEF Hides
<1>14. ParseNameAddr(w) = ReadAddr(b, u, p)
  BY <1>1, <1>2, <1>3, <1>11, <1>13, BracketsRead
<1> QED
  BY <1>1, <1>14

\* A quoted name.
InQuotes(d) == <<DQ>> \o d \o <<DQ>> \o <<" ">>

\* A sequence with one element more: its type, its length and its elements.
LEMMA Suffixed ==
  ASSUME NEW S, NEW c \in S, NEW s \in Seq(S), NEW t, t = s \o <<c>>
  PROVE  /\ t \in Seq(S) /\ Len(t) = Len(s) + 1 /\ t[Len(s) + 1] = c
         /\ \A i \in 1..Len(s) : t[i] = s[i]
OBVIOUS

\* The characters of a quoted name, and where the quotes are.
LEMMA QuotedText ==
  ASSUME NEW S, NEW q \in S, NEW c \in S, NEW d \in Seq(S),
         NEW b, b = <<q>> \o d \o <<q>> \o <<c>>
  PROVE  /\ b \in Seq(S) /\ Len(b) = Len(d) + 3
         /\ b[1] = q /\ b[Len(d) + 2] = q /\ b[Len(d) + 3] = c
         /\ \A i \in 2..(Len(d) + 1) : b[i] = d[i - 1]
         /\ b = <<q>> \o (d \o (<<q>> \o <<c>>))
<1>1. /\ b \in Seq(S) /\ Len(b) = Len(d) + 3
      /\ b[1] = q /\ b[Len(d) + 2] = q /\ b[Len(d) + 3] = c
      /\ \A i \in 2..(Len(d) + 1) : b[i] = d[i - 1]
  <2>0. Len(d) \in Nat
    OBVIOUS
  <2>1. PICK x : x = <<q>> \o d
    OBVIOUS
  <2>2. x \in Seq(S) /\ Len(x) = Len(d) + 1 /\ x[1] = q /\ \A i \in 2..(Len(d) + 1) : x[i] = d[i - 1]
    BY <2>1
  <2>3. PICK y : y = x \o <<q>>
    OBVIOUS
  <2>4. /\ y \in Seq(S) /\ Len(y) = Len(d) + 2 /\ \A i \in 1..(Len(d) + 1) : y[i] = x[i]
        /\ y[Len(d) + 2] = q
    <3>1. Len(x) + 1 = Len(d) + 2 /\ x \in Seq(S)
      BY <2>0, <2>2
    <3>2. /\ y \in Seq(S) /\ Len(y) = Len(x) + 1 /\ y[Len(x) + 1] = q
          /\ \A i \in 1..Len(x) : y[i] = x[i]
      BY <3>1, <2>3, Suffixed
    <3> QED
      BY <3>1, <3>2, <2>2, Zenon
  <2>5. b = y \o <<c>>
    BY <2>1, <2>3, Zenon
  <2>6. /\ b \in Seq(S) /\ Len(b) = Len(d) + 3 /\ \A i \in 1..(Len(d) + 2) : b[i] = y[i]
        /\ b[Len(d) + 3] = c
    BY <2>0, <2>4, <2>5
  <2>7. ASSUME NEW i \in 1..(Len(d) + 1) PROVE b[i] = x[i]
    <3>1. i \in 1..(Len(d) + 2)
      BY <2>0
    <3> QED
      BY <3>1, <2>4, <2>6, Zenon
  <2>8. ASSUME NEW i \in 2..(Len(d) + 1) PROVE b[i] = d[i - 1]
    BY <2>0, <2>2, <2>7
  <2>9. b[1] = q /\ b[Len(d) + 2] = q
    BY <2>0, <2>2, <2>4, <2>6, <2>7
  <2> QED
    BY <2>6, <2>8, <2>9
<1>2. PICK x : x = <<q>> \o (d \o (<<q>> \o <<c>>))
  OBVIOUS
<1>3. /\ x \in Seq(S) /\ Len(x) = Len(d) + 3
      /\ x[1] = q /\ x[Len(d) + 2] = q /\ x[Len(d) + 3] = c
      /\ \A i \in 2..(Len(d) + 1) : x[i] = d[i - 1]
  BY <1>2
<1>4. ASSUME NEW i \in 1..(Len(d) + 3) PROVE b[i] = x[i]
  <2>1. i = 1 \/ i \in 2..(Len(d) + 1) \/ i = Len(d) + 2 \/ i = Len(d) + 3
    OBVIOUS
  <2> QED
    BY <2>1, <1>1, <1>3
<1>5. b = x
  BY <1>1, <1>3, <1>4, SeqEqual
<1> QED
  BY <1>1, <1>2, <1>5, Zenon

\* An address with a name in quotes is read as its name, its URI and its
\* parameters (header.go 112-160).
LEMMA QuotedRead ==
  ASSUME NEW d \in Seq(Char), d # <<>>, d[Len(d)] # BS, NEW u, Clean(u), NEW p, Trail(p),
         \A i \in 1..Len(d) : d[i] = DQ => i # 1 /\ d[i - 1] = BS
  PROVE  ParseNameAddr(Layout(InQuotes(d), u, p)) = ReadAddr(InQuotes(d), u, p)
<1>b. PICK b : b = InQuotes(d)
  OBVIOUS
<1>c. PICK c : c = " "
  OBVIOUS
<1>d. c \in Char /\ DQ \in Char /\ c # DQ /\ "<" # DQ /\ c # "<"
  <2>1. c \in Char /\ DQ \in Char
    BY <1>c DEF Char, Plain, Other, DQ
  <2>2. c # DQ /\ "<" # DQ /\ c # "<"
    BY <1>c, Zenon DEF DQ
  <2> QED
    BY <2>1, <2>2
<1>e. /\ b \in Seq(Char) /\ Len(b) = Len(d) + 3
      /\ b[1] = DQ /\ b[Len(d) + 2] = DQ /\ b[Len(d) + 3] = c
      /\ \A i \in 2..(Len(d) + 1) : b[i] = d[i - 1]
  <2>1. b = <<DQ>> \o d \o <<DQ>> \o <<c>>
    BY <1>b, <1>c, Zenon DEF InQuotes
  <2> QED
    BY <2>1, <1>d, QuotedText
<1>1. PICK w : w = Layout(b, u, p)
  OBVIOUS
<1>2. PICK lt : lt = Len(b) + 1
  OBVIOUS
<1>3. PICK gt : gt = Len(b) + Len(u) + 2
  OBVIOUS
<1>4. u \in Seq(Char) /\ p \in Seq(Char) /\ b \in Seq(Char)
  BY <1>e DEF Clean, Trail
<1>5. LaidOut(b, u, p, w, lt, gt)
  BY <1>1, <1>2, <1>3, <1>4, LayoutAt
<1>6. /\ w \in Seq(Char) /\ Len(w) = Len(b) + Len(u) + Len(p) + 2
      /\ \A i \in 1..Len(b) : w[i] = b[i]
      /\ w[lt] = "<"
      /\ \A i \in (lt + 1)..(gt - 1) : w[i] = u[i - lt]
  BY <1>5, Zenon DEF LaidOut
<1>7. Len(b) \in Nat /\ Len(u) \in Nat /\ Len(p) \in Nat /\ Len(d) \in Nat /\ Len(d) > 0
  BY <1>4
<1>8. PICK m : m = Len(d) + 2
  OBVIOUS
<1>9. /\ w \in Seq(Char) /\ m \in Nat /\ gt \in Nat /\ 2 < m /\ m < gt /\ gt <= Len(w) + 1
      /\ m + 2 = lt /\ lt < gt /\ Len(b) = m + 1
  BY <1>2, <1>3, <1>6, <1>7, <1>8, <1>e
<1>10. w[1] = DQ /\ w[m] = DQ /\ w[m + 1] = c
  <2>1. 1 \in 1..Len(b) /\ m \in 1..Len(b) /\ m + 1 \in 1..Len(b) /\ m + 1 = Len(d) + 3
    BY <1>9, <1>8, <1>7
  <2> QED
    BY <2>1, <1>6, <1>8, <1>e
<1>11a. ASSUME NEW i \in 2..(m - 1) PROVE i - 1 \in 1..Len(d) /\ w[i] = d[i - 1]
  <2>1. i \in 1..Len(b) /\ i \in 2..(Len(d) + 1) /\ i - 1 \in 1..Len(d)
    BY <1>9, <1>8, <1>7
  <2> QED
    BY <2>1, <1>6, <1>e
<1>11. ASSUME NEW i \in 2..(m - 1), w[i] = DQ PROVE w[i - 1] = BS
  <2>1. i - 1 # 1 /\ d[(i - 1) - 1] = BS
    BY <1>11, <1>11a
  <2>2. i - 1 \in 2..(m - 1) /\ (i - 1) - 1 = i - 2
    BY <2>1, <1>9
  <2> QED
    BY <2>1, <2>2, <1>11a
<1>12. w[m - 1] # BS
  <2>1. m - 1 \in 2..(m - 1) /\ (m - 1) - 1 = Len(d)
    BY <1>9, <1>8, <1>7
  <2> QED
    BY <2>1, <1>11a
<1>13. ASSUME NEW i \in (m + 1)..(gt - 1) PROVE w[i] # DQ
  <2>1. CASE i = m + 1
    BY <2>1, <1>10, <1>d, Zenon
  <2>2. CASE i = lt
    BY <2>2, <1>6, <1>d, Zenon
  <2>3. CASE i \in (lt + 1)..(gt - 1)
    <3>1. i - lt \in 1..Len(u)
      BY <2>3, <1>2, <1>3, <1>7
    <3>2. w[i] = u[i - lt]
      BY <2>3, <1>6
    <3> QED
      BY <3>1, <3>2, Zenon DEF Clean
  <2> QED
    BY <2>1, <2>2, <2>3, <1>9
<1>14. (\A i \in 2..m : Quoted(w, i)) /\ (\A i \in (m + 1)..gt : ~Quoted(w, i))
  <2>1. \A i \in 2..(m - 1) : w[i] = DQ => w[i - 1] = BS
    BY <1>11
  <2>2. \A i \in (m + 1)..(gt - 1) : w[i] # DQ
    BY <1>13
  <2> QED
    BY <2>1, <2>2, <1>9, <1>10, <1>12, BetweenQuotes
<1>15. ~Quoted(w, lt) /\ ~Quoted(w, gt)
  <2>1. lt \in (m + 1)..gt /\ gt \in (m + 1)..gt
    BY <1>9, <1>2, <1>7
  <2> QED
    BY <2>1, <1>14
<1>16. ASSUME NEW k \in 1..Len(b), b[k] = "<" PROVE Quoted(w, k)
  <2>1. k # 1
    BY <1>16, <1>d, <1>e, Zenon
  <2>2. k # m + 1
    BY <1>16, <1>d, <1>10, <1>6, Zenon
  <2>3. k \in 2..m
    BY <2>1, <2>2, <1>9
  <2> QED
    BY <2>3, <1>14
<1>17. \A k \in 1..Len(b) : b[k] = "<" => Quoted(w, k)
  BY <1>16
<1>18. Hides(w, b)
  BY <1>17 DEF Hides
<1>19. ParseNameAddr(w) = ReadAddr(b, u, p)
  BY <1>1, <1>2, <1>3, <1>4, <1>15, <1>18, BracketsRead
<1> QED
  BY <1>1, <1>b, <1>19, Zenon

\* A To with these parts.
NameUri(d, u) == [DisplayName |-> d, Uri |-> u]
ToRecord(d, u, r) == [Addr |-> NameUri(d, u), RawParameter |-> r]

\* What NameAddrString writes before the bracket.
NameBefore(d) ==
    IF d = <<>> THEN <<>> ELSE IF validToken(d) THEN d \o <<" ">> ELSE InQuotes(d)

\* The fields of an address and of a To are those it was made of.
LEMMA RecordParts ==
  ASSUME NEW d, NEW u, NEW r
  PROVE  /\ NameUri(d, u).DisplayName = d /\ NameUri(d, u).Uri = u
         /\ ToRecord(d, u, r).Addr = NameUri(d, u) /\ ToRecord(d, u, r).RawParameter = r
         /\ u # NoUri => NewNameAddr(d, u) = NameUri(d, u)
BY DEF NameUri, ToRecord, NewNameAddr

\* What is in quotes is found again when they are trimmed.
QuotesAround(d) == InQuotes(d) \in Seq(Char) /\ Trim(InQuotes(d), AroundName) = d

\* ... if it does not begin or end with quotes or blanks itself.
LEMMA InQuotesTrimmed ==
  ASSUME NEW d \in Seq(Char), d # <<>>, Ends(d, AroundName)
  PROVE  QuotesAround(d)
<1>1. PICK c : c = " "
  OBVIOUS
<1>2. c \in Char /\ DQ \in Char /\ c \in AroundName /\ DQ \in AroundName
  BY <1>1 DEF Char, Plain, Other, DQ, AroundName
<1>3. d[1] \notin AroundName /\ d[Len(d)] \notin AroundName
  BY DEF Ends
<1>4. PICK x : x = <<DQ>> \o d \o <<DQ>> \o <<c>>
  OBVIOUS
<1>5. x \in Seq(Char) /\ x = <<DQ>> \o (d \o (<<DQ>> \o <<c>>))
  BY <1>2, <1>4, QuotedText
<1>6. PICK a : a = <<DQ>>
  OBVIOUS
<1>7. PICK b : b = <<DQ>> \o <<c>>
  OBVIOUS
<1>8. a \in Seq(Char) /\ b \in Seq(Char)
  BY <1>2, <1>6, <1>7
<1>9. (\A i \in 1..Len(b) : b[i] \in AroundName) /\ (\A i \in 1..Len(a) : a[i] \in AroundName)
  BY <1>2, <1>6, <1>7
<1>10. Trim(a \o (d \o b), AroundName) = d
  BY <1>3, <1>8, <1>9, TrimOf
<1>11. InQuotes(d) = x
  BY <1>1, <1>4, Zenon DEF InQuotes
<1> QED
  BY <1>5, <1>6, <1>7, <1>10, <1>11, Zenon DEF QuotesAround

\* The name is found again in what is written before the bracket.
LEMMA NameKept ==
  ASSUME NEW d \in Seq(Char), Ends(d, AroundName)
  PROVE  NameBefore(d) \in Seq(Char) /\ Trim(NameBefore(d), AroundName) = d
<1>0. PICK c : c = " "
  OBVIOUS
<1>1. c \in Char /\ DQ \in Char /\ c \in AroundName /\ DQ \in AroundName
  BY <1>0 DEF Char, Plain, Other, DQ, AroundName
<1>2. CASE d = <<>>
  <2>1. NameBefore(d) = d
    BY <1>2, Zenon DEF NameBefore
  <2>2. Trim(d, AroundName) = d
    BY <1>2, TrimNothing
  <2> QED
    BY <2>1, <2>2, Zenon
<1>3. CASE d # <<>>
  <2>0. d[1] \notin AroundName /\ d[Len(d)] \notin AroundName
    BY <1>3 DEF Ends
  <2>1. CASE validToken(d)
    <3>1. PICK e : e = <<>>
      OBVIOUS
    <3>2. PICK b : b = <<c>>
      OBVIOUS
    <3>3. b \in Seq(Char) /\ e \in Seq(Char)
      BY <3>1, <3>2, <1>1
    <3>4. (\A i \in 1..Len(b) : b[i] \in AroundName) /\ (\A i \in 1..Len(e) : e[i] \in AroundName)
      BY <3>1, <3>2, <1>1
    <3>5. Trim(e \o (d \o b), AroundName) = d
      BY <3>3, <3>4, <2>0, <1>3, TrimOf
    <3>6. PICK x : x = d \o b
      OBVIOUS
    <3>7. x \in Seq(Char)
      BY <3>3, <3>6, ConcatProperties
    <3>8. e \o x = x
      BY <3>1, <3>7
    <3>9. NameBefore(d) = x
      BY <1>0, <1>3, <2>1, <3>2, <3>6, Zenon DEF NameBefore
    <3> QED
      BY <3>5, <3>6, <3>7, <3>8, <3>9, Zenon
  <2>2. CASE ~validToken(d)
    <3>1. NameBefore(d) = InQuotes(d)
      BY <1>3, <2>2, Zenon DEF NameBefore
    <3>2. QuotesAround(d)
      BY <1>3, InQuotesTrimmed, Zenon
    <3> QED
      BY <3>1, <3>2, Zenon DEF QuotesAround
  <2> QED
    BY <2>1, <2>2
<1> QED
  BY <1>2, <1>3

\* How an address is written.
LEMMA AddressWritten ==
  ASSUME NEW d, NEW u, String(u) \in Seq(Char)
  PROVE  /\ NeedsBrackets(NameUri(d, u)) =>
              NameAddrString(NameUri(d, u)) = NameBefore(d) \o InBrackets(u)
         /\ ~NeedsBrackets(NameUri(d, u)) => d = <<>> /\ NameAddrString(NameUri(d, u)) = String(u)
<1>1. PICK a : a = NameUri(d, u)
  OBVIOUS
<1>2. a.DisplayName = d /\ a.Uri = u
  BY <1>1, RecordParts
<1>3. d # <<>> => NeedsBrackets(a)
  BY <1>2, Zenon DEF NeedsBrackets
<1>4. CASE d = <<>>
  <2>1. NameAddrString(a) = IF NeedsBrackets(a) THEN InBrackets(u) ELSE String(u)
    BY <1>2, <1>4, Zenon DEF NameAddrString
  <2>2. PICK x : x = String(u)
    OBVIOUS
  <2>3. InBrackets(u) = <<>> \o InBrackets(u)
    <3>1. "<" \in Char /\ ">" \in Char
      BY DEF Char, Plain, Other
    <3>2. PICK l : l = <<"<">>
      OBVIOUS
    <3>3. PICK g : g = <<">">>
      OBVIOUS
    <3>4. l \in Seq(Char) /\ g \in Seq(Char)
      BY <3>1, <3>2, <3>3, One
    <3>5. PICK y : y = l \o x \o g
      OBVIOUS
    <3>6. y \in Seq(Char)
      BY <2>2, <3>4, <3>5, ConcatProperties
    <3>7. y = <<>> \o y
      BY <3>6
    <3>8. InBrackets(u) = y
      BY <2>2, <3>2, <3>3, <3>5, Zenon DEF InBrackets
    <3> QED
      BY <3>7, <3>8, Zenon
  <2>4. NameBefore(d) = <<>>
    BY <1>4, Zenon DEF NameBefore
  <2> QED
    BY <1>1, <1>4, <2>1, <2>3, <2>4, Zenon
<1>5. CASE d # <<>> /\ validToken(d)
  <2>1. NameAddrString(a) = d \o <<" ">> \o InBrackets(u)
    BY <1>2, <1>5, Zenon DEF NameAddrString
  <2>2. NameBefore(d) = d \o <<" ">>
    BY <1>5, Zenon DEF NameBefore
  <2> QED
    BY <1>1, <1>3, <1>5, <2>1, <2>2, Zenon
<1>6. CASE d # <<>> /\ ~validToken(d)
  <2>1. NameAddrString(a) = <<"\"">> \o d \o <<"\"">> \o <<" ">> \o InBrackets(u)
    BY <1>2, <1>6, Zenon DEF NameAddrString
  <2>2. NameBefore(d) = <<"\"">> \o d \o <<"\"">> \o <<" ">>
    BY <1>6, Zenon DEF NameBefore, InQuotes, DQ
  <2> QED
    BY <1>1, <1>3, <1>6, <2>1, <2>2, Zenon
<1> QED
  BY <1>4, <1>5, <1>6

\* An address without brackets and quotes is a URI, and nothing follows it.
LEMMA BareRead ==
  ASSUME NEW t \in Seq(Char), Ends(t, Bracket), \A i \in 1..Len(t) : t[i] # "<" /\ t[i] # DQ
  PROVE  ParseNameAddr(t) = [Addr |-> NewNameAddr(<<>>, Parse(t)), trail |-> <<>>]
<1>3. FirstOutside(t, "<", 1) = 0
  BY NoneOutside
<1>z. PICK z : z = 0
  OBVIOUS
<1>m. PICK m : m = Len(t) + 1
  OBVIOUS
<1>4. ParseNameAddr(t) = NameAddrAt(t, z, z)
  BY <1>3, <1>z, Zenon DEF ParseNameAddr
<1>5. ~Quoted(t, m)
  <2>2. m \in Nat /\ m <= Len(t) + 1 /\ m - 1 = Len(t) /\ m \in 1..m
    BY <1>m
  <2>3. \A i \in 1..Len(t) : t[i] # DQ
    OBVIOUS
  <2>4. \A i \in 1..m : ~Quoted(t, i)
    BY <2>2, <2>3, NothingQuoted
  <2> QED
    BY <2>2, <2>4, Zenon
<1>6. NameAddrAt(t, z, z) =
         [Addr  |-> NewNameAddr(<<>>, Parse(Trim(SubSeq(t, z + 1, m - 1), Bracket))),
          trail |-> TrimLeft(SubSeq(t, m, Len(t)), Bracket)]
  BY <1>z, <1>m, <1>5, Zenon DEF NameAddrAt, Bracket
<1>7. SubSeq(t, z + 1, m - 1) = t
  <2>1. z + 1 = 1 /\ m - 1 = Len(t)
    BY <1>z, <1>m
  <2>2. SubSeq(t, 1, Len(t)) = t
    BY SeqEqual
  <2> QED
    BY <2>1, <2>2, Zenon
<1>8. Trim(t, Bracket) = t
  BY TrimNothing DEF Ends
<1>9. TrimLeft(SubSeq(t, m, Len(t)), Bracket) = <<>>
  <2>1. PICK e : e = SubSeq(t, m, Len(t))
    OBVIOUS
  <2>2. e = <<>>
    BY <2>1, <1>m
  <2>3. e \in Seq(Char) /\ e \o e = e /\ \A i \in 1..Len(e) : e[i] \in Bracket
    BY <2>2
  <2>4. TrimLeft(e \o e, Bracket) = e
    BY <2>2, <2>3, TrimLeftOf
  <2> QED
    BY <2>1, <2>2, <2>3, <2>4, Zenon
<1> QED
  BY <1>4, <1>6, <1>7, <1>8, <1>9, Zenon

\* The parts of an address that can be read back.
ReadableParts(d, u, r) ==
    /\ d \in Seq(Char) /\ Ends(d, AroundName) /\ \A i \in 1..Len(d) : d[i] # DQ /\ d[i] # BS
    /\ u # NoUri /\ Clean(String(u)) /\ String(u) # <<>> /\ Parse(String(u)) = u
    /\ r \in Seq(Char) /\ Ends(r, ParamCut)
    /\ NeedsBrackets(NameUri(d, u)) \/ r = <<>>

\* Name, URI and parameters are found in what is written.
LEMMA WrittenPartsRead ==
  ASSUME NEW d, NEW u, NEW r, ReadableParts(d, u, r)
  PROVE  ParseNameAddr(ToText(ToRecord(d, u, r))) =
             [Addr |-> NameUri(d, u), trail |-> ParamText(";", r)]
<1>0. /\ d \in Seq(Char) /\ Ends(d, AroundName) /\ r \in Seq(Char) /\ Ends(r, ParamCut)
      /\ \A i \in 1..Len(d) : d[i] # DQ /\ d[i] # BS
      /\ u # NoUri /\ Clean(String(u)) /\ Parse(String(u)) = u
      /\ NeedsBrackets(NameUri(d, u)) \/ r = <<>>
  BY Zenon DEF ReadableParts
<1> USE <1>0
<1>1. PICK t : t = String(u)
  OBVIOUS
<1>2. Clean(t) /\ t \in Seq(Char) /\ Parse(t) = u
  BY <1>1 DEF Clean
<1>3. PICK p : p = ParamText(";", r)
  OBVIOUS
<1>4. /\ p \in Seq(Char) /\ (p # <<>> => p[1] \notin Bracket) /\ Param(p) = r
      /\ \A s \in Seq(Char) : WithParam(s, r) = s \o p
  <2>1. r # <<>> => r[1] \notin ParamCut /\ r[Len(r)] \notin ParamCut
    BY DEF Ends
  <2> QED
    BY <2>1, <1>3, ParamKept, Zenon
<1>5. Trail(p)
  BY <1>4 DEF Trail
<1>6. PICK b : b = NameBefore(d)
  OBVIOUS
<1>7. b \in Seq(Char) /\ Trim(b, AroundName) = d
  BY <1>6, NameKept
<1>8. PICK w : w = ToText(ToRecord(d, u, r))
  OBVIOUS
<1>9. w = WithParam(NameAddrString(NameUri(d, u)), r)
  <2>1. PICK x : x = ToRecord(d, u, r)
    OBVIOUS
  <2>2. x.Addr = NameUri(d, u) /\ x.RawParameter = r
    BY <2>1, RecordParts
  <2> QED
    BY <1>8, <2>1, <2>2, Zenon DEF ToText
<1>10. CASE NeedsBrackets(NameUri(d, u))
  <2>1. NameAddrString(NameUri(d, u)) = b \o (<<"<">> \o t \o <<">">>)
    BY <1>1, <1>2, <1>6, <1>10, AddressWritten, Zenon DEF InBrackets
  <2>2. PICK x : x = b \o (<<"<">> \o t \o <<">">>)
    OBVIOUS
  <2>3. x \in Seq(Char)
    <3>1. "<" \in Char /\ ">" \in Char
      BY DEF Char, Plain, Other
    <3>2. PICK l : l = <<"<">>
      OBVIOUS
    <3>3. PICK g : g = <<">">>
      OBVIOUS
    <3>4. l \in Seq(Char) /\ g \in Seq(Char)
      BY <3>1, <3>2, <3>3, One
    <3>5. PICK y : y = l \o t \o g
      OBVIOUS
    <3>6. y \in Seq(Char)
      BY <1>2, <3>4, <3>5, ConcatProperties
    <3>7. b \o y \in Seq(Char)
      BY <1>7, <3>6, ConcatProperties
    <3>8. x = b \o y
      BY <2>2, <3>2, <3>3, <3>5, Zenon
    <3> QED
      BY <3>7, <3>8, Zenon
  <2>4. x \o p = Layout(b, t, p)
    BY <1>2, <1>4, <1>7, <2>2, LayoutText
  <2>5. w = Layout(b, t, p)
    BY <1>4, <1>9, <2>1, <2>2, <2>3, <2>4, Zenon
  <2>6. ParseNameAddr(Layout(b, t, p)) = ReadAddr(b, t, p)
    <3>1. CASE d = <<>>
      <4>1. b = <<>>
        BY <3>1, <1>6, Zenon DEF NameBefore
      <4>2. \A i \in 1..Len(b) : b[i] # DQ /\ b[i] # "<"
        BY <4>1
      <4> QED
        BY <4>2, <1>2, <1>5, <1>7, UnquotedRead
    <3>2. CASE d # <<>> /\ validToken(d)
      <4>1. PICK c : c = " "
        OBVIOUS
      <4>2. b = d \o <<c>>
        BY <3>2, <4>1, <1>6, Zenon DEF NameBefore
      <4>3. c \in Char /\ c # "<"
        BY <4>1 DEF Char, Plain, Other
      <4>4. c # DQ
        BY <4>1, Zenon DEF DQ
      <4>5. \A i \in 1..Len(d) : d[i] # "<"
        <5>1. "<" \in Plain /\ "<" \notin Alnum \cup {"#", "$", "%", "&", "*", "+", "-", "."}
          BY DEF Plain, Other, Alnum, Letters, Capitals, Digits
        <5>2. ~IsPct("<") /\ "<" # BadPct
          BY <5>1, Escapes
        <5>3. DOMAIN d = 1..Len(d)
          OBVIOUS
        <5> QED
          BY <5>1, <5>2, <5>3, <3>2, Zenon DEF validToken
      <4>6. /\ Len(b) = Len(d) + 1 /\ b[Len(d) + 1] = c
            /\ \A i \in 1..Len(d) : b[i] = d[i]
        BY <4>2, <4>3, Suffixed
      <4>7. ASSUME NEW i \in 1..Len(b) PROVE b[i] # DQ /\ b[i] # "<"
        <5>1. Len(d) \in Nat
          OBVIOUS
        <5>2. i \in 1..Len(d) \/ i = Len(d) + 1
          BY <4>6, <5>1
        <5> QED
          BY <5>2, <4>3, <4>4, <4>5, <4>6, Zenon
      <4> QED
        BY <4>7, <1>2, <1>5, <1>7, UnquotedRead
    <3>3. CASE d # <<>> /\ ~validToken(d)
      <4>1. b = InQuotes(d)
        BY <3>3, <1>6, Zenon DEF NameBefore
      <4>2. ParseNameAddr(Layout(InQuotes(d), t, p)) = ReadAddr(InQuotes(d), t, p)
        BY <3>3, <1>2, <1>5, QuotedRead
      <4> QED
        BY <4>1, <4>2, Zenon
    <3> QED
      BY <3>1, <3>2, <3>3
  <2>7. ParseNameAddr(w) = [Addr |-> NewNameAddr(d, u), trail |-> p]
    BY <1>2, <1>7, <2>5, <2>6, Zenon DEF ReadAddr
  <2>8. NewNameAddr(d, u) = NameUri(d, u)
    BY RecordParts
  <2> QED
    BY <1>3, <1>8, <2>7, <2>8, Zenon
<1>11. CASE ~NeedsBrackets(NameUri(d, u))
  <2>1. d = <<>> /\ r = <<>> /\ NameAddrString(NameUri(d, u)) = t
    BY <1>1, <1>2, <1>11, AddressWritten, Zenon
  <2>2. w = t
    BY <1>9, <2>1, Zenon DEF WithParam
  <2>3. Ends(t, Bracket) /\ \A i \in 1..Len(t) : t[i] # "<" /\ t[i] # DQ
    BY <1>2, Zenon DEF Clean, Ends
  <2>4. ParseNameAddr(t) = [Addr |-> NewNameAddr(<<>>, u), trail |-> <<>>]
    BY <1>2, <2>3, BareRead, Zenon
  <2>10. NewNameAddr(d, u) = NameUri(d, u)
    BY RecordParts
  <2>11. ParseNameAddr(w) = [Addr |-> NameUri(d, u), trail |-> <<>>]
    BY <2>1, <2>2, <2>4, <2>10, Zenon
  <2>12. p = <<>>
    BY <1>3, <2>1, Zenon DEF ParamText
  <2> QED
    BY <1>3, <1>8, <2>11, <2>12, Zenon
<1> QED
  BY <1>10, <1>11

\* The address is read again from what is written.
LEMMA WrittenAddressRead ==
  ASSUME NEW d, NEW u, NEW r, ReadableParts(d, u, r)
  PROVE  ParseTo(ToText(ToRecord(d, u, r))) = ToRecord(d, u, r)
<1>1. PICK n : n = ParseNameAddr(ToText(ToRecord(d, u, r)))
  OBVIOUS
<1>2. n = [Addr |-> NameUri(d, u), trail |-> ParamText(";", r)]
  BY <1>1, WrittenPartsRead, Zenon
<1>3. n.Addr = NameUri(d, u) /\ n.trail = ParamText(";", r)
  BY <1>2
<1>4. r \in Seq(Char) /\ Ends(r, ParamCut)
  BY Zenon DEF ReadableParts
<1>5. r # <<>> => r[1] \notin ParamCut /\ r[Len(r)] \notin ParamCut
  BY <1>4 DEF Ends
<1>6. Param(ParamText(";", r)) = r
  BY <1>4, <1>5, ParamKept, Zenon
<1> QED
  BY <1>1, <1>3, <1>6, Zenon DEF ParseTo, NewToHeader, ToRecord

\* FirstOutside is a position, or 0.
LEMMA FirstOutsideType ==
  ASSUME NEW S, NEW s \in Seq(S), NEW c, NEW i
  PROVE  FirstOutside(s, c, i) \in 0..Len(s)
<1> DEFINE f == [j \in DOMAIN s |-> j >= i /\ s[j] = c /\ ~Quoted(s, j)]
<1> DEFINE I == {j \in 1..Len(f) : f[j]}
<1>1. FirstOutside(s, c, i) = IF I # {} THEN Min(I) ELSE 0
  BY DEF FirstOutside, SelectInSeq
<1>2. Len(f) = Len(s) /\ Len(s) \in Nat
  OBVIOUS
<1>3. I \in SUBSET (1..Len(s)) /\ I \in SUBSET Nat
  BY <1>2
<1> HIDE DEF I, f
<1>4. CASE I = {}
  BY <1>1, <1>2, <1>4
<1>5. CASE I # {}
  <2>1. Min(I) \in I
    BY <1>3, <1>5, MinIsLeast
  <2>2. PICK m : m = Min(I)
    OBVIOUS
  <2>3. m \in 1..Len(s)
    BY <2>1, <2>2, <1>3
  <2> QED
    BY <1>1, <1>2, <1>5, <2>2, <2>3
<1> QED
  BY <1>4, <1>5

\* The parts of an address that is read.
LEMMA NameAddrParts ==
  ASSUME NEW s \in Seq(Char), ParseNameAddr(s).Addr # NoAddr
  PROVE  \E d, x, tr \in Seq(Char) :
             /\ Parse(x) # NoUri /\ Ends(d, AroundName)
             /\ ParseNameAddr(s) = [Addr |-> NameUri(d, Parse(x)), trail |-> tr]
<1>1. PICK lt : lt = FirstOutside(s, "<", 1)
  OBVIOUS
<1>2. PICK gt : gt = IF lt = 0 THEN 0 ELSE FirstOutside(s, ">", lt + 1)
  OBVIOUS
<1>3. Len(s) \in Nat /\ lt \in 0..Len(s) /\ gt \in 0..Len(s)
  <2>1. Len(s) \in Nat /\ 0 \in 0..Len(s)
    OBVIOUS
  <2>2. \A c, i : FirstOutside(s, c, i) \in 0..Len(s)
    BY FirstOutsideType
  <2> QED
    BY <1>1, <1>2, <2>1, <2>2, Zenon
<1>4. PICK ue : ue = IF gt = 0 THEN Len(s) + 1 ELSE gt
  OBVIOUS
<1>5. ue \in 1..(Len(s) + 1)
  BY <1>3, <1>4
<1>6. PICK n : n = ParseNameAddr(s)
  OBVIOUS
<1>7. n = NameAddrAt(s, lt, gt)
  BY <1>1, <1>2, <1>6, Zenon DEF ParseNameAddr
<1>8. PICK d : d = IF lt = 0 THEN <<>> ELSE Trim(Upto(s, lt), AroundName)
  OBVIOUS
<1>9. PICK x : x = Trim(SubSeq(s, lt + 1, ue - 1), Bracket)
  OBVIOUS
<1>10. PICK tr : tr = TrimLeft(SubSeq(s, ue, Len(s)), Bracket)
  OBVIOUS
<1>13. n.Addr # NoAddr
  BY <1>6, Zenon
<1>14. n = [Addr |-> NewNameAddr(d, Parse(x)), trail |-> tr]
  <2>1. CASE Quoted(s, ue) \/ (lt # 0 /\ gt = 0)
    <3>1. n = [Addr |-> NoAddr, trail |-> <<>>]
      BY <1>4, <1>7, <2>1, Zenon DEF NameAddrAt
    <3> QED
      BY <3>1, <1>13
  <2>2. CASE ~(Quoted(s, ue) \/ (lt # 0 /\ gt = 0))
    BY <1>4, <1>7, <1>8, <1>9, <1>10, <2>2, Zenon DEF NameAddrAt, AroundName, Bracket
  <2> QED
    BY <2>1, <2>2
<1>15. n.Addr = NewNameAddr(d, Parse(x)) /\ n.trail = tr
  BY <1>14
<1>16. Parse(x) # NoUri
  BY <1>13, <1>15, Zenon DEF NewNameAddr
<1>17. n = [Addr |-> NameUri(d, Parse(x)), trail |-> tr]
  <2>1. NewNameAddr(d, Parse(x)) = NameUri(d, Parse(x))
    BY <1>16, RecordParts
  <2> QED
    BY <1>14, <2>1, Zenon
<1>18. x \in Seq(Char)
  <2>1. PICK y : y = SubSeq(s, lt + 1, ue - 1)
    OBVIOUS
  <2>2. y \in Seq(Char)
    BY <2>1, <1>3, <1>5
  <2> QED
    BY <2>1, <2>2, <1>9, Trimmed
<1>19. tr \in Seq(Char)
  <2>1. PICK y : y = SubSeq(s, ue, Len(s))
    OBVIOUS
  <2>2. y \in Seq(Char)
    BY <2>1, <1>3, <1>5
  <2> QED
    BY <2>1, <2>2, <1>10, TrimLeftParts
<1>21. d \in Seq(Char) /\ Ends(d, AroundName)
  <2>1. CASE lt = 0
    <3>1. d = <<>>
      BY <1>8, <2>1
    <3>2. <<>> \in Seq(Char)
      OBVIOUS
    <3> QED
      BY <3>1, <3>2, Zenon DEF Ends
  <2>2. CASE lt # 0
    <3>1. PICK y : y = Upto(s, lt)
      OBVIOUS
    <3>2. y \in Seq(Char)
      <4>1. lt \in 1..Len(s)
        BY <2>2, <1>3
      <4>2. Upto(s, lt) \in Seq(Char)
        BY <4>1, CutAt
      <4> QED
        BY <3>1, <4>2
    <3>3. d = Trim(y, AroundName)
      BY <1>8, <2>2, <3>1
    <3> QED
      BY <3>2, <3>3, Trimmed DEF Ends
  <2> QED
    BY <2>1, <2>2
<1> QED
  BY <1>6, <1>16, <1>17, <1>18, <1>19, <1>21, Zenon

\* ... and of a To that is read.
LEMMA AddressParts ==
  ASSUME NEW s \in Seq(Char), ParseTo(s).Addr # NoAddr
  PROVE  \E d, x, r \in Seq(Char) :
             /\ Parse(x) # NoUri /\ Ends(d, AroundName) /\ Ends(r, ParamCut)
             /\ ParseTo(s) = ToRecord(d, Parse(x), r)
<1>1. PICK n : n = ParseNameAddr(s)
  OBVIOUS
<1>2. ParseTo(s) = [Addr |-> n.Addr, RawParameter |-> Param(n.trail)]
  BY <1>1, Zenon DEF ParseTo, NewToHeader
<1>3. n.Addr # NoAddr
  BY <1>2
<1>4. PICK d \in Seq(Char), x \in Seq(Char), tr \in Seq(Char) :
             /\ Parse(x) # NoUri /\ Ends(d, AroundName)
             /\ n = [Addr |-> NameUri(d, Parse(x)), trail |-> tr]
  BY <1>1, <1>3, NameAddrParts, Zenon
<1>5. n.Addr = NameUri(d, Parse(x)) /\ n.trail = tr
  BY <1>4
<1>6. PICK r : r = Trim(tr, ParamCut)
  OBVIOUS
<1>7. r \in Seq(Char) /\ Ends(r, ParamCut)
  BY <1>6, Trimmed DEF Ends
<1>8. Param(tr) = r
  BY <1>6, Zenon DEF Param, ParamCut
<1>9. ParseTo(s) = ToRecord(d, Parse(x), r)
  BY <1>2, <1>5, <1>8, Zenon DEF ToRecord
<1> QED
  BY <1>4, <1>7, <1>9, Zenon

\* The parts of an address that has nothing in it that cannot be read back.
LEMMA StableParts ==
  ASSUME NEW d \in Seq(Char), Ends(d, AroundName), NEW x \in Seq(Char), Parse(x) # NoUri,
         NEW r \in Seq(Char), Ends(r, ParamCut), NEW u, u = Parse(x),
         NEW to, to = ToRecord(d, u, r), Stable(to)
  PROVE  ReadableParts(d, u, r)
<1>5. to.Addr = NameUri(d, u) /\ to.RawParameter = r /\ to.Addr.DisplayName = d /\ to.Addr.Uri = u
  BY RecordParts
<1>7. /\ u.Scheme # <<>> /\ u.Fragment = <<>> /\ ~Has(u.Host, ";")
      /\ Last(String(u)) # " "
      /\ NeedsBrackets(NameUri(d, u)) \/ r = <<>>
      /\ (ToSet(d) \cup ToSet(String(u))) \cap {"\"", "\\"} = {}
      /\ ToSet(String(u)) \cap {"<", ">"} = {}
  BY <1>5, Zenon DEF Stable
<1>8. PICK c \in Seq(Char \ {"#"}) : parse(c) # NoUri /\ u = parse(c)
  BY <1>7, FragmentCut
<1>9. PICK t : t = String(u)
  OBVIOUS
<1>10. Parse(t) = u /\ t \in Seq(UriChar) /\ t # <<>> /\ t[1] \in Letters \cup Capitals
  BY <1>7, <1>8, <1>9, UriIsStable, Zenon
<1>11. t \in Seq(Char)
  <2>1. UriChar \subseteq Char
    BY DEF UriChar
  <2> QED
    BY <2>1, <1>10, SeqSub
<1>12. ASSUME NEW e \in Seq(Char), NEW i \in 1..Len(e), NEW v, v \notin ToSet(e) PROVE e[i] # v
  BY <1>12 DEF ToSet
<1>13. ASSUME NEW i \in 1..Len(d) PROVE d[i] # DQ /\ d[i] # BS
  <2>1. DQ \notin ToSet(d) /\ BS \notin ToSet(d)
    BY <1>7, Zenon DEF DQ, BS
  <2> QED
    BY <2>1, <1>12
<1>14. ASSUME NEW i \in 1..Len(t) PROVE t[i] # "<" /\ t[i] # ">" /\ t[i] # DQ
  <2>1. "<" \notin ToSet(t) /\ ">" \notin ToSet(t) /\ DQ \notin ToSet(t)
    BY <1>7, <1>9, Zenon DEF DQ
  <2> QED
    BY <2>1, <1>11, <1>12
<1>15. t[1] \notin Bracket /\ t[Len(t)] \notin Bracket
  <2>1. 1 \in 1..Len(t) /\ Len(t) \in 1..Len(t)
    BY <1>10, <1>11
  <2>2. t[1] # " "
    BY <1>10 DEF Letters, Capitals
  <2>3. t[Len(t)] # " "
    BY <1>7, <1>9, Zenon DEF Last
  <2> QED
    BY <2>1, <2>2, <2>3, <1>14, Zenon DEF Bracket
<1>16. Clean(t)
  BY <1>10, <1>11, <1>14, <1>15, Zenon DEF Clean
<1>17. \A i \in 1..Len(d) : d[i] # DQ /\ d[i] # BS
  BY <1>13
<1> QED
  BY <1>7, <1>9, <1>10, <1>16, <1>17, Zenon DEF ReadableParts

\* An address that can be read back is read back.
LEMMA AddressIsStable ==
  ASSUME NEW s \in Seq(Char), Stable(ParseTo(s))
  PROVE  ParseTo(ToText(ParseTo(s))) = ParseTo(s)
<1>0. ParseTo(s).Addr # NoAddr
  BY Zenon DEF Stable
<1>1. PICK d \in Seq(Char), x \in Seq(Char), r \in Seq(Char) :
             /\ Parse(x) # NoUri /\ Ends(d, AroundName) /\ Ends(r, ParamCut)
             /\ ParseTo(s) = ToRecord(d, Parse(x), r)
  BY <1>0, AddressParts, Zenon
<1>2. PICK u : u = Parse(x)
  OBVIOUS
<1>3. PICK to : to = ToRecord(d, u, r)
  OBVIOUS
<1>4. ParseTo(s) = to
  BY <1>1, <1>2, <1>3, Zenon
<1>5. ReadableParts(d, u, r)
  <2>1. Stable(to)
    BY <1>4, Zenon
  <2> QED
    BY <1>1, <1>2, <1>3, <2>1, StableParts, Zenon
<1>6. ParseTo(ToText(ToRecord(d, u, r))) = ToRecord(d, u, r)
  BY <1>5, WrittenAddressRead, Zenon
<1> QED
  BY <1>3, <1>4, <1>6, Zenon

\* A To or From that can be read back is the same at the next hop: for every text
\* that a peer sends, of every length.
THEOREM AddressIsKept == Spec => []AddressSurvives
<1>1. TypeOK => AddressSurvives
  <2> SUFFICES ASSUME TypeOK, Sent("address"), Stable(ParseTo(FlattenSeq(input)))
               PROVE  ParseTo(ToText(ParseTo(FlattenSeq(input)))) = ParseTo(FlattenSeq(input))
    BY Zenon DEF AddressSurvives
  <2>1. input \in Seq(Seq(Char))
    BY DEF TypeOK, Sent, Elements, Text
  <2>2. FlattenSeq(input) \in Seq(Char)
    BY <2>1, FlattenType
  <2> QED
    BY <2>2, AddressIsStable
<1> QED
  BY <1>1, InputTyped, PTL

--------------------------------------------------------------------------------
(***************************************************************************)
(* Folded lines.                                                           *)
(***************************************************************************)
\* Line k has m continuations.
Stretch(lines, k, m) ==
    /\ m \in Nat /\ k + m + 1 <= Len(lines)
    /\ \A j \in 1..m : lines[k + j].kind = "fold"
    /\ lines[k + m + 1].kind # "fold"

\* What a line, with j = 1, and its continuations add to the value.
Piece(lines, k, j) ==
    IF j = 1 THEN TrimRight(lines[k].value, Blank) ELSE <<" ">> \o Trim(lines[k + j - 1].value, Blank)

\* Unless the last line is a continuation, the continuations of a line end before it.
LEMMA StretchExists ==
  ASSUME NEW lines, NEW N \in Nat, N = Len(lines), NEW k \in 1..N, k < N, lines[N].kind # "fold"
  PROVE  \E m : Stretch(lines, k, m)
<1> DEFINE T == {m \in Nat : k + m + 1 <= N /\ lines[k + m + 1].kind # "fold"}
<1>1. N - k - 1 \in T
  <2>1. N - k - 1 \in Nat /\ k + (N - k - 1) + 1 = N
    OBVIOUS
  <2> QED
    BY <2>1
<1>2. PICK m \in T : \A x \in T : m <= x
  <2>1. T \in SUBSET Nat /\ T # {}
    BY <1>1
  <2> HIDE DEF T
  <2> QED
    BY <2>1, Least
<1>3. ASSUME NEW j \in 1..m PROVE lines[k + j].kind = "fold"
  <2>1. j - 1 \in Nat /\ j - 1 < m /\ k + (j - 1) + 1 = k + j /\ k + j <= N
    BY <1>2
  <2>2. j - 1 \notin T
    <3>1. ~(m <= j - 1)
      BY <2>1, <1>2
    <3> QED
      BY <3>1, <1>2, Zenon
  <2>3. lines[k + (j - 1) + 1].kind = "fold"
    <3>1. k + (j - 1) + 1 <= N
      BY <2>1
    <3> QED
      BY <2>1, <2>2, <3>1, Zenon
  <2> QED
    BY <2>1, <2>3, Zenon
<1>4. m \in Nat /\ k + m + 1 <= Len(lines) /\ lines[k + m + 1].kind # "fold"
  BY <1>2
<1>5. Stretch(lines, k, m)
  BY <1>3, <1>4 DEF Stretch
<1> QED
  BY <1>5

\* The last continuation of line k is the last one of the stretch behind it.
LEMMA LastFold ==
  ASSUME NEW lines, NEW N \in Nat, N = Len(lines), NEW k \in 1..N, NEW m, Stretch(lines, k, m)
  PROVE  Max(Folds(lines, k)) = m
<1>1. /\ m \in Nat /\ k + m + 1 <= N
      /\ \A j \in 1..m : lines[k + j].kind = "fold"
      /\ lines[k + m + 1].kind # "fold"
  BY DEF Stretch
<1>2. PICK T : T = Folds(lines, k)
  OBVIOUS
<1>3. T = {n \in 0..(N - k) : \A j \in 1..n : lines[k + j].kind = "fold"}
  BY <1>2, Zenon DEF Folds
<1>4. m \in T
  BY <1>1, <1>3
<1>5. ASSUME NEW n \in T PROVE n \in Nat /\ n <= m
  <2>1. n \in Nat /\ \A j \in 1..n : lines[k + j].kind = "fold"
    BY <1>3
  <2>2. CASE n > m
    <3>1. m + 1 \in 1..n
      BY <1>1, <2>1, <2>2
    <3>2. lines[k + (m + 1)].kind = "fold"
      BY <3>1, <2>1
    <3>3. k + (m + 1) = k + m + 1
      BY <1>1
    <3> QED
      BY <3>2, <3>3, <1>1
  <2> QED
    BY <2>1, <2>2, <1>1
<1>6. N - k \in Nat /\ T \in SUBSET (0..(N - k)) /\ T # {}
  <2>1. N - k \in Nat
    OBVIOUS
  <2>2. T \in SUBSET (0..(N - k)) /\ T # {}
    BY <1>3, <1>4, Zenon
  <2> QED
    BY <2>1, <2>2
<1>7. Max(T) \in T /\ m <= Max(T)
  <2>1. PICK d : d = N - k
    OBVIOUS
  <2>2. d \in Nat /\ T \in SUBSET (0..d) /\ T # {}
    BY <2>1, <1>6, Zenon
  <2> QED
    BY <2>2, <1>4, MaxIsGreatest
<1>8. PICK x : x = Max(T)
  OBVIOUS
<1>9. x = m
  BY <1>1, <1>5, <1>7, <1>8
<1> QED
  BY <1>2, <1>8, <1>9

\* readContinuedLine puts the line and its trimmed continuations one behind the
\* other (reader.go 79-97).
LEMMA PiecesOf ==
  ASSUME NEW lines, NEW N \in Nat, N = Len(lines), NEW k \in 1..N, NEW m, Stretch(lines, k, m)
  PROVE  readContinuedLine(lines, k) = TrimLeft(FlattenSeq([j \in 1..(m + 1) |-> Piece(lines, k, j)]), Blank)
<1>1. Max(Folds(lines, k)) = m
  BY LastFold
<1>2. readContinuedLine(lines, k) =
         TrimLeft(FlattenSeq([j \in 1..(Max(Folds(lines, k)) + 1) |-> Piece(lines, k, j)]), Blank)
  BY Zenon DEF readContinuedLine, Piece
<1> QED
  BY <1>1, <1>2, Zenon

\* An equation that is found by its name.
Same(x, y) == x = y

\* The lines from k to top are those from l on in other, and no continuation follows.
Beside(lines, k, top, other, l) ==
    /\ Len(lines) \in Nat /\ k \in 1..Len(lines) /\ k < Len(lines)
    /\ lines[Len(lines)].kind # "fold"
    /\ Len(other) \in Nat /\ l \in 1..Len(other) /\ l + (top - k) < Len(other)
    /\ top \in Nat /\ top >= k /\ top < Len(lines) /\ lines[top + 1].kind # "fold"
    /\ \A j \in 0..(top - k) : other[l + j] = lines[k + j]
    /\ other[l + (top - k) + 1].kind # "fold"

\* The same lines at another place have the same value.
LEMMA SameLine ==
  ASSUME NEW lines, NEW other, NEW k, NEW l, NEW top, Beside(lines, k, top, other, l)
  PROVE  Same(readContinuedLine(other, l), readContinuedLine(lines, k))
<1>a. PICK N : N = Len(lines)
  OBVIOUS
<1>b. PICK M : M = Len(other)
  OBVIOUS
<1>0. /\ N \in Nat /\ N = Len(lines) /\ M \in Nat /\ M = Len(other)
      /\ k \in 1..N /\ k < N /\ lines[N].kind # "fold"
      /\ l \in 1..M /\ l + (top - k) < M
      /\ top \in Nat /\ top >= k /\ top < N /\ lines[top + 1].kind # "fold"
      /\ \A j \in 0..(top - k) : other[l + j] = lines[k + j]
      /\ other[l + (top - k) + 1].kind # "fold"
  BY <1>a, <1>b, Zenon DEF Beside
<1>1. PICK m : Stretch(lines, k, m)
  BY <1>0, StretchExists
<1>2. /\ m \in Nat /\ k + m + 1 <= N
      /\ \A j \in 1..m : lines[k + j].kind = "fold"
      /\ lines[k + m + 1].kind # "fold"
  BY <1>0, <1>1 DEF Stretch
<1>3. m <= top - k
  <2> SUFFICES ASSUME ~(m <= top - k) PROVE FALSE
    OBVIOUS
  <2>1. PICK j : j = top - k + 1
    OBVIOUS
  <2>a. m \in Nat /\ top - k \in Nat /\ k \in Nat /\ top \in Nat
    BY <1>0, <1>2
  <2>2. j \in 1..m /\ k + j = top + 1
    BY <2>1, <2>a
  <2>3. lines[k + j].kind = "fold"
    BY <2>2, <1>2
  <2> QED
    BY <2>2, <2>3, <1>0
<1>4. Stretch(other, l, m)
  <2>1. l + m + 1 <= M
    BY <1>0, <1>2, <1>3
  <2>2. ASSUME NEW j \in 1..m PROVE other[l + j].kind = "fold"
    <3>1. j \in 0..(top - k)
      BY <1>0, <1>2, <1>3
    <3> QED
      BY <3>1, <1>0, <1>2
  <2>3. other[l + m + 1].kind # "fold"
    <3>1. CASE m = top - k
      BY <3>1, <1>0
    <3>2. CASE m # top - k
      <4>1. PICK j : j = m + 1
        OBVIOUS
      <4>2. j \in 0..(top - k) /\ l + j = l + m + 1 /\ k + j = k + m + 1
        BY <4>1, <3>2, <1>0, <1>2, <1>3
      <4>3. other[l + j] = lines[k + j]
        BY <4>2, <1>0
      <4> QED
        BY <4>2, <4>3, <1>2, Zenon
    <3> QED
      BY <3>1, <3>2
  <2> QED
    BY <2>1, <2>2, <2>3, <1>0, <1>2 DEF Stretch
<1>5. ASSUME NEW j \in 1..(m + 1) PROVE Piece(other, l, j) = Piece(lines, k, j)
  <2>1. CASE j = 1
    <3>1. 0 \in 0..(top - k) /\ l + 0 = l /\ k + 0 = k
      BY <1>0
    <3>2. other[l] = lines[k]
      BY <3>1, <1>0
    <3> QED
      BY <2>1, <3>2, Zenon DEF Piece
  <2>2. CASE j # 1
    <3>1. j - 1 \in 0..(top - k) /\ l + j - 1 = l + (j - 1) /\ k + j - 1 = k + (j - 1)
      BY <1>0, <1>2, <1>3, <2>2
    <3>2. other[l + j - 1] = lines[k + j - 1]
      BY <3>1, <1>0
    <3> QED
      BY <2>2, <3>2, Zenon DEF Piece
  <2> QED
    BY <2>1, <2>2
<1>6. [j \in 1..(m + 1) |-> Piece(other, l, j)] = [j \in 1..(m + 1) |-> Piece(lines, k, j)]
  BY <1>5, Zenon
<1>7. readContinuedLine(other, l) = TrimLeft(FlattenSeq([j \in 1..(m + 1) |-> Piece(other, l, j)]), Blank)
  BY <1>0, <1>4, PiecesOf
<1>8. readContinuedLine(lines, k) = TrimLeft(FlattenSeq([j \in 1..(m + 1) |-> Piece(lines, k, j)]), Blank)
  BY <1>0, <1>1, PiecesOf
<1> QED
  BY <1>6, <1>7, <1>8, Zenon DEF Same

\* A sequence of texts whose first one is written in two parts.
LEMMA FlattenSplit ==
  ASSUME NEW n \in Nat \ {0}, NEW s, Len(s) = n, NEW t, Len(t) = n + 1,
         s[1] = t[1] \o t[2],
         \A j \in 2..n : t[j + 1] = s[j]
  PROVE  FlattenSeq(t) = FlattenSeq(s)
<1>1. PICK f : /\ FlattenSeq(s) = f[n]
               /\ f[1] = s[1]
               /\ \A i \in 2..n : f[i] = f[i - 1] \o s[i]
  BY FlattenSteps
<1>2. PICK g : /\ FlattenSeq(t) = g[n + 1]
               /\ g[1] = t[1]
               /\ \A i \in 2..(n + 1) : g[i] = g[i - 1] \o t[i]
  <2>1. PICK m : m = n + 1
    OBVIOUS
  <2>2. m \in Nat \ {0} /\ m = Len(t)
    BY <2>1
  <2>3. \E g : /\ FlattenSeq(t) = g[m]
               /\ g[1] = t[1]
               /\ \A i \in 2..m : g[i] = g[i - 1] \o t[i]
    BY <2>2, FlattenSteps
  <2> QED
    BY <2>1, <2>3
<1> DEFINE G == {i \in 0..n : i = 0 \/ g[i + 1] = f[i]}
<1>3. 0 \in G
  OBVIOUS
<1>4. ASSUME NEW i \in 1..n, i - 1 \in G PROVE i \in G
  <2>1. CASE i = 1
    <3>1. 2 \in 2..(n + 1) /\ 2 - 1 = 1 /\ i + 1 = 2
      BY <2>1
    <3>2. g[2] = t[1] \o t[2]
      BY <3>1, <1>2, Zenon
    <3>3. g[i + 1] = f[i]
      BY <2>1, <3>1, <3>2, <1>1, Zenon
    <3> QED
      BY <3>3
  <2>2. CASE i # 1
    <3>1. i \in 2..n /\ i + 1 \in 2..(n + 1) /\ (i + 1) - 1 = i /\ (i - 1) + 1 = i
      BY <2>2
    <3>2. g[i] = f[i - 1]
      BY <3>1, <2>2, <1>4
    <3>3. g[i + 1] = g[i] \o t[i + 1] /\ f[i] = f[i - 1] \o s[i] /\ t[i + 1] = s[i]
      BY <3>1, <1>1, <1>2, Zenon
    <3>4. g[i + 1] = f[i]
      BY <3>2, <3>3, Zenon
    <3> QED
      BY <3>4
  <2> QED
    BY <2>1, <2>2
<1>5. \A i \in 1..n : i - 1 \in G => i \in G
  BY <1>4
<1>6. n \in G
  <2>1. n \in Nat /\ n \in 0..n
    OBVIOUS
  <2> HIDE DEF G
  <2>2. \A i \in 0..n : i \in G
    BY <2>1, <1>3, <1>5, StepByStep
  <2> QED
    BY <2>1, <2>2
<1> QED
  BY <1>1, <1>2, <1>6

\* What TrimRight takes away.
LEMMA TrimRightRest ==
  ASSUME NEW S, NEW s \in Seq(S), NEW cut
  PROVE  \E c \in Seq(S) : s = TrimRight(s, cut) \o c /\ \A i \in 1..Len(c) : c[i] \in cut
<1> DEFINE I == {i \in 1..Len(s) : s[i] \notin cut}
<1>1. PICK n : n = SelectLastInSeq(s, LAMBDA d : d \notin cut)
  OBVIOUS
<1>2. n = IF I # {} THEN Max(I) ELSE 0
  BY <1>1 DEF SelectLastInSeq
<1>3. TrimRight(s, cut) = SubSeq(s, 1, n)
  BY <1>1 DEF TrimRight
<1>4. n \in 0..Len(s) /\ \A j \in (n + 1)..Len(s) : s[j] \in cut
  <2>1. CASE I = {}
    BY <1>2, <2>1
  <2>2. CASE I # {}
    <3>1. I \in SUBSET (0..Len(s)) /\ Len(s) \in Nat
      OBVIOUS
    <3>2. n \in I /\ \A j \in I : j <= n
      <4> HIDE DEF I
      <4> QED
        BY <1>2, <2>2, <3>1, MaxIsGreatest
    <3> QED
      BY <3>2
  <2> QED
    BY <2>1, <2>2
<1>5. PICK c : c = SubSeq(s, n + 1, Len(s))
  OBVIOUS
<1>6. c \in Seq(S) /\ Len(c) = Len(s) - n /\ \A j \in 1..(Len(s) - n) : c[j] = s[n + j]
  BY <1>4, <1>5
<1>7. ASSUME NEW j \in 1..Len(c) PROVE c[j] \in cut
  <2>1. j \in 1..(Len(s) - n) /\ n + j \in (n + 1)..Len(s)
    BY <1>4, <1>6
  <2> QED
    BY <2>1, <1>4, <1>6
<1>8. s = TrimRight(s, cut) \o c
  <2>1. s = SubSeq(s, 1, n) \o SubSeq(s, n + 1, Len(s))
    BY <1>4, Halves
  <2> QED
    BY <1>3, <1>5, <2>1, Zenon
<1> QED
  BY <1>6, <1>7, <1>8

\* The last element of two sequences put together is that of the second.
LEMMA LastOfBoth ==
  ASSUME NEW S, NEW a \in Seq(S), NEW t \in Seq(S), t # <<>>, NEW x, x = a \o t
  PROVE  x \in Seq(S) /\ x # <<>> /\ x[Len(x)] = t[Len(t)]
<1>1. Len(t) \in Nat /\ Len(t) > 0 /\ Len(a) \in Nat
  BY EmptySeq
<1>2. /\ x \in Seq(S) /\ Len(x) = Len(a) + Len(t)
      /\ \A i \in 1..(Len(a) + Len(t)) : x[i] = IF i <= Len(a) THEN a[i] ELSE t[i - Len(a)]
  BY ConcatProperties
<1>3. Len(x) \in 1..(Len(a) + Len(t)) /\ ~(Len(x) <= Len(a)) /\ Len(x) - Len(a) = Len(t)
  BY <1>1, <1>2
<1>4. x[Len(x)] = t[Len(t)]
  BY <1>2, <1>3
<1> QED
  BY <1>1, <1>2, <1>4

\* Texts are put together in any grouping.
LEMMA Regrouped ==
  ASSUME NEW S, NEW a \in Seq(S), NEW b \in Seq(S), NEW c \in Seq(S)
  PROVE  Same((a \o b) \o c, a \o (b \o c))
  BY ConcatAssociative DEF Same

\* Texts put together are a text.
LEMMA TogetherOver ==
  ASSUME NEW S, NEW a \in Seq(S), NEW b \in Seq(S)
  PROVE  a \o b \in Seq(S)
  BY ConcatProperties

\* What TrimRight keeps, and what it takes away.
Kept(t, cut) == t # <<>> /\ t[Len(t)] \notin cut
Taken(c, cut) == \A i \in 1..Len(c) : c[i] \in cut

\* The end of the last of three texts is trimmed, and the others are kept.
LEMMA TrimThird ==
  ASSUME NEW S, NEW cut, NEW a \in Seq(S), NEW b \in Seq(S), NEW t \in Seq(S), NEW c \in Seq(S),
         Kept(t, cut), Taken(c, cut)
  PROVE  Same(TrimRight((a \o b) \o (t \o c), cut), a \o (b \o t))
<1>1. a \o b \in Seq(S)
  BY TogetherOver, Zenon
<1>2. Same(((a \o b) \o t) \o c, (a \o b) \o (t \o c)) /\ Same((a \o b) \o t, a \o (b \o t))
  BY <1>1, Regrouped, Zenon
<1>3. PICK x : x = (a \o b) \o t
  OBVIOUS
<1>4. x \in Seq(S) /\ x[Len(x)] = t[Len(t)] /\ t[Len(t)] \notin cut
  <2>1. t # <<>> /\ t[Len(t)] \notin cut
    BY DEF Kept
  <2>2. PICK ab : ab = a \o b
    OBVIOUS
  <2>3. ab \in Seq(S) /\ x = ab \o t
    BY <1>1, <1>3, <2>2, Zenon
  <2>4. x \in Seq(S) /\ x # <<>> /\ x[Len(x)] = t[Len(t)]
    BY <2>1, <2>3, LastOfBoth
  <2> QED
    BY <2>1, <2>4, Zenon
<1>5. TrimRight(x \o c, cut) = x
  <2>1. \A i \in 1..Len(c) : c[i] \in cut
    BY DEF Taken
  <2> QED
    BY <2>1, <1>4, TrimRightOf
<1>6. x \o c = (a \o b) \o (t \o c) /\ x = a \o (b \o t)
  BY <1>2, <1>3, Zenon DEF Same
<1> QED
  BY <1>5, <1>6, Zenon DEF Same

\* Nothing is lost at a blank where a value is folded.
LEMMA FoldedValue ==
  ASSUME NEW v \in Seq(Char), NEW p \in SingleBlanks(v)
  PROVE  TrimRight(v, Blank) =
             TrimRight(Upto(v, p), Blank) \o (<<" ">> \o Trim(After(v, p), Blank))
<1>0. PICK s : s = " "
  OBVIOUS
<1>1. p \in 1..(Len(v) - 1) /\ v[p] = s /\ v[p + 1] # s /\ (p = 1 \/ v[p - 1] # s)
  BY <1>0, Zenon DEF SingleBlanks
<1>2. Blank = {s} /\ s \in Char
  BY <1>0 DEF Blank, Char, Plain, Other
<1>3. Len(v) \in Nat /\ p \in 1..Len(v)
  BY <1>1
<1>4. PICK a : a = Upto(v, p)
  OBVIOUS
<1>5. PICK b : b = After(v, p)
  OBVIOUS
<1>6. /\ a \in Seq(Char) /\ Len(a) = p - 1 /\ \A k \in 1..(p - 1) : a[k] = v[k]
      /\ b \in Seq(Char) /\ Len(b) = Len(v) - p /\ \A k \in 1..(Len(v) - p) : b[k] = v[p + k]
      /\ v = a \o <<s>> \o b
  <2>1. /\ Upto(v, p) \in Seq(Char) /\ Len(Upto(v, p)) = p - 1
        /\ \A k \in 1..(p - 1) : Upto(v, p)[k] = v[k]
        /\ After(v, p) \in Seq(Char) /\ Len(After(v, p)) = Len(v) - p
        /\ \A k \in 1..(Len(v) - p) : After(v, p)[k] = v[p + k]
        /\ v = Upto(v, p) \o <<v[p]>> \o After(v, p)
    BY <1>3, CutAt
  <2> QED
    BY <2>1, <1>1, <1>4, <1>5, Zenon
<1>7. b # <<>> /\ b[1] # s
  <2>1. 1 \in 1..(Len(v) - p) /\ Len(b) # 0
    BY <1>1, <1>6, <1>3
  <2>2. b[1] = v[p + 1]
    BY <2>1, <1>6
  <2> QED
    BY <2>1, <2>2, <1>1
<1>8. TrimRight(a, Blank) = a
  <2>1. a # <<>> => a[Len(a)] \notin Blank
    <3> SUFFICES ASSUME a # <<>> PROVE a[Len(a)] \notin Blank
      OBVIOUS
    <3>1. p # 1 /\ p - 1 \in 1..(p - 1)
      BY <1>6, <1>3
    <3>2. a[Len(a)] = v[p - 1]
      BY <3>1, <1>6
    <3> QED
      BY <3>1, <3>2, <1>1, <1>2
  <2>2. PICK e : e = <<>>
    OBVIOUS
  <2>3. a \in Seq(Char) /\ e \in Seq(Char) /\ \A i \in 1..Len(e) : e[i] \in Blank
    BY <2>2, <1>6
  <2>4. TrimRight(a \o e, Blank) = a
    BY <2>1, <2>3, TrimRightOf
  <2>5. a \o e = a
    BY <2>2, <2>3
  <2> QED
    BY <2>4, <2>5, Zenon
<1>9. TrimLeft(b, Blank) = b
  <2>1. b # <<>> => b[1] \notin Blank
    BY <1>2, <1>7
  <2>2. PICK e : e = <<>>
    OBVIOUS
  <2>3. b \in Seq(Char) /\ e \in Seq(Char) /\ \A i \in 1..Len(e) : e[i] \in Blank
    BY <2>2, <1>6
  <2>4. TrimLeft(e \o b, Blank) = b
    BY <2>1, <2>3, TrimLeftOf
  <2>5. e \o b = b
    BY <2>2, <2>3
  <2> QED
    BY <2>4, <2>5, Zenon
<1>10. PICK t : t = TrimRight(b, Blank)
  OBVIOUS
<1>11. Trim(b, Blank) = t
  BY <1>9, <1>10, Zenon DEF Trim
<1>12. t \in Seq(Char) /\ (t # <<>> => t[Len(t)] \notin Blank)
  <2>1. b \in Seq(Char)
    BY <1>6
  <2>2. \E x : /\ x = TrimRight(b, Blank)
               /\ x \in Seq(Char)
               /\ x # <<>> => x[Len(x)] \notin Blank
               /\ Len(x) <= Len(b) /\ \A i \in 1..Len(x) : x[i] = b[i]
    BY <2>1, TrimRightParts
  <2> QED
    BY <2>2, <1>10, Zenon
<1>13. PICK c \in Seq(Char) : b = t \o c /\ \A i \in 1..Len(c) : c[i] \in Blank
  <2>1. b \in Seq(Char)
    BY <1>6
  <2> QED
    BY <2>1, <1>10, TrimRightRest
<1>14. t # <<>>
  <2> SUFFICES ASSUME t = <<>> PROVE FALSE
    OBVIOUS
  <2>1. b = c
    BY <1>13
  <2>2. 1 \in 1..Len(c)
    BY <2>1, <1>7
  <2> QED
    BY <2>1, <2>2, <1>2, <1>7, <1>13
<1>15. PICK sp : sp = <<s>>
  OBVIOUS
<1>16. sp \in Seq(Char) /\ a \in Seq(Char) /\ t \in Seq(Char) /\ c \in Seq(Char)
  BY <1>2, <1>6, <1>12, <1>13, <1>15, One
<1>17. Same(TrimRight((a \o sp) \o (t \o c), Blank), a \o (sp \o t))
  <2>1. Kept(t, Blank) /\ Taken(c, Blank)
    BY <1>12, <1>13, <1>14, Zenon DEF Kept, Taken
  <2> QED
    BY <2>1, <1>16, TrimThird, Zenon
<1>18. v = (a \o sp) \o (t \o c)
  BY <1>6, <1>13, <1>15, Zenon
<1> QED
  BY <1>0, <1>4, <1>5, <1>8, <1>11, <1>15, <1>17, <1>18, Zenon DEF Same

\* The lines with line i folded.
IsFolded(lines, other, i, p) ==
    /\ Len(other) = Len(lines) + 1
    /\ \A j \in 1..(i - 1) : other[j] = lines[j]
    /\ other[i].kind = "field" /\ other[i].name = lines[i].name /\ other[i].form = lines[i].form
    /\ other[i].value = Upto(lines[i].value, p)
    /\ other[i + 1].kind = "fold" /\ other[i + 1].value = After(lines[i].value, p)
    /\ \A j \in (i + 1)..Len(lines) : other[j + 1] = lines[j]

\* The line that was folded.
LEMMA FoldedLine ==
  ASSUME NEW lines, NEW N \in Nat, N = Len(lines), lines[N].kind # "fold",
         NEW i \in 1..N, i < N, NEW v \in Seq(Char), v = lines[i].value, NEW p \in SingleBlanks(v),
         NEW other, IsFolded(lines, other, i, p)
  PROVE  readContinuedLine(other, i) = readContinuedLine(lines, i)
<1>1. /\ Len(other) = N + 1
      /\ other[i].value = Upto(v, p)
      /\ other[i + 1].kind = "fold" /\ other[i + 1].value = After(v, p)
      /\ \A j \in (i + 1)..N : other[j + 1] = lines[j]
  BY Zenon DEF IsFolded
<1>2. PICK m : Stretch(lines, i, m)
  BY StretchExists
<1>3. /\ m \in Nat /\ i + m + 1 <= N
      /\ \A j \in 1..m : lines[i + j].kind = "fold"
      /\ lines[i + m + 1].kind # "fold"
  BY <1>2 DEF Stretch
<1>4. PICK n : n = m + 1
  OBVIOUS
<1>5. Stretch(other, i, n)
  <2>1. n \in Nat /\ i + n + 1 <= Len(other)
    BY <1>1, <1>3, <1>4
  <2>2. ASSUME NEW j \in 1..n PROVE other[i + j].kind = "fold"
    <3>1. CASE j = 1
      BY <3>1, <1>1
    <3>2. CASE j # 1
      <4>1. PICK k : k = j - 1
        OBVIOUS
      <4>2. k \in 1..m /\ i + k \in (i + 1)..N /\ (i + k) + 1 = i + j
        BY <4>1, <3>2, <1>3, <1>4
      <4>3. other[(i + k) + 1] = lines[i + k]
        BY <4>2, <1>1
      <4> QED
        BY <4>2, <4>3, <1>3, Zenon
    <3> QED
      BY <3>1, <3>2
  <2>3. other[i + n + 1].kind # "fold"
    <3>1. PICK k : k = i + m + 1
      OBVIOUS
    <3>2. m \in Nat /\ i \in Nat /\ k <= N /\ N \in Nat
      BY <3>1, <1>3
    <3>3. k \in (i + 1)..N /\ k + 1 = i + n + 1
      BY <3>1, <3>2, <1>4
    <3>4. other[k + 1] = lines[k]
      BY <3>3, <1>1, Zenon
    <3> QED
      BY <3>1, <3>3, <3>4, <1>3, Zenon
  <2> QED
    BY <2>1, <2>2, <2>3 DEF Stretch
<1>6. PICK s : s = [j \in 1..n |-> Piece(lines, i, j)]
  OBVIOUS
<1>7. PICK t : t = [j \in 1..(n + 1) |-> Piece(other, i, j)]
  OBVIOUS
<1>8. n \in Nat \ {0} /\ Len(s) = n /\ Len(t) = n + 1
  BY <1>3, <1>4, <1>6, <1>7
<1>9. s[1] = t[1] \o t[2]
  <2>1. 1 \in 1..n /\ 1 \in 1..(n + 1) /\ 2 \in 1..(n + 1) /\ i + 2 - 1 = i + 1 /\ 2 # 1
    BY <1>8
  <2>2. s[1] = TrimRight(v, Blank)
    BY <2>1, <1>6, Zenon DEF Piece
  <2>3. t[1] = TrimRight(Upto(v, p), Blank)
    BY <2>1, <1>1, <1>7, Zenon DEF Piece
  <2>4. t[2] = <<" ">> \o Trim(After(v, p), Blank)
    BY <2>1, <1>1, <1>7, Zenon DEF Piece
  <2> QED
    BY <2>2, <2>3, <2>4, FoldedValue, Zenon
<1>10. ASSUME NEW j \in 2..n PROVE t[j + 1] = s[j]
  <2>1. j \in 1..n /\ j + 1 \in 1..(n + 1) /\ j # 1 /\ j + 1 # 1
    BY <1>8
  <2>2. PICK k : k = i + j - 1
    OBVIOUS
  <2>3. k \in (i + 1)..N /\ i + (j + 1) - 1 = k + 1
    BY <2>2, <1>3, <1>4
  <2>4. other[k + 1] = lines[k]
    BY <2>3, <1>1
  <2>5. s[j] = <<" ">> \o Trim(lines[k].value, Blank)
    BY <2>1, <2>2, <1>6, Zenon DEF Piece
  <2>6. t[j + 1] = <<" ">> \o Trim(other[k + 1].value, Blank)
    BY <2>1, <2>3, <1>7, Zenon DEF Piece
  <2> QED
    BY <2>4, <2>5, <2>6, Zenon
<1>11. FlattenSeq(t) = FlattenSeq(s)
  <2>1. \A j \in 2..n : t[j + 1] = s[j]
    BY <1>10
  <2> QED
    BY <2>1, <1>8, <1>9, FlattenSplit
<1>12. readContinuedLine(other, i) = TrimLeft(FlattenSeq(t), Blank)
  <2>1. PICK M : M = N + 1
    OBVIOUS
  <2>2. M \in Nat /\ M = Len(other) /\ i \in 1..M
    BY <2>1, <1>1
  <2> QED
    BY <2>2, <1>5, <1>7, PiecesOf, Zenon
<1>13. readContinuedLine(lines, i) = TrimLeft(FlattenSeq(s), Blank)
  BY <1>2, <1>4, <1>6, PiecesOf, Zenon
<1> QED
  BY <1>11, <1>12, <1>13, Zenon

\* The header ends at line e.
EndsAt(lines, e) ==
    /\ e \in 1..Len(lines) /\ lines[e].kind = "empty"
    /\ \A j \in 1..(e - 1) : lines[j].kind # "empty"

\* A header with an empty line ends at the first one.
LEMMA EndExists ==
  ASSUME NEW lines, NEW N \in Nat, N = Len(lines), N # 0, lines[N].kind = "empty"
  PROVE  \E e : EndsAt(lines, e)
<1> DEFINE T == {i \in 1..N : lines[i].kind = "empty"}
<1>1. PICK e \in T : \A x \in T : e <= x
  <2>1. T \in SUBSET Nat /\ N \in T
    OBVIOUS
  <2> HIDE DEF T
  <2> QED
    BY <2>1, Least
<1>2. ASSUME NEW j \in 1..(e - 1) PROVE lines[j].kind # "empty"
  <2>1. j \in 1..N /\ ~(e <= j)
    BY <1>1
  <2>2. j \notin T
    BY <2>1, <1>1, Zenon
  <2> QED
    BY <2>1, <2>2
<1>3. e \in 1..N /\ lines[e].kind = "empty"
  BY <1>1
<1>4. EndsAt(lines, e)
  BY <1>2, <1>3 DEF EndsAt
<1> QED
  BY <1>4

\* The header ends at the first empty line.
LEMMA EndIs ==
  ASSUME NEW lines, NEW N \in Nat, N = Len(lines), NEW e, EndsAt(lines, e)
  PROVE  HeaderEnd(lines) = e
<1>1. /\ e \in 1..N /\ lines[e].kind = "empty"
      /\ \A j \in 1..(e - 1) : lines[j].kind # "empty"
  BY DEF EndsAt
<1>2. PICK T : T = {i \in 1..N : lines[i].kind = "empty"}
  OBVIOUS
<1>3. HeaderEnd(lines) = IF T # {} THEN Min(T) ELSE 0
  BY <1>2, Zenon DEF HeaderEnd, SelectInSeq
<1>4. e \in T /\ \A x \in T : x \in Nat /\ e <= x
  <2>1. e \in T
    BY <1>1, <1>2
  <2>2. ASSUME NEW x \in T PROVE x \in Nat /\ e <= x
    <3>1. x \in 1..N /\ lines[x].kind = "empty"
      BY <1>2
    <3>2. x \notin 1..(e - 1)
      BY <3>1, <1>1
    <3> QED
      BY <3>1, <3>2, <1>1
  <2> QED
    BY <2>1, <2>2
<1>5. Min(T) \in T /\ \A y \in T : Min(T) <= y
  <2>1. T \in SUBSET Nat /\ T # {}
    BY <1>4
  <2> QED
    BY <2>1, MinIsLeast
<1>6. Min(T) <= e /\ e <= Min(T) /\ Min(T) \in Nat /\ e \in Nat
  BY <1>4, <1>5, <1>1
<1>7. PICK x : x = Min(T)
  OBVIOUS
<1>8. x = e
  BY <1>6, <1>7
<1>9. T # {}
  BY <1>4
<1> QED
  BY <1>3, <1>7, <1>8, <1>9, Zenon

\* The values of a key.
ValuesOf(lines, key) ==
    LET values[i \in 0..HeaderEnd(lines)] ==
            IF i = 0 THEN <<>>
            ELSE IF lines[i].kind = "field" /\ canonicalKey(lines[i]) = key
            THEN Append(values[i - 1], readContinuedLine(lines, i))
            ELSE values[i - 1]
    IN  values[HeaderEnd(lines)]

\* What line i adds to the values of a key.
Adding(lines, key, i, v) ==
    IF lines[i].kind = "field" /\ canonicalKey(lines[i]) = key
    THEN Append(v, readContinuedLine(lines, i)) ELSE v

NoValues == <<>>

\* The function that ReadMIMEHeader defines, for the first n lines.
Gathers(lines, key, n, f) ==
    f = [i \in 0..n |-> IF i = 0 THEN NoValues ELSE Adding(lines, key, i, f[i - 1])]

\* There is such a function.
LEMMA GathersExists ==
  ASSUME NEW lines, NEW key
  PROVE  \A n \in Nat : \E f : Gathers(lines, key, n, f)
<1> DEFINE T == {n \in Nat : ~\E f : Gathers(lines, key, n, f)}
<1> SUFFICES ASSUME T # {} PROVE FALSE
  OBVIOUS
<1>1. PICK n \in T : \A k \in T : n <= k
  BY Least
<1>2. n # 0
  <2>1. Gathers(lines, key, 0, [i \in 0..0 |-> NoValues])
    BY DEF Gathers
  <2> QED
    BY <2>1
<1>3. PICK f : Gathers(lines, key, n - 1, f)
  <2>1. n - 1 \in Nat /\ n - 1 \notin T
    BY <1>1, <1>2
  <2> QED
    BY <2>1
<1> DEFINE g == [i \in 0..n |-> IF i = n THEN Adding(lines, key, n, f[n - 1]) ELSE f[i]]
<1>4. Gathers(lines, key, n, g)
  BY <1>2, <1>3 DEF Gathers
<1> QED
  BY <1>4

\* ReadMIMEHeader, line by line.
LEMMA ValuesSteps ==
  ASSUME NEW lines, NEW e \in Nat, e = HeaderEnd(lines), NEW key \in ToSet(Names)
  PROVE  \E f : /\ ReadMIMEHeader(lines)[key] = f[e]
                /\ f[0] = NoValues
                /\ \A i \in 1..e : f[i] = Adding(lines, key, i, f[i - 1])
<1>1. PICK f : f = CHOOSE g : Gathers(lines, key, e, g)
  OBVIOUS
<1>2. Gathers(lines, key, e, f)
  BY <1>1, GathersExists
<1>3. ReadMIMEHeader(lines)[key] = f[e]
  BY <1>1, Zenon DEF ReadMIMEHeader, Gathers, Adding, NoValues
<1>4. \A i \in 0..e : f[i] = IF i = 0 THEN NoValues ELSE Adding(lines, key, i, f[i - 1])
  BY <1>2 DEF Gathers
<1>5. f[0] = NoValues
  BY <1>4
<1>6. ASSUME NEW i \in 1..e PROVE f[i] = Adding(lines, key, i, f[i - 1])
  BY <1>4
<1> QED
  BY <1>3, <1>5, <1>6

\* Where line j is after line i was folded.
Place(i, j) == IF j <= i THEN j ELSE j + 1

\* A header in which field i is folded at a single blank.
Folding(lines, other, i) ==
    /\ i \in 1..Len(lines) /\ i < Len(lines)
    /\ lines[Len(lines)].kind = "empty"
    /\ lines[i].kind = "field" /\ lines[i].value \in Seq(Char)
    /\ \E p \in SingleBlanks(lines[i].value) : IsFolded(lines, other, i, p)

\* The lines of both headers.
Moved(lines, other, i) ==
    /\ i \in 1..Len(lines) /\ i < Len(lines)
    /\ lines[i].kind = "field" /\ lines[Len(lines)].kind = "empty"
    /\ Len(other) = Len(lines) + 1
    /\ \A j \in 1..(i - 1) : other[j] = lines[j]
    /\ other[i].kind = "field" /\ other[i].name = lines[i].name /\ other[i].form = lines[i].form
    /\ other[i + 1].kind = "fold"
    /\ \A j \in (i + 1)..Len(lines) : other[j + 1] = lines[j]

\* Folding a line splits it and moves the lines behind it by one.
LEMMA FoldingParts ==
  ASSUME NEW lines, NEW other, NEW i, Folding(lines, other, i)
  PROVE  Moved(lines, other, i)
<1>1. PICK p : IsFolded(lines, other, i, p)
  BY Zenon DEF Folding
<1>2. /\ i \in 1..Len(lines) /\ i < Len(lines)
      /\ lines[i].kind = "field" /\ lines[Len(lines)].kind = "empty"
  BY Zenon DEF Folding
<1> QED
  BY <1>1, <1>2, Zenon DEF IsFolded, Moved

\* Every field reads as before.
LEMMA FieldKept ==
  ASSUME NEW lines, NEW N \in Nat, N = Len(lines), NEW other, NEW i, Folding(lines, other, i),
         NEW j \in 1..N, j < N
  PROVE  readContinuedLine(other, Place(i, j)) = readContinuedLine(lines, j)
<1>1. /\ i \in 1..N /\ i < N /\ lines[i].kind = "field" /\ lines[N].kind = "empty"
      /\ Len(other) = N + 1
      /\ \A k \in 1..(i - 1) : other[k] = lines[k]
      /\ other[i].kind = "field"
      /\ \A k \in (i + 1)..N : other[k + 1] = lines[k]
  <2>1. Moved(lines, other, i)
    BY FoldingParts, Zenon
  <2> QED
    BY <2>1, Zenon DEF Moved
<1>2. PICK M : M = N + 1
  OBVIOUS
<1>3. M \in Nat /\ M = Len(other) /\ lines[N].kind # "fold"
  BY <1>1, <1>2
<1>4. CASE j < i
  <2>1. PICK top : top = i - 1
    OBVIOUS
  <2>2. /\ top \in Nat /\ top >= j /\ top < N /\ j + (top - j) < M /\ top + 1 = i
        /\ j + (top - j) + 1 = i /\ j \in 1..M
    BY <2>1, <1>1, <1>2, <1>4
  <2>3. lines[top + 1].kind # "fold" /\ other[j + (top - j) + 1].kind # "fold"
    BY <2>2, <1>1
  <2>4. ASSUME NEW d \in 0..(top - j) PROVE other[j + d] = lines[j + d]
    <3>1. j + d \in 1..(i - 1)
      BY <2>1, <2>2, <1>1
    <3> QED
      BY <3>1, <1>1
  <2>5. readContinuedLine(other, j) = readContinuedLine(lines, j)
    <3>1. Beside(lines, j, top, other, j)
      BY <2>2, <2>3, <2>4, <1>1, <1>2, <1>3 DEF Beside
    <3> QED
      <4>1. Same(readContinuedLine(other, j), readContinuedLine(lines, j))
        BY <3>1, SameLine, Zenon
      <4> QED
        BY <4>1, Zenon DEF Same
  <2>6. Place(i, j) = j
    BY <1>1, <1>4 DEF Place
  <2> QED
    BY <2>5, <2>6, Zenon
<1>5. CASE j = i
  <2>1. PICK p \in SingleBlanks(lines[i].value) : IsFolded(lines, other, i, p)
    BY Zenon DEF Folding
  <2>2. PICK v : v = lines[i].value
    OBVIOUS
  <2>3. v \in Seq(Char) /\ p \in SingleBlanks(v)
    BY <2>1, <2>2, Zenon DEF Folding
  <2>4. readContinuedLine(other, i) = readContinuedLine(lines, i)
    BY <2>1, <2>2, <2>3, <1>1, <1>3, FoldedLine, Zenon
  <2>5. Place(i, j) = j
    BY <1>1, <1>5 DEF Place
  <2> QED
    BY <2>4, <2>5, <1>5, Zenon
<1>6. CASE j > i
  <2>1. PICK top : top = N - 1
    OBVIOUS
  <2>2. PICK l : l = j + 1
    OBVIOUS
  <2>3. /\ top \in Nat /\ top >= j /\ top < N /\ l + (top - j) < M /\ top + 1 = N
        /\ l + (top - j) + 1 = N + 1 /\ l \in 1..M /\ N \in (i + 1)..N
    BY <2>1, <2>2, <1>1, <1>2, <1>6
  <2>4. other[N + 1] = lines[N]
    BY <2>3, <1>1, Zenon
  <2>5. lines[top + 1].kind # "fold" /\ other[l + (top - j) + 1].kind # "fold"
    BY <2>3, <2>4, <1>1, <1>3, Zenon
  <2>6. ASSUME NEW d \in 0..(top - j) PROVE other[l + d] = lines[j + d]
    <3>1. j + d \in (i + 1)..N /\ l + d = (j + d) + 1
      BY <2>1, <2>2, <1>1, <1>6
    <3> QED
      BY <3>1, <1>1, Zenon
  <2>7. readContinuedLine(other, l) = readContinuedLine(lines, j)
    <3>1. Beside(lines, j, top, other, l)
      BY <2>3, <2>5, <2>6, <1>1, <1>2, <1>3 DEF Beside
    <3> QED
      <4>1. Same(readContinuedLine(other, l), readContinuedLine(lines, j))
        BY <3>1, SameLine, Zenon
      <4> QED
        BY <4>1, Zenon DEF Same
  <2>8. Place(i, j) = l
    BY <1>1, <1>6, <2>2 DEF Place
  <2> QED
    BY <2>7, <2>8, Zenon
<1> QED
  BY <1>4, <1>5, <1>6, <1>1

\* A line adds to the values what it added before.
LEMMA SameAdding ==
  ASSUME NEW lines, NEW N \in Nat, N = Len(lines), NEW other, NEW i, Folding(lines, other, i),
         NEW j \in 1..N, NEW key, NEW v
  PROVE  Same(Adding(other, key, Place(i, j), v), Adding(lines, key, j, v))
<1>1. ASSUME lines[j].kind = "field"
      PROVE  readContinuedLine(other, Place(i, j)) = readContinuedLine(lines, j)
  <2>1. lines[N].kind = "empty"
    <3>1. Moved(lines, other, i)
      BY FoldingParts, Zenon
    <3> QED
      BY <3>1, Zenon DEF Moved
  <2>2. j < N
    <3>1. j # N
      BY <1>1, <2>1
    <3> QED
      BY <3>1
  <2> QED
    BY <2>2, FieldKept
<1>2. /\ i \in 1..N /\ i < N /\ lines[i].kind = "field"
      /\ \A k \in 1..(i - 1) : other[k] = lines[k]
      /\ other[i].kind = "field" /\ other[i].name = lines[i].name /\ other[i].form = lines[i].form
      /\ \A k \in (i + 1)..N : other[k + 1] = lines[k]
  <2>1. Moved(lines, other, i)
    BY FoldingParts, Zenon
  <2> QED
    BY <2>1, Zenon DEF Moved
<1>3. /\ other[Place(i, j)].kind = lines[j].kind
      /\ lines[j].kind = "field" => canonicalKey(other[Place(i, j)]) = canonicalKey(lines[j])
  <2>1. CASE j = i
    <3>1. Place(i, j) = i
      BY <2>1, <1>2 DEF Place
    <3>2. canonicalKey(other[i]) = canonicalKey(lines[i])
      BY <1>2, Zenon DEF canonicalKey
    <3> QED
      BY <2>1, <3>1, <3>2, <1>2, Zenon
  <2>2. CASE j < i
    <3>1. Place(i, j) = j /\ j \in 1..(i - 1)
      BY <2>2, <1>2 DEF Place
    <3>2. other[j] = lines[j]
      BY <3>1, <1>2
    <3> QED
      BY <3>1, <3>2, Zenon
  <2>3. CASE j > i
    <3>1. Place(i, j) = j + 1 /\ j \in (i + 1)..N
      BY <2>3, <1>2 DEF Place
    <3>2. other[j + 1] = lines[j]
      BY <3>1, <1>2
    <3> QED
      BY <3>1, <3>2, Zenon
  <2> QED
    BY <2>1, <2>2, <2>3, <1>2
<1> QED
  BY <1>1, <1>3, Zenon DEF Adding, Same

\* The header ends at the same line.
LEMMA EndMoved ==
  ASSUME NEW lines, NEW N \in Nat, N = Len(lines), NEW other, NEW i, Folding(lines, other, i),
         NEW e, EndsAt(lines, e)
  PROVE  e # i /\ EndsAt(other, Place(i, e))
<1>1. /\ i \in 1..N /\ i < N /\ lines[i].kind = "field"
      /\ Len(other) = N + 1
      /\ \A k \in 1..(i - 1) : other[k] = lines[k]
      /\ other[i].kind = "field" /\ other[i + 1].kind = "fold"
      /\ \A k \in (i + 1)..N : other[k + 1] = lines[k]
  <2>1. Moved(lines, other, i)
    BY FoldingParts, Zenon
  <2> QED
    BY <2>1, Zenon DEF Moved
<1>2. /\ e \in 1..N /\ lines[e].kind = "empty"
      /\ \A j \in 1..(e - 1) : lines[j].kind # "empty"
  BY DEF EndsAt
<1>3. e # i
  BY <1>1, <1>2
<1>4. CASE e < i
  <2>1. Place(i, e) = e /\ e \in 1..(i - 1) /\ e \in 1..Len(other)
    BY <1>1, <1>2, <1>4 DEF Place
  <2>2. other[e].kind = "empty"
    BY <2>1, <1>1, <1>2
  <2>3. ASSUME NEW j \in 1..(e - 1) PROVE other[j].kind # "empty"
    <3>1. j \in 1..(i - 1)
      BY <2>1, <1>1
    <3> QED
      BY <3>1, <1>1, <1>2
  <2> QED
    BY <2>1, <2>2, <2>3, <1>3 DEF EndsAt
<1>5. CASE e > i
  <2>1. Place(i, e) = e + 1 /\ e \in (i + 1)..N /\ e + 1 \in 1..Len(other)
    BY <1>1, <1>2, <1>5 DEF Place
  <2>2. other[e + 1].kind = "empty"
    BY <2>1, <1>1, <1>2
  <2>3. ASSUME NEW j \in 1..((e + 1) - 1) PROVE other[j].kind # "empty"
    <3>1. CASE j < i
      <4>1. j \in 1..(i - 1) /\ j \in 1..(e - 1)
        BY <3>1, <1>1, <1>2, <1>5
      <4> QED
        BY <4>1, <1>1, <1>2
    <3>2. CASE j = i \/ j = i + 1
      BY <3>2, <1>1
    <3>3. CASE j > i + 1
      <4>1. PICK k : k = j - 1
        OBVIOUS
      <4>2. k \in (i + 1)..N /\ k \in 1..(e - 1) /\ k + 1 = j
        BY <4>1, <3>3, <1>1, <1>2, <1>5
      <4> QED
        BY <4>2, <1>1, <1>2
    <3> QED
      BY <3>1, <3>2, <3>3, <1>1, <1>2
  <2> QED
    BY <2>1, <2>2, <2>3, <1>3 DEF EndsAt
<1> QED
  BY <1>1, <1>2, <1>3, <1>4, <1>5

\* Every key has the same values.
LEMMA SameValues ==
  ASSUME NEW lines, NEW N \in Nat, N = Len(lines), NEW other, NEW i, Folding(lines, other, i),
         NEW key \in ToSet(Names)
  PROVE  ReadMIMEHeader(other)[key] = ReadMIMEHeader(lines)[key]
<1>1. /\ i \in 1..N /\ i < N /\ lines[N].kind = "empty"
      /\ Len(other) = N + 1
      /\ other[i + 1].kind = "fold"
  <2>1. Moved(lines, other, i)
    BY FoldingParts, Zenon
  <2> QED
    BY <2>1, Zenon DEF Moved
<1>2. PICK e : EndsAt(lines, e)
  <2>1. N # 0
    BY <1>1
  <2> QED
    BY <2>1, <1>1, EndExists
<1>3. e # i /\ EndsAt(other, Place(i, e))
  BY <1>2, EndMoved, Zenon
<1>4. PICK d : d = Place(i, e)
  OBVIOUS
<1>5. e \in 1..N /\ d \in 1..(N + 1)
  BY <1>1, <1>2, <1>3, <1>4 DEF EndsAt
<1>6. e \in Nat /\ e = HeaderEnd(lines)
  BY <1>2, <1>5, EndIs
<1>7. d \in Nat /\ d = HeaderEnd(other)
  <2>1. N + 1 \in Nat
    OBVIOUS
  <2> QED
    BY <2>1, <1>1, <1>3, <1>4, <1>5, EndIs
<1>8. PICK f : /\ ReadMIMEHeader(lines)[key] = f[e]
               /\ f[0] = NoValues
               /\ \A j \in 1..e : f[j] = Adding(lines, key, j, f[j - 1])
  BY <1>6, ValuesSteps
<1>9. PICK g : /\ ReadMIMEHeader(other)[key] = g[d]
               /\ g[0] = NoValues
               /\ \A j \in 1..d : g[j] = Adding(other, key, j, g[j - 1])
  BY <1>7, ValuesSteps
<1> DEFINE G == {j \in 0..e : g[IF j < i THEN j ELSE j + 1] = f[j]}
<1>10. 0 \in G
  <2>1. 0 < i
    BY <1>1
  <2> QED
    BY <2>1, <1>5, <1>8, <1>9
<1>11. ASSUME NEW j \in 1..e, j - 1 \in G PROVE j \in G
  <2>1. j \in 1..N
    BY <1>5
  <2>2. \A v : Same(Adding(other, key, Place(i, j), v), Adding(lines, key, j, v))
    BY <2>1, SameAdding
  <2>3. f[j] = Adding(lines, key, j, f[j - 1])
    BY <1>8
  <2>4. CASE j < i
    <3>1. Place(i, j) = j /\ j - 1 < i /\ j \in 1..d
      BY <2>4, <1>1, <1>4, <1>5 DEF Place
    <3>2. g[j - 1] = f[j - 1]
      BY <3>1, <1>11
    <3>3. g[j] = Adding(other, key, j, f[j - 1])
      BY <3>1, <3>2, <1>9, Zenon
    <3>4. Same(Adding(other, key, j, f[j - 1]), Adding(lines, key, j, f[j - 1]))
      BY <2>2, <3>1, Zenon
    <3>5. g[j] = f[j]
      BY <3>3, <3>4, <2>3, Zenon DEF Same
    <3> QED
      BY <3>5, <2>4
  <2>5. CASE j = i
    <3>1. /\ Place(i, j) = j /\ j - 1 < i /\ j \in 1..d /\ ~(j < i)
          /\ j + 1 \in 1..d /\ (j + 1) - 1 = j
      BY <2>5, <1>1, <1>3, <1>4, <1>5 DEF Place
    <3>2. g[j - 1] = f[j - 1]
      BY <3>1, <1>11
    <3>3. g[j] = Adding(other, key, j, f[j - 1])
      BY <3>1, <3>2, <1>9, Zenon
    <3>4. Same(Adding(other, key, j, f[j - 1]), Adding(lines, key, j, f[j - 1]))
      BY <2>2, <3>1, Zenon
    <3>5. g[j] = f[j]
      BY <3>3, <3>4, <2>3, Zenon DEF Same
    <3>6. g[j + 1] = Adding(other, key, j + 1, g[j])
      BY <3>1, <1>9, Zenon
    <3>7. other[j + 1].kind # "field"
      BY <2>5, <1>1
    <3>8. g[j + 1] = f[j]
      BY <3>5, <3>6, <3>7, Zenon DEF Adding
    <3> QED
      BY <3>1, <3>8
  <2>6. CASE j > i
    <3>1. /\ Place(i, j) = j + 1 /\ ~(j - 1 < i) /\ (j - 1) + 1 = j /\ ~(j < i)
          /\ j + 1 \in 1..d /\ (j + 1) - 1 = j
      BY <2>6, <1>1, <1>3, <1>4, <1>5 DEF Place
    <3>2. g[j] = f[j - 1]
      BY <3>1, <1>11
    <3>3. g[j + 1] = Adding(other, key, j + 1, f[j - 1])
      BY <3>1, <3>2, <1>9, Zenon
    <3>4. Same(Adding(other, key, j + 1, f[j - 1]), Adding(lines, key, j, f[j - 1]))
      BY <2>2, <3>1, Zenon
    <3>5. g[j + 1] = f[j]
      BY <3>3, <3>4, <2>3, Zenon DEF Same
    <3> QED
      BY <3>1, <3>5
  <2> QED
    BY <2>1, <2>4, <2>5, <2>6, <1>1
<1>12. \A j \in 1..e : j - 1 \in G => j \in G
  BY <1>11
<1>13. e \in G
  <2>1. e \in Nat /\ e \in 0..e
    BY <1>5
  <2> HIDE DEF G
  <2>2. \A j \in 0..e : j \in G
    BY <2>1, <1>10, <1>12, StepByStep
  <2> QED
    BY <2>1, <2>2
<1>14. d = IF e < i THEN e ELSE e + 1
  BY <1>1, <1>3, <1>4, <1>5 DEF Place
<1>15. g[d] = f[e]
  BY <1>13, <1>14
<1> QED
  BY <1>8, <1>9, <1>15, Zenon

\* The header is dropped or not as before.
LEMMA SameMalformed ==
  ASSUME NEW lines, NEW N \in Nat, N = Len(lines), NEW other, NEW i, Folding(lines, other, i)
  PROVE  Malformed(other) <=> Malformed(lines)
<1>1. /\ i \in 1..N /\ i < N /\ lines[N].kind = "empty" /\ lines[i].kind = "field"
      /\ Len(other) = N + 1
      /\ \A k \in 1..(i - 1) : other[k] = lines[k]
      /\ other[i].kind = "field" /\ other[i + 1].kind = "fold"
      /\ \A k \in (i + 1)..N : other[k + 1] = lines[k]
  <2>1. Moved(lines, other, i)
    BY FoldingParts, Zenon
  <2> QED
    BY <2>1, Zenon DEF Moved
<1>2. PICK e : EndsAt(lines, e)
  <2>1. N # 0
    BY <1>1
  <2> QED
    BY <2>1, <1>1, EndExists
<1>3. e # i /\ EndsAt(other, Place(i, e))
  BY <1>2, EndMoved, Zenon
<1>4. PICK d : d = Place(i, e)
  OBVIOUS
<1>5. e \in 1..N /\ d \in 1..(N + 1)
  BY <1>1, <1>2, <1>3, <1>4 DEF EndsAt
<1>6. e = HeaderEnd(lines)
  BY <1>2, EndIs
<1>7. d = HeaderEnd(other)
  <2>1. N + 1 \in Nat
    OBVIOUS
  <2> QED
    BY <2>1, <1>1, <1>3, <1>4, EndIs
<1>8. d = IF e < i THEN e ELSE e + 1
  BY <1>1, <1>3, <1>4, <1>5 DEF Place
<1>9. other[1].kind = "fold" <=> lines[1].kind = "fold"
  <2>1. CASE i = 1
    BY <2>1, <1>1
  <2>2. CASE i # 1
    <3>1. 1 \in 1..(i - 1)
      BY <2>2, <1>1
    <3> QED
      BY <3>1, <1>1
  <2> QED
    BY <2>1, <2>2
<1>10. ASSUME NEW j \in 1..e, lines[j].kind = "bare" PROVE \E k \in 1..d : other[k].kind = "bare"
  <2>1. j # i
    BY <1>1, <1>10
  <2>2. CASE j < i
    <3>1. j \in 1..(i - 1) /\ j \in 1..d
      BY <2>2, <1>1, <1>5, <1>8
    <3> QED
      BY <3>1, <1>1, <1>10
  <2>3. CASE j > i
    <3>1. j \in (i + 1)..N /\ j + 1 \in 1..d
      BY <2>3, <1>1, <1>5, <1>8
    <3> QED
      BY <3>1, <1>1, <1>10
  <2> QED
    BY <2>1, <2>2, <2>3, <1>1
<1>11. ASSUME NEW k \in 1..d, other[k].kind = "bare" PROVE \E j \in 1..e : lines[j].kind = "bare"
  <2>1. k # i /\ k # i + 1
    BY <1>1, <1>11
  <2>2. CASE k < i
    <3>1. k \in 1..(i - 1) /\ k \in 1..e
      BY <2>2, <1>1, <1>3, <1>5, <1>8
    <3> QED
      BY <3>1, <1>1, <1>11
  <2>3. CASE k > i + 1
    <3>1. PICK j : j = k - 1
      OBVIOUS
    <3>2. j \in (i + 1)..N /\ j \in 1..e /\ j + 1 = k
      BY <3>1, <2>3, <1>1, <1>5, <1>8
    <3> QED
      BY <3>2, <1>1, <1>11
  <2> QED
    BY <2>1, <2>2, <2>3, <1>1, <1>5
<1>12. (\E k \in 1..d : other[k].kind = "bare") <=> (\E j \in 1..e : lines[j].kind = "bare")
  BY <1>10, <1>11, Zenon
<1>13. e # 0 /\ d # 0
  BY <1>5
<1> QED
  BY <1>6, <1>7, <1>9, <1>12, <1>13, Zenon DEF Malformed

\* A message with a folded line is read like the one without (message.go 540-607).
LEMMA SameRead ==
  ASSUME NEW lines, NEW N \in Nat, N = Len(lines), NEW other, NEW i, Folding(lines, other, i)
  PROVE  readMessage(other) = readMessage(lines)
<1>1. Malformed(other) <=> Malformed(lines)
  BY SameMalformed
<1>2. ASSUME NEW key \in ToSet(Names)
      PROVE  ReadMIMEHeader(other)[key] = ReadMIMEHeader(lines)[key]
  BY SameValues
<1>3. /\ ReadMIMEHeader(other) = [key \in ToSet(Names) |-> ValuesOf(other, key)]
      /\ ReadMIMEHeader(lines) = [key \in ToSet(Names) |-> ValuesOf(lines, key)]
  BY Zenon DEF ReadMIMEHeader, ValuesOf
<1>4. ASSUME NEW key \in ToSet(Names) PROVE ValuesOf(other, key) = ValuesOf(lines, key)
  BY <1>2, <1>3
<1>5. ReadMIMEHeader(other) = ReadMIMEHeader(lines)
  BY <1>3, <1>4, Zenon
<1> QED
  BY <1>1, <1>5, Zenon DEF readMessage

\* A field of a header.
LEMMA FieldParts ==
  ASSUME NEW l \in Line, l.kind = "field", NEW w
  PROVE  /\ l.value \in Seq(Char)
         /\ [l EXCEPT !.value = w].kind = "field"
         /\ [l EXCEPT !.value = w].name = l.name
         /\ [l EXCEPT !.value = w].form = l.form
         /\ [l EXCEPT !.value = w].value = w
<1>1. l \in [kind : {"field"}, name : ToSet(Names), form : {"canonical", "other", "compact"}, value : Text]
  BY DEF Line, Bare, Empty
<1>2. PICK T : T = Text
  OBVIOUS
<1>3. PICK Nm : Nm = ToSet(Names)
  OBVIOUS
<1>4. l \in [kind : {"field"}, name : Nm, form : {"canonical", "other", "compact"}, value : T]
  BY <1>1, <1>2, <1>3, Zenon
<1>5. l.value \in T
  BY <1>4
<1>6. /\ [l EXCEPT !.value = w].kind = "field"
      /\ [l EXCEPT !.value = w].name = l.name
      /\ [l EXCEPT !.value = w].form = l.form
      /\ [l EXCEPT !.value = w].value = w
  BY <1>4
<1> QED
  BY <1>2, <1>5, <1>6, Zenon DEF Text

\* The elements of two sequences put together.
Over(S, a, m) == a \in Seq(S) /\ m \in Nat /\ m = Len(a)
PutTogether(S, x, a, m, b, n) ==
    /\ x \in Seq(S) /\ Len(x) = m + n
    /\ \A j \in 1..m : x[j] = a[j]
    /\ \A j \in 1..n : x[m + j] = b[j]

\* Length and elements of two sequences of known length put together.
LEMMA Together ==
  ASSUME NEW S, NEW a, NEW m, Over(S, a, m), NEW b, NEW n, Over(S, b, n)
  PROVE  PutTogether(S, a \o b, a, m, b, n)
<1>1. PICK x : x = a \o b
  OBVIOUS
<1>2. a \in Seq(S) /\ b \in Seq(S) /\ m \in Nat /\ n \in Nat /\ m = Len(a) /\ n = Len(b)
  BY DEF Over
<1>3. /\ x \in Seq(S) /\ Len(x) = m + n
      /\ \A j \in 1..m : x[j] = a[j]
      /\ \A j \in 1..n : x[m + j] = b[j]
  BY <1>1, <1>2
<1> QED
  BY <1>1, <1>3, Zenon DEF PutTogether

\* Two elements, and one at the end.
Exchanged(t, s, n, i, x, y, z) ==
    /\ t = Append(SubSeq(s, 1, i - 1) \o <<x, y>> \o SubSeq(s, i + 1, n), z)
    /\ Len(t) = n + 2
    /\ \A j \in 1..(i - 1) : t[j] = s[j]
    /\ t[i] = x /\ t[i + 1] = y
    /\ \A j \in (i + 1)..n : t[j + 1] = s[j]
    /\ t[n + 2] = z

\* Two elements in place of one.
LEMMA Replaced ==
  ASSUME NEW S, NEW s \in Seq(S), NEW n \in Nat, n = Len(s), NEW i \in 1..n, NEW x, NEW y, NEW z
  PROVE  \E t : Exchanged(t, s, n, i, x, y, z)
<1>1. PICK R : R = S \cup {x, y, z}
  OBVIOUS
<1>2. s \in Seq(R) /\ x \in R /\ y \in R /\ z \in R
  BY <1>1
<1>3. PICK a : a = SubSeq(s, 1, i - 1)
  OBVIOUS
<1>4. PICK c : c = SubSeq(s, i + 1, n)
  OBVIOUS
<1>5. PICK b : b = <<x, y>>
  OBVIOUS
<1>6. a \in Seq(R) /\ Len(a) = i - 1 /\ \A j \in 1..(i - 1) : a[j] = s[j]
  BY <1>2, <1>3
<1>7. c \in Seq(R) /\ Len(c) = n - i /\ \A j \in 1..(n - i) : c[j] = s[i + j]
  BY <1>2, <1>4
<1>8. b \in Seq(R) /\ Len(b) = 2 /\ b[1] = x /\ b[2] = y
  BY <1>2, <1>5
<1>9. PICK m : m = i - 1
  OBVIOUS
<1>10. PICK d : d = n - i
  OBVIOUS
<1>11. m \in Nat /\ m + 1 = i /\ d \in Nat /\ i + d = n /\ i \in Nat
  BY <1>9, <1>10
<1>12. PICK ab : ab = a \o b
  OBVIOUS
<1>13. /\ ab \in Seq(R) /\ Len(ab) = m + 2
       /\ \A j \in 1..m : ab[j] = a[j]
       /\ \A j \in 1..2 : ab[m + j] = b[j]
  <2>1. Over(R, a, m) /\ Over(R, b, 2)
    BY <1>6, <1>8, <1>9, <1>11 DEF Over
  <2>2. PutTogether(R, a \o b, a, m, b, 2)
    BY <2>1, Together, Zenon
  <2> QED
    BY <2>2, <1>12, Zenon DEF PutTogether
<1>14. PICK e : e = m + 2
  OBVIOUS
<1>15. PICK u : u = ab \o c
  OBVIOUS
<1>16. /\ u \in Seq(R) /\ Len(u) = e + d
       /\ \A j \in 1..e : u[j] = ab[j]
       /\ \A j \in 1..d : u[e + j] = c[j]
  <2>1. Over(R, ab, e) /\ Over(R, c, d)
    BY <1>7, <1>10, <1>11, <1>13, <1>14 DEF Over
  <2>2. PutTogether(R, ab \o c, ab, e, c, d)
    BY <2>1, Together, Zenon
  <2> QED
    BY <2>2, <1>15, Zenon DEF PutTogether
<1>17. PICK t : t = Append(u, z)
  OBVIOUS
<1>18. Len(t) = n + 2 /\ (\A j \in 1..(n + 1) : t[j] = u[j]) /\ t[n + 2] = z
  <2>1. e + d = n + 1
    BY <1>11, <1>14
  <2>2. u \in Seq(R) /\ Len(u) = n + 1
    BY <2>1, <1>16, Zenon
  <2>3. PICK q : q = n + 1
    OBVIOUS
  <2>4. q \in Nat /\ Len(u) = q /\ q + 1 = n + 2
    BY <2>2, <2>3
  <2>5. Len(t) = q + 1 /\ (\A j \in 1..q : t[j] = u[j]) /\ t[q + 1] = z
    BY <2>2, <2>4, <1>17
  <2> QED
    BY <2>3, <2>4, <2>5, Zenon
<1>19. ASSUME NEW j \in 1..(i - 1) PROVE t[j] = s[j]
  <2>1. j \in 1..m /\ j \in 1..e /\ j \in 1..(n + 1)
    BY <1>9, <1>11, <1>14
  <2>2. t[j] = u[j] /\ u[j] = ab[j] /\ ab[j] = a[j] /\ a[j] = s[j]
    BY <2>1, <1>6, <1>13, <1>16, <1>18, Zenon
  <2> QED
    BY <2>2, Zenon
<1>20. t[i] = x /\ t[i + 1] = y
  <2>1. /\ m + 1 = i /\ m + 2 = i + 1 /\ i \in 1..e /\ i + 1 \in 1..e
        /\ i \in 1..(n + 1) /\ i + 1 \in 1..(n + 1) /\ 1 \in 1..2 /\ 2 \in 1..2
    BY <1>9, <1>11, <1>14
  <2>2. ab[i] = x /\ ab[i + 1] = y
    BY <2>1, <1>8, <1>13, Zenon
  <2> QED
    BY <2>1, <2>2, <1>16, <1>18, Zenon
<1>21. ASSUME NEW j \in (i + 1)..n PROVE t[j + 1] = s[j]
  <2>1. PICK k : k = j - i
    OBVIOUS
  <2>2. k \in 1..d /\ k \in 1..(n - i) /\ e + k = j + 1 /\ i + k = j /\ j + 1 \in 1..(n + 1)
    BY <2>1, <1>9, <1>10, <1>11, <1>14
  <2>3. t[j + 1] = u[j + 1] /\ u[e + k] = c[k] /\ c[k] = s[i + k]
    BY <2>2, <1>7, <1>16, <1>18
  <2> QED
    BY <2>2, <2>3, Zenon
<1>22. t = Append(SubSeq(s, 1, i - 1) \o <<x, y>> \o SubSeq(s, i + 1, n), z)
  BY <1>3, <1>4, <1>5, <1>12, <1>15, <1>17, Zenon
<1> QED
  BY <1>18, <1>19, <1>20, <1>21, <1>22, Zenon DEF Exchanged

\* Folded puts two lines in the place of field i.
LEMMA FoldedHeader ==
  ASSUME NEW s \in Seq(Line), NEW i \in 1..Len(s), s[i].kind = "field",
         NEW p \in SingleBlanks(s[i].value)
  PROVE  Folding(Append(s, Empty), Append(Folded(s, i, p), Empty), i)
<1>1. PICK n : n = Len(s)
  OBVIOUS
<1>2. PICK l : l = s[i]
  OBVIOUS
<1>3. n \in Nat /\ n = Len(s) /\ i \in 1..n /\ l \in Line /\ l.kind = "field"
  <2>1. n \in Nat /\ i \in 1..n
    BY <1>1
  <2>2. s[i] \in Line
    OBVIOUS
  <2> QED
    BY <2>1, <2>2, <1>1, <1>2, Zenon
<1>4. PICK v : v = l.value
  OBVIOUS
<1>5. PICK x : x = [l EXCEPT !.value = Upto(v, p)]
  OBVIOUS
<1>6. PICK y : y = Fold(After(v, p))
  OBVIOUS
<1>7. /\ v \in Seq(Char)
      /\ x.kind = "field" /\ x.name = l.name /\ x.form = l.form /\ x.value = Upto(v, p)
  BY <1>3, <1>4, <1>5, FieldParts, Zenon
<1>8. y.kind = "fold" /\ y.value = After(v, p)
  BY <1>6 DEF Fold
<1>9. PICK t : /\ t = Append(SubSeq(s, 1, i - 1) \o <<x, y>> \o SubSeq(s, i + 1, n), Empty)
               /\ Len(t) = n + 2
               /\ \A j \in 1..(i - 1) : t[j] = s[j]
               /\ t[i] = x /\ t[i + 1] = y
               /\ \A j \in (i + 1)..n : t[j + 1] = s[j]
               /\ t[n + 2] = Empty
  <2>1. PICK t : Exchanged(t, s, n, i, x, y, Empty)
    BY <1>3, Replaced
  <2> QED
    BY <2>1, Zenon DEF Exchanged
<1>10. t = Append(Folded(s, i, p), Empty)
  BY <1>1, <1>2, <1>4, <1>5, <1>6, <1>9, Zenon DEF Folded
<1>11. PICK w : w = Append(s, Empty)
  OBVIOUS
<1>12. PICK N : N = n + 1
  OBVIOUS
<1>13. N \in Nat /\ Len(w) = N /\ (\A j \in 1..n : w[j] = s[j]) /\ w[N] = Empty
  BY <1>3, <1>11, <1>12
<1>14. w[i] = l
  BY <1>2, <1>3, <1>13, Zenon
<1>15. IsFolded(w, t, i, p)
  <2>1. Len(t) = Len(w) + 1
    BY <1>3, <1>9, <1>12, <1>13
  <2>2. ASSUME NEW j \in 1..(i - 1) PROVE t[j] = w[j]
    <3>1. j \in 1..n
      BY <1>3
    <3> QED
      BY <3>1, <1>9, <1>13
  <2>3. ASSUME NEW j \in (i + 1)..Len(w) PROVE t[j + 1] = w[j]
    <3>1. CASE j = N
      <4>1. j + 1 = n + 2
        BY <3>1, <1>3, <1>12
      <4> QED
        BY <4>1, <3>1, <1>9, <1>13, Zenon
    <3>2. CASE j # N
      <4>1. j \in (i + 1)..n /\ j \in 1..n
        BY <3>2, <1>3, <1>12, <1>13
      <4> QED
        BY <4>1, <1>9, <1>13
    <3> QED
      BY <3>1, <3>2
  <2>4. /\ t[i].kind = "field" /\ t[i].name = w[i].name /\ t[i].form = w[i].form
        /\ t[i].value = Upto(w[i].value, p)
        /\ t[i + 1].kind = "fold" /\ t[i + 1].value = After(w[i].value, p)
    BY <1>4, <1>7, <1>8, <1>9, <1>14, Zenon
  <2> QED
    BY <2>1, <2>2, <2>3, <2>4 DEF IsFolded
<1>16. Folding(w, t, i)
  <2>1. i \in 1..Len(w) /\ i < Len(w)
    BY <1>3, <1>12, <1>13
  <2>2. w[Len(w)].kind = "empty"
    BY <1>13 DEF Empty
  <2>3. w[i].kind = "field" /\ w[i].value \in Seq(Char) /\ p \in SingleBlanks(w[i].value)
    BY <1>2, <1>3, <1>4, <1>7, <1>14, Zenon
  <2> QED
    BY <2>1, <2>2, <2>3, <1>15, Zenon DEF Folding
<1> QED
  BY <1>10, <1>11, <1>16, Zenon

\* Wherever a value of a header is folded at a single blank, the message that is
\* read is the same (MessageSyntax.FoldingIsInvisible; ReadMIMEHeader and
\* readContinuedLineSlice).
THEOREM FoldingIsKept == Spec => []FoldingIsInvisible
<1>1. TypeOK => FoldingIsInvisible
  <2> SUFFICES ASSUME TypeOK, Sent("header"), NEW i \in DOMAIN input, input[i].kind = "field",
                      NEW p \in SingleBlanks(input[i].value)
               PROVE  Read(Folded(input, i, p)) = Read(input)
    BY Zenon DEF FoldingIsInvisible
  <2>1. Elements["header"] = Line
    BY DEF Elements
  <2>2. PICK s : s = input
    OBVIOUS
  <2>3. s \in Seq(Line)
    BY <2>1, <2>2, Zenon DEF TypeOK, Sent
  <2>4. i \in 1..Len(s) /\ s[i].kind = "field" /\ p \in SingleBlanks(s[i].value)
    <3>1. i \in DOMAIN s /\ s[i].kind = "field" /\ p \in SingleBlanks(s[i].value)
      BY <2>2, Zenon
    <3>2. DOMAIN s = 1..Len(s)
      BY <2>3
    <3> QED
      BY <3>1, <3>2, Zenon
  <2>5. PICK lines : lines = Append(s, Empty)
    OBVIOUS
  <2>6. PICK other : other = Append(Folded(s, i, p), Empty)
    OBVIOUS
  <2>7. Folding(lines, other, i)
    BY <2>3, <2>4, <2>5, <2>6, FoldedHeader, Zenon
  <2>8. PICK N : N = Len(lines)
    OBVIOUS
  <2>9. N \in Nat
    <3>1. Empty \in Line
      BY DEF Line
    <3>2. lines \in Seq(Line)
      BY <3>1, <2>3, <2>5, AppendProperties
    <3> QED
      BY <3>2, <2>8
  <2>10. readMessage(other) = readMessage(lines)
    BY <2>7, <2>8, <2>9, SameRead
  <2> QED
    BY <2>2, <2>5, <2>6, <2>10, Zenon DEF Read
<1> QED
  BY <1>1, InputTyped, PTL

--------------------------------------------------------------------------------
(***************************************************************************)
(* Lists.                                                                  *)
(***************************************************************************)
\* The function that reads a list: h takes the first item of a text, n what is
\* left of it.
Items(f, h, n) == f = [t \in Text |-> IF t = <<>> THEN <<>> ELSE <<h[t]>> \o f[n[t]]]

\* ... for the texts up to a length.
UpTo(k) == {t \in Text : Len(t) <= k}
ItemsUpTo(f, h, n, k) == f = [t \in UpTo(k) |-> IF t = <<>> THEN <<>> ELSE <<h[t]>> \o f[n[t]]]

\* Less is left after every item.
Shortens(n) == \A t \in Text : t # <<>> => n[t] \in Text /\ Len(n[t]) < Len(t)

\* There is such a function for every length.
LEMMA ItemsUpToExists ==
  ASSUME NEW h, NEW n, Shortens(n)
  PROVE  \A k \in Nat : \E f : ItemsUpTo(f, h, n, k)
<1> DEFINE T == {k \in Nat : ~\E f : ItemsUpTo(f, h, n, k)}
<1> SUFFICES ASSUME T # {} PROVE FALSE
  OBVIOUS
<1>1. PICK k \in T : \A j \in T : k <= j
  BY Least
<1>2. k # 0
  <2>1. ASSUME NEW t \in UpTo(0) PROVE t = <<>>
    BY EmptySeq DEF UpTo, Text
  <2>2. \A f : [t \in UpTo(0) |-> <<>>] = [t \in UpTo(0) |-> IF t = <<>> THEN <<>> ELSE <<h[t]>> \o f[n[t]]]
    BY <2>1
  <2>3. ItemsUpTo([t \in UpTo(0) |-> <<>>], h, n, 0)
    BY <2>2, Zenon DEF ItemsUpTo
  <2> QED
    BY <2>3
<1>3. PICK f : ItemsUpTo(f, h, n, k - 1)
  <2>1. k - 1 \in Nat /\ k - 1 \notin T
    BY <1>1, <1>2
  <2> QED
    BY <2>1
<1> DEFINE g == [t \in UpTo(k) |-> IF t = <<>> THEN <<>> ELSE <<h[t]>> \o f[n[t]]]
<1>4. ItemsUpTo(g, h, n, k)
  <2>1. ASSUME NEW t \in UpTo(k), t # <<>> PROVE g[n[t]] = f[n[t]]
    <3>1. n[t] \in UpTo(k - 1) /\ n[t] \in UpTo(k)
      BY <2>1, <1>1, EmptySeq DEF UpTo, Text, Shortens
    <3>2. f[n[t]] = IF n[t] = <<>> THEN <<>> ELSE <<h[n[t]]>> \o f[n[n[t]]]
      BY <3>1, <1>3, Zenon DEF ItemsUpTo
    <3>3. g[n[t]] = IF n[t] = <<>> THEN <<>> ELSE <<h[n[t]]>> \o f[n[n[t]]]
      BY <3>1
    <3> QED
      BY <3>2, <3>3, Zenon
  <2>2. ASSUME NEW t \in UpTo(k) PROVE g[t] = IF t = <<>> THEN <<>> ELSE <<h[t]>> \o g[n[t]]
    BY <2>1
  <2>3. g = [t \in UpTo(k) |-> g[t]]
    OBVIOUS
  <2> HIDE DEF g
  <2> QED
    BY <2>2, <2>3, Zenon DEF ItemsUpTo
<1> QED
  BY <1>4

\* The functions for two lengths agree where both are defined.
LEMMA ItemsAgree ==
  ASSUME NEW h, NEW n, Shortens(n), NEW k \in Nat, NEW m \in Nat,
         NEW f, ItemsUpTo(f, h, n, k), NEW g, ItemsUpTo(g, h, n, m),
         NEW t \in UpTo(k), t \in UpTo(m)
  PROVE  f[t] = g[t]
<1> DEFINE T == {i \in Nat : \E s \in UpTo(k) : s \in UpTo(m) /\ Len(s) = i /\ f[s] # g[s]}
<1> SUFFICES ASSUME T # {} PROVE FALSE
  BY DEF UpTo, Text
<1>1. PICK i \in T : \A j \in T : i <= j
  BY Least
<1>2. PICK s \in UpTo(k) : s \in UpTo(m) /\ Len(s) = i /\ f[s] # g[s]
  BY <1>1
<1>3. /\ f[s] = IF s = <<>> THEN <<>> ELSE <<h[s]>> \o f[n[s]]
      /\ g[s] = IF s = <<>> THEN <<>> ELSE <<h[s]>> \o g[n[s]]
  BY <1>2, Zenon DEF ItemsUpTo
<1>4. s # <<>>
  BY <1>2, <1>3, Zenon
<1>5. s \in Text /\ n[s] \in Text /\ Len(n[s]) < Len(s) /\ Len(s) <= k /\ Len(s) <= m
      /\ Len(s) \in Nat /\ Len(n[s]) \in Nat
  BY <1>2, <1>4 DEF UpTo, Shortens, Text
<1>6. n[s] \in UpTo(k) /\ n[s] \in UpTo(m)
  BY <1>5 DEF UpTo
<1>7. Len(n[s]) \notin T
  BY <1>1, <1>2, <1>5
<1>8. f[n[s]] = g[n[s]]
  BY <1>5, <1>6, <1>7
<1> QED
  BY <1>2, <1>3, <1>8, Zenon

\* There is such a function for all texts.
LEMMA ItemsExists ==
  ASSUME NEW h, NEW n, Shortens(n)
  PROVE  \E f : Items(f, h, n)
<1> DEFINE F(k) == CHOOSE f : ItemsUpTo(f, h, n, k)
<1>1. ASSUME NEW k \in Nat PROVE ItemsUpTo(F(k), h, n, k)
  BY ItemsUpToExists
<1> DEFINE g == [t \in Text |-> F(Len(t))[t]]
<1> HIDE DEF F
<1>2. ASSUME NEW t \in Text PROVE g[t] = IF t = <<>> THEN <<>> ELSE <<h[t]>> \o g[n[t]]
  <2>1. Len(t) \in Nat /\ t \in UpTo(Len(t))
    BY DEF UpTo, Text
  <2>2. PICK k : k = Len(t)
    OBVIOUS
  <2>3. PICK f : f = F(k)
    OBVIOUS
  <2>4. ItemsUpTo(f, h, n, k) /\ t \in UpTo(k) /\ k \in Nat
    BY <2>1, <2>2, <2>3, <1>1
  <2>5. f[t] = IF t = <<>> THEN <<>> ELSE <<h[t]>> \o f[n[t]]
    BY <2>4, Zenon DEF ItemsUpTo
  <2>6. g[t] = f[t]
    BY <2>2, <2>3
  <2>7. CASE t # <<>>
    <3>1. n[t] \in Text /\ Len(n[t]) < k /\ Len(n[t]) \in Nat
      BY <2>2, <2>7 DEF Shortens, Text
    <3>2. PICK m : m = Len(n[t])
      OBVIOUS
    <3>3. PICK e : e = F(m)
      OBVIOUS
    <3>4. m \in Nat /\ ItemsUpTo(e, h, n, m) /\ n[t] \in UpTo(m) /\ n[t] \in UpTo(k)
      BY <3>1, <3>2, <3>3, <2>4, <1>1 DEF UpTo
    <3>5. e[n[t]] = f[n[t]]
      BY <3>4, <2>4, ItemsAgree
    <3>6. g[n[t]] = e[n[t]]
      BY <3>1, <3>2, <3>3
    <3> QED
      BY <2>5, <2>6, <3>5, <3>6, Zenon
  <2>8. CASE t = <<>>
    BY <2>5, <2>6, <2>8, Zenon
  <2> QED
    BY <2>7, <2>8
<1>3. g = [t \in Text |-> g[t]]
  OBVIOUS
<1> HIDE DEF g
<1>4. Items(g, h, n)
  BY <1>2, <1>3, Zenon DEF Items
<1> QED
  BY <1>4

\* Item k of a list is the first one of the text T[k], and the others are in what
\* is left of it.
Lists(T, N, n) ==
    /\ T[N + 1] = <<>>
    /\ \A k \in 1..N : T[k] \in Text /\ T[k] # <<>> /\ n[T[k]] = T[k + 1]

\* The items are read one by one.
LEMMA ItemsRead ==
  ASSUME NEW f, NEW h, NEW n, Items(f, h, n), NEW N \in Nat, NEW T, Lists(T, N, n)
  PROVE  f[T[1]] = [i \in 1..N |-> h[T[i]]]
<1> DEFINE From(j) == [i \in 1..(N - j) |-> h[T[j + i]]]
<1> DEFINE G == {j \in 0..N : f[T[j + 1]] = From(j)}
<1>1. N \in G
  <2>1. <<>> \in Text /\ N \in 0..N
    BY DEF Text
  <2>2. f[<<>>] = <<>>
    BY <2>1, Zenon DEF Items
  <2>3. f[T[N + 1]] = <<>>
    BY <2>2, Zenon DEF Lists
  <2>4. From(N) = <<>>
    OBVIOUS
  <2> QED
    BY <2>1, <2>3, <2>4
<1>2. ASSUME NEW j \in 1..N, j \in G PROVE j - 1 \in G
  <2>1. /\ T[j] \in Text /\ T[j] # <<>> /\ n[T[j]] = T[j + 1]
    BY Zenon DEF Lists
  <2>2. f[T[j]] = <<h[T[j]]>> \o f[T[j + 1]]
    BY <2>1, Zenon DEF Items
  <2>3. f[T[j + 1]] = From(j)
    BY <1>2
  <2>4. <<h[T[j]]>> \o From(j) = From(j - 1)
    <3>1. PICK x : x = h[T[j]]
      OBVIOUS
    <3>2. PICK S : S = {h[T[i]] : i \in 1..N}
      OBVIOUS
    <3>3. x \in S /\ \A i \in 1..(N - j) : h[T[j + i]] \in S
      BY <3>1, <3>2
    <3>4. From(j) \in Seq(S) /\ Len(From(j)) = N - j
      BY <3>3
    <3>5. \A i \in 1..(N - j) : From(j)[i] = h[T[j + i]]
      OBVIOUS
    <3>6. Len(From(j - 1)) = N - j + 1 /\ DOMAIN From(j - 1) = 1..(N - j + 1)
      OBVIOUS
    <3>7. From(j - 1)[1] = x
      BY <3>1
    <3>8. ASSUME NEW i \in 1..(N - j) PROVE From(j - 1)[i + 1] = From(j)[i]
      <4>1. (j - 1) + (i + 1) = j + i
        OBVIOUS
      <4> QED
        BY <4>1
    <3>9. PICK a : a = From(j)
      OBVIOUS
    <3>10. PICK b : b = From(j - 1)
      OBVIOUS
    <3>11. b \in Seq(S)
      <4>1. \A i \in 1..(N - (j - 1)) : h[T[(j - 1) + i]] \in S
        BY <3>2
      <4> QED
        BY <4>1, <3>10
    <3>12. /\ a \in Seq(S) /\ Len(a) = N - j /\ Len(b) = N - j + 1 /\ b[1] = x
           /\ \A i \in 1..(N - j) : b[i + 1] = a[i]
      BY <3>4, <3>6, <3>7, <3>8, <3>9, <3>10, Zenon
    <3> HIDE DEF From
    <3>13. <<x>> \o a = b
      <4>1. /\ <<x>> \o a \in Seq(S) /\ Len(<<x>> \o a) = N - j + 1 /\ (<<x>> \o a)[1] = x
            /\ \A i \in 1..(N - j) : (<<x>> \o a)[i + 1] = a[i]
        <5>1. PICK y : y = <<x>>
          OBVIOUS
        <5>2. y \in Seq(S) /\ Len(y) = 1 /\ y[1] = x /\ N - j \in Nat
          BY <5>1, <3>3
        <5>3. PICK m : m = N - j
          OBVIOUS
        <5>4. Over(S, y, 1) /\ Over(S, a, m)
          BY <5>2, <5>3, <3>12 DEF Over
        <5>5. PutTogether(S, y \o a, y, 1, a, m)
          BY <5>4, Together, Zenon
        <5>6. /\ y \o a \in Seq(S) /\ Len(y \o a) = 1 + m
              /\ \A i \in 1..1 : (y \o a)[i] = y[i]
              /\ \A i \in 1..m : (y \o a)[1 + i] = a[i]
          BY <5>5, Zenon DEF PutTogether
        <5>7. (y \o a)[1] = x /\ Len(y \o a) = N - j + 1
          BY <5>2, <5>3, <5>6
        <5>8. \A i \in 1..(N - j) : (y \o a)[i + 1] = a[i]
          BY <5>3, <5>6
        <5> QED
          BY <5>1, <5>6, <5>7, <5>8, Zenon
      <4>2. ASSUME NEW i \in 1..(N - j + 1) PROVE (<<x>> \o a)[i] = b[i]
        <5>1. CASE i = 1
          BY <5>1, <4>1, <3>12, Zenon
        <5>2. CASE i # 1
          <6>1. i - 1 \in 1..(N - j) /\ (i - 1) + 1 = i
            BY <5>2
          <6> QED
            BY <6>1, <4>1, <3>12
        <5> QED
          BY <5>1, <5>2
      <4>3. PICK c : c = <<x>> \o a
        OBVIOUS
      <4> QED
        BY <4>1, <4>2, <4>3, <3>11, <3>12, SeqEqual
    <3> QED
      BY <3>1, <3>9, <3>10, <3>13, Zenon
  <2>5. (j - 1) + 1 = j /\ j - 1 \in 0..N
    OBVIOUS
  <2> QED
    BY <2>2, <2>3, <2>4, <2>5
<1>3. \A j \in 1..N : j \in G => j - 1 \in G
  BY <1>2
<1>4. 0 \in G
  <2> HIDE DEF G
  <2>1. \A j \in 0..N : j \in G
    BY <1>1, <1>3, StepByStepDown
  <2> QED
    BY <2>1
<1>5. From(0) = [i \in 1..N |-> h[T[i]]]
  OBVIOUS
<1> QED
  BY <1>4, <1>5

\* What is between two items.
Sep == <<",", " ">>

\* The items, each after the first one with what is before it.
Padded(items) == [i \in DOMAIN items |-> IF i = 1 THEN items[i] ELSE Sep \o items[i]]

\* Four texts are put together in any grouping.
LEMMA RegroupedTwice ==
  ASSUME NEW S, NEW a \in Seq(S), NEW b \in Seq(S), NEW c \in Seq(S), NEW d \in Seq(S)
  PROVE  Same((a \o (b \o c)) \o d, a \o (b \o (c \o d)))
<1>1. PICK bc : bc = b \o c
  OBVIOUS
<1>2. PICK cd : cd = c \o d
  OBVIOUS
<1>3. bc \in Seq(S) /\ cd \in Seq(S)
  BY <1>1, <1>2, TogetherOver, Zenon
<1>4. Same((a \o bc) \o d, a \o (bc \o d))
  BY <1>3, Regrouped, Zenon
<1>5. Same((b \o c) \o d, b \o (c \o d))
  BY Regrouped, Zenon
<1> QED
  BY <1>1, <1>2, <1>4, <1>5, Zenon DEF Same

\* The list t is the list s without its first item.
Behind(S, s, t) ==
    /\ Len(s) \in Nat /\ Len(s) >= 2 /\ DOMAIN s = 1..Len(s)
    /\ Len(t) = Len(s) - 1 /\ DOMAIN t = 1..(Len(s) - 1)
    /\ \A i \in 1..Len(s) : s[i] \in Seq(S)
    /\ \A i \in 1..(Len(s) - 1) : t[i] = s[i + 1]
    /\ Sep \in Seq(S)

\* The first i items of t make the text g[i], with one more in front f[i + 1].
Grown(S, x, f, g, i) == i # 0 => g[i] \in Seq(S) /\ f[i + 1] = x \o (Sep \o g[i])

\* A list is its first item, the separator, and the list of the others.
LEMMA JoinedFront ==
  ASSUME NEW S, NEW s, NEW t, Behind(S, s, t)
  PROVE  Same(Joined(s), s[1] \o (Sep \o Joined(t)))
<1>1. PICK N : N = Len(s)
  OBVIOUS
<1>2. PICK M : M = N - 1
  OBVIOUS
<1>3. PICK a : a = Padded(s)
  OBVIOUS
<1>4. PICK b : b = Padded(t)
  OBVIOUS
<1>5. /\ N \in Nat \ {0} /\ M \in Nat \ {0} /\ N = M + 1
      /\ DOMAIN s = 1..N /\ DOMAIN t = 1..M
      /\ \A i \in 1..N : s[i] \in Seq(S)
      /\ \A i \in 1..M : t[i] = s[i + 1]
      /\ Sep \in Seq(S)
  BY <1>1, <1>2 DEF Behind
<1>6. /\ Len(a) = N /\ a[1] = s[1] /\ \A i \in 2..N : a[i] = Sep \o s[i]
  BY <1>3, <1>5 DEF Padded
<1>7. /\ Len(b) = M /\ b[1] = t[1] /\ \A i \in 2..M : b[i] = Sep \o t[i]
  <2>1. b = [i \in 1..M |-> IF i = 1 THEN t[i] ELSE Sep \o t[i]]
    BY <1>4, <1>5, Zenon DEF Padded
  <2>2. M \in Nat \ {0}
    BY <1>5
  <2> QED
    BY <2>1, <2>2
<1>8. Joined(s) = FlattenSeq(a) /\ Joined(t) = FlattenSeq(b)
  BY <1>3, <1>4, Zenon DEF Joined, Padded, Sep
<1>9. PICK f : /\ FlattenSeq(a) = f[N]
               /\ f[1] = a[1]
               /\ \A i \in 2..N : f[i] = f[i - 1] \o a[i]
  BY <1>5, <1>6, FlattenSteps, Zenon
<1>10. PICK g : /\ FlattenSeq(b) = g[M]
                /\ g[1] = b[1]
                /\ \A i \in 2..M : g[i] = g[i - 1] \o b[i]
  BY <1>5, <1>7, FlattenSteps, Zenon
<1> DEFINE G == {i \in 0..M : Grown(S, s[1], f, g, i)}
<1>11. ASSUME NEW i \in 1..M, i - 1 \in G PROVE i \in G
  <2>1. CASE i = 1
    <3>1. 1 \in 1..M /\ 2 \in 2..N /\ 2 \in 1..N /\ 1 + 1 = 2 /\ 2 - 1 = 1
      BY <1>5
    <3>2. g[1] = s[2] /\ g[1] \in Seq(S)
      BY <3>1, <1>5, <1>7, <1>10
    <3>3. f[2] = f[1] \o a[2]
      BY <3>1, <1>9
    <3>4. f[1 + 1] = s[1] \o (Sep \o g[1])
      BY <3>1, <3>2, <3>3, <1>6, <1>9, Zenon
    <3>5. Grown(S, s[1], f, g, i)
      BY <3>2, <3>4, <2>1, Zenon DEF Grown
    <3> QED
      BY <3>5
  <2>2. CASE i # 1
    <3>1. i \in 2..M /\ i + 1 \in 2..N /\ i + 1 \in 1..N /\ (i + 1) - 1 = i /\ (i - 1) + 1 = i /\ 1 \in 1..N
      BY <2>2, <1>5
    <3>2. g[i - 1] \in Seq(S) /\ f[i] = s[1] \o (Sep \o g[i - 1])
      <4>1. Grown(S, s[1], f, g, i - 1) /\ i - 1 # 0
        BY <2>2, <1>11
      <4> QED
        BY <4>1, <3>1, Zenon DEF Grown
    <3>3. PICK p : p = g[i - 1]
      OBVIOUS
    <3>4. PICK z : z = a[i + 1]
      OBVIOUS
    <3>5. z = b[i] /\ z = Sep \o s[i + 1]
      BY <3>1, <3>4, <1>5, <1>6, <1>7
    <3>6. z \in Seq(S) /\ p \in Seq(S) /\ s[1] \in Seq(S)
      <4>1. s[i + 1] \in Seq(S) /\ s[1] \in Seq(S) /\ Sep \in Seq(S)
        BY <3>1, <1>5, Zenon
      <4>2. Sep \o s[i + 1] \in Seq(S)
        BY <4>1, TogetherOver, Zenon
      <4> QED
        BY <3>2, <3>3, <3>5, <4>1, <4>2, Zenon
    <3>7. f[i + 1] = f[i] \o z
      BY <3>1, <3>4, <1>9
    <3>8. g[i] = p \o z
      BY <3>1, <3>3, <3>5, <1>10, Zenon
    <3>9. (s[1] \o (Sep \o p)) \o z = s[1] \o (Sep \o (p \o z))
      <4>1. Sep \in Seq(S)
        BY <1>5, Zenon
      <4>2. Same((s[1] \o (Sep \o p)) \o z, s[1] \o (Sep \o (p \o z)))
        BY <4>1, <3>6, RegroupedTwice, Zenon
      <4> QED
        BY <4>2, Zenon DEF Same
    <3>10. f[i + 1] = s[1] \o (Sep \o g[i])
      BY <3>2, <3>3, <3>7, <3>8, <3>9, Zenon
    <3>11. g[i] \in Seq(S)
      BY <3>6, <3>8, TogetherOver, Zenon
    <3>12. Grown(S, s[1], f, g, i)
      BY <3>10, <3>11, Zenon DEF Grown
    <3> QED
      BY <3>12
  <2> QED
    BY <2>1, <2>2
<1>12. M \in G
  <2>0. 0 \in 0..M /\ Grown(S, s[1], f, g, 0)
    BY <1>5 DEF Grown
  <2>1. 0 \in G /\ \A i \in 1..M : i - 1 \in G => i \in G
    BY <2>0, <1>11
  <2>2. M \in Nat /\ M \in 0..M
    BY <1>5
  <2> HIDE DEF G
  <2>3. \A i \in 0..M : i \in G
    BY <2>1, <2>2, StepByStep
  <2> QED
    BY <2>2, <2>3
<1>13. f[M + 1] = s[1] \o (Sep \o g[M])
  <2>1. Grown(S, s[1], f, g, M) /\ M # 0
    BY <1>12, <1>5
  <2> QED
    BY <2>1, Zenon DEF Grown
<1> QED
  BY <1>5, <1>8, <1>9, <1>10, <1>13, Zenon DEF Same

\* The items from k on.
Rest(items, k) == SubSeq(items, k, Len(items))

\* ... as a text.
RestText(items, k) == Joined(Rest(items, k))

\* A list of texts.
TextList(S, items) ==
    /\ Sep \in Seq(S) /\ Len(items) \in Nat /\ items \in Seq(Seq(S))

\* A list, from each of its items on.
LEMMA RestTexts ==
  ASSUME NEW S, NEW items, TextList(S, items)
  PROVE  /\ \A k \in 1..Len(items) :
                /\ RestText(items, k) \in Seq(S)
                /\ k = Len(items) => RestText(items, k) = items[k]
                /\ k # Len(items) =>
                      RestText(items, k) = items[k] \o (Sep \o RestText(items, k + 1))
         /\ RestText(items, Len(items) + 1) = <<>>
         /\ RestText(items, 1) = Joined(items)
<1>1. PICK N : N = Len(items)
  OBVIOUS
<1>2. PICK Q : Q = Seq(S)
  OBVIOUS
<1>3. items \in Seq(Q) /\ N = Len(items) /\ N \in Nat /\ DOMAIN items = 1..N /\ Sep \in Q
      /\ (\A i \in 1..N : items[i] \in Q)
  BY <1>1, <1>2 DEF TextList
<1>4. ASSUME NEW k \in 1..N
      PROVE  /\ Len(Rest(items, k)) = N - k + 1
             /\ DOMAIN Rest(items, k) = 1..(N - k + 1)
             /\ \A i \in 1..(N - k + 1) : Rest(items, k)[i] = items[k + i - 1]
  BY <1>3 DEF Rest
<1>5. Rest(items, 1) = items
  BY <1>3 DEF Rest
<1>6. RestText(items, N + 1) = <<>>
  <2>1. Rest(items, N + 1) = <<>>
    BY <1>3 DEF Rest
  <2>2. Joined(<<>>) = <<>>
    BY DEF Joined, FlattenSeq
  <2> QED
    BY <2>1, <2>2, Zenon DEF RestText
<1>7. (RestText(items, N) \in Q /\ RestText(items, N) = items[N]) \/ N = 0
  <2>1. CASE N # 0
    <3>1. PICK r : r = Rest(items, N)
      OBVIOUS
    <3>2. Len(r) = 1 /\ DOMAIN r = 1..1 /\ r[1] = items[N] /\ N \in 1..N
      <4>1. N \in 1..N /\ N - N + 1 = 1 /\ N + 1 - 1 = N /\ 1 \in 1..1
        BY <2>1, <1>3
      <4>2. Len(r) = 1 /\ DOMAIN r = 1..1
        BY <4>1, <3>1, <1>4, Zenon
      <4>3. r[1] = items[N]
        BY <4>1, <3>1, <1>4
      <4> QED
        BY <4>1, <4>2, <4>3, Zenon
    <3>3. PICK p : p = Padded(r)
      OBVIOUS
    <3>4. Len(p) = 1 /\ p[1] = items[N]
      BY <3>2, <3>3 DEF Padded
    <3>5. Joined(r) = FlattenSeq(p)
      BY <3>3, Zenon DEF Joined, Padded, Sep
    <3>6. \E f : FlattenSeq(p) = f[1] /\ f[1] = p[1]
      <4>1. PICK n : n = 1
        OBVIOUS
      <4>2. n \in Nat \ {0} /\ n = Len(p)
        BY <4>1, <3>4
      <4>3. PICK f : /\ FlattenSeq(p) = f[n]
                     /\ f[1] = p[1]
                     /\ \A i \in 2..n : f[i] = f[i - 1] \o p[i]
        BY <4>2, FlattenSteps, Zenon
      <4> QED
        BY <4>1, <4>3, Zenon
    <3>7. RestText(items, N) = items[N]
      BY <3>1, <3>4, <3>5, <3>6, Zenon DEF RestText
    <3> QED
      BY <3>2, <3>7, <1>3
  <2> QED
    BY <2>1
<1>8. ASSUME NEW k \in 1..N, k # N
      PROVE  RestText(items, k) = items[k] \o (Sep \o RestText(items, k + 1))
  <2>1. PICK s : s = Rest(items, k)
    OBVIOUS
  <2>2. PICK t : t = Rest(items, k + 1)
    OBVIOUS
  <2>3. k + 1 \in 1..N
    BY <1>8, <1>3
  <2>4. /\ Len(s) = N - k + 1 /\ DOMAIN s = 1..(N - k + 1)
        /\ \A i \in 1..(N - k + 1) : s[i] = items[k + i - 1]
    BY <2>1, <1>4
  <2>5. /\ Len(t) = N - (k + 1) + 1 /\ DOMAIN t = 1..(N - (k + 1) + 1)
        /\ \A i \in 1..(N - (k + 1) + 1) : t[i] = items[(k + 1) + i - 1]
    BY <2>2, <2>3, <1>4
  <2>6. Behind(S, s, t)
    <3>1. Len(s) \in Nat /\ Len(s) >= 2 /\ DOMAIN s = 1..Len(s)
          /\ Len(t) = Len(s) - 1 /\ DOMAIN t = 1..(Len(s) - 1)
      BY <2>4, <2>5, <1>3, <1>8
    <3>2. ASSUME NEW i \in 1..Len(s) PROVE s[i] \in Q
      <4>1. i \in 1..(N - k + 1) /\ k + i - 1 \in 1..N
        BY <2>4, <1>3
      <4> QED
        BY <4>1, <2>4, <1>3
    <3>3. ASSUME NEW i \in 1..(Len(s) - 1) PROVE t[i] = s[i + 1]
      <4>1. i \in 1..(N - (k + 1) + 1) /\ i + 1 \in 1..(N - k + 1) /\ k + (i + 1) - 1 = (k + 1) + i - 1
        BY <2>4, <1>3
      <4> QED
        BY <4>1, <2>4, <2>5
    <3> QED
      BY <3>1, <3>2, <3>3, <1>2, <1>3, Zenon DEF Behind
  <2>7. Joined(s) = s[1] \o (Sep \o Joined(t))
    BY <2>6, JoinedFront, Zenon DEF Same
  <2>8. s[1] = items[k]
    <3>1. 1 \in 1..(N - k + 1) /\ k + 1 - 1 = k
      BY <1>3
    <3> QED
      BY <3>1, <2>4
  <2> QED
    BY <2>1, <2>2, <2>7, <2>8, Zenon DEF RestText
<1> DEFINE G == {k \in 0..N : k = 0 \/ RestText(items, k) \in Q}
<1>9. \A k \in 0..N : k \in G
  <2>1. N \in G
    BY <1>7, <1>3
  <2>2. ASSUME NEW k \in 1..N, k \in G PROVE k - 1 \in G
    <3>1. CASE k = 1
      BY <3>1, <1>3
    <3>2. CASE k # 1
      <4>1. PICK j : j = k - 1
        OBVIOUS
      <4>2. j \in 1..N /\ j # N /\ j + 1 = k /\ j \in 0..N
        BY <4>1, <3>2, <1>3
      <4>3. RestText(items, j) = items[j] \o (Sep \o RestText(items, k))
        BY <4>2, <1>8
      <4>4. RestText(items, k) \in Q
        BY <2>2
      <4>5. Sep \o RestText(items, k) \in Q
        BY <4>4, <1>2, <1>3, TogetherOver, Zenon
      <4>6. RestText(items, j) \in Q
        BY <4>2, <4>3, <4>5, <1>2, <1>3, TogetherOver, Zenon
      <4> QED
        BY <4>1, <4>2, <4>6
    <3> QED
      BY <3>1, <3>2
  <2>3. \A k \in 1..N : k \in G => k - 1 \in G
    BY <2>2
  <2> HIDE DEF G
  <2> QED
    BY <2>1, <2>3, <1>3, StepByStepDown
<1>10. ASSUME NEW k \in 1..N PROVE RestText(items, k) \in Q
  <2>1. k \in 0..N /\ k # 0
    OBVIOUS
  <2> QED
    BY <2>1, <1>9
<1>11. ASSUME NEW k \in 1..N, k = N PROVE RestText(items, k) = items[k]
  BY <1>7, <1>11
<1> QED
  BY <1>1, <1>2, <1>5, <1>6, <1>8, <1>10, <1>11, Zenon DEF RestText

\* Trimming makes no text longer.
LEMMA TrimShortens ==
  ASSUME NEW S, NEW s \in Seq(S), NEW cut
  PROVE  /\ TrimLeft(s, cut) \in Seq(S) /\ Len(TrimLeft(s, cut)) <= Len(s)
         /\ Trim(s, cut) \in Seq(S) /\ Len(Trim(s, cut)) <= Len(s)
<1>1. PICK l : l = TrimLeft(s, cut)
  OBVIOUS
<1>2. l \in Seq(S) /\ Len(l) <= Len(s)
  BY <1>1, TrimLeftParts
<1>3. PICK t : /\ t = TrimRight(l, cut)
               /\ t \in Seq(S)
               /\ t # <<>> => t[Len(t)] \notin cut
               /\ Len(t) <= Len(l) /\ \A i \in 1..Len(t) : t[i] = l[i]
  <2>1. l \in Seq(S)
    BY <1>2
  <2> QED
    BY <2>1, TrimRightParts
<1>4. Trim(s, cut) = t
  BY <1>1, <1>3 DEF Trim
<1>5. t \in Seq(S) /\ Len(t) <= Len(s)
  BY <1>2, <1>3
<1> QED
  BY <1>1, <1>2, <1>4, <1>5, Zenon

\* What follows an address is no longer than the text.
LEMMA TrailShortens ==
  ASSUME NEW s \in Seq(Char)
  PROVE  ParseNameAddr(s).trail \in Seq(Char) /\ Len(ParseNameAddr(s).trail) <= Len(s)
<1>1. PICK lt : lt = FirstOutside(s, "<", 1)
  OBVIOUS
<1>2. PICK gt : gt = IF lt = 0 THEN 0 ELSE FirstOutside(s, ">", lt + 1)
  OBVIOUS
<1>3. Len(s) \in Nat /\ lt \in 0..Len(s) /\ gt \in 0..Len(s)
  <2>1. Len(s) \in Nat /\ 0 \in 0..Len(s)
    OBVIOUS
  <2>2. \A c, i : FirstOutside(s, c, i) \in 0..Len(s)
    BY FirstOutsideType
  <2> QED
    BY <1>1, <1>2, <2>1, <2>2, Zenon
<1>4. PICK ue : ue = IF gt = 0 THEN Len(s) + 1 ELSE gt
  OBVIOUS
<1>5. ue \in 1..(Len(s) + 1)
  BY <1>3, <1>4
<1>6. PICK y : y = SubSeq(s, ue, Len(s))
  OBVIOUS
<1>7. y \in Seq(Char) /\ Len(y) <= Len(s)
  BY <1>3, <1>5, <1>6
<1>8. PICK tr : tr = ParseNameAddr(s).trail
  OBVIOUS
<1>9. ParseNameAddr(s) = NameAddrAt(s, lt, gt)
  BY <1>1, <1>2, Zenon DEF ParseNameAddr
<1>10. tr = <<>> \/ tr = TrimLeft(y, Bracket)
  <2>1. CASE Quoted(s, ue) \/ (lt # 0 /\ gt = 0)
    <3>1. NameAddrAt(s, lt, gt) = [Addr |-> NoAddr, trail |-> <<>>]
      BY <1>4, <2>1, Zenon DEF NameAddrAt
    <3> QED
      BY <3>1, <1>8, <1>9
  <2>2. CASE ~(Quoted(s, ue) \/ (lt # 0 /\ gt = 0))
    <3>1. PICK a : NameAddrAt(s, lt, gt) = [Addr |-> a, trail |-> TrimLeft(y, Bracket)]
      BY <1>4, <1>6, <2>2, Zenon DEF NameAddrAt, Bracket
    <3> QED
      BY <3>1, <1>8, <1>9
  <2> QED
    BY <2>1, <2>2
<1>11. <<>> \in Seq(Char) /\ Len(<<>>) = 0
  OBVIOUS
<1>12. TrimLeft(y, Bracket) \in Seq(Char) /\ Len(TrimLeft(y, Bracket)) <= Len(y)
  BY <1>7, TrimShortens
<1>13. tr \in Seq(Char) /\ Len(tr) <= Len(s)
  <2>1. CASE tr = <<>>
    BY <2>1, <1>3
  <2>2. CASE tr = TrimLeft(y, Bracket)
    <3>1. tr \in Seq(Char) /\ Len(tr) <= Len(y)
      BY <2>2, <1>12, Zenon
    <3> QED
      BY <3>1, <1>3, <1>7
  <2> QED
    BY <1>10, <2>1, <2>2
<1> QED
  BY <1>8, <1>13, Zenon

\* The first address of a list, and what is left of the list.
FirstContact(t) ==
    LET n == ParseNameAddr(t) IN newContactHeader(n.Addr, Param(split(n.trail, ",")[1]))
LeftOfContacts(t) == Trim(split(ParseNameAddr(t).trail, ",")[2], Blank)

FirstContacts == [t \in Text |-> FirstContact(t)]
ContactsLeft == [t \in Text |-> LeftOfContacts(t)]

\* Less is left after every address.
LEMMA ContactsShorten == Shortens(ContactsLeft)
<1> SUFFICES ASSUME NEW t \in Text, t # <<>>
             PROVE  ContactsLeft[t] \in Text /\ Len(ContactsLeft[t]) < Len(t)
  BY DEF Shortens
<1>1. t \in Seq(Char) /\ Len(t) \in Nat /\ Len(t) > 0
  BY EmptySeq DEF Text
<1>2. PICK p : p = ParseNameAddr(t).trail
  OBVIOUS
<1>3. p \in Seq(Char) /\ Len(p) <= Len(t) /\ Len(p) \in Nat
  BY <1>1, <1>2, TrailShortens
<1>4. PICK c : c = ","
  OBVIOUS
<1>5. PICK q : q = split(p, c)
  OBVIOUS
<1>6. q[2] \in Seq(Char) /\ Len(q[2]) < Len(t)
  <2>1. CASE q = <<p, <<>>>>
    BY <2>1, <1>1
  <2>2. CASE /\ c \in Char
             /\ q[1] \in Seq(Char \ {c})
             /\ q[2] \in Seq(Char)
             /\ p = q[1] \o <<c>> \o q[2]
    <3>1. q[1] \in Seq(Char)
      BY <2>2, SeqSub
    <3>2. Len(p) = Len(q[1]) + 1 + Len(q[2])
      BY <2>2, <3>1, Joint
    <3>3. Len(q[1]) \in Nat /\ Len(q[2]) \in Nat
      BY <2>2, <3>1
    <3>4. PICK k : k = Len(q[1])
      OBVIOUS
    <3>5. PICK m : m = Len(q[2])
      OBVIOUS
    <3>6. Len(p) = k + 1 + m /\ k \in Nat /\ m \in Nat
      BY <3>2, <3>3, <3>4, <3>5, Zenon
    <3>7. m < Len(t)
      BY <3>6, <1>1, <1>3
    <3> QED
      BY <2>2, <3>5, <3>7, Zenon
  <2> QED
    BY <1>3, <1>5, <2>1, <2>2, SplitParts
<1>7. PICK x : x = q[2]
  OBVIOUS
<1>8. Trim(x, Blank) \in Seq(Char) /\ Len(Trim(x, Blank)) <= Len(x)
  BY <1>6, <1>7, TrimShortens
<1>9. ContactsLeft[t] = Trim(x, Blank)
  BY <1>2, <1>4, <1>5, <1>7 DEF ContactsLeft, LeftOfContacts
<1> QED
  BY <1>1, <1>6, <1>7, <1>8, <1>9 DEF Text

\* The function that ParseContacts defines.
ContactItems(f) ==
    f = [t \in Text |-> IF t = <<>> THEN <<>> ELSE <<FirstContact(t)>> \o f[LeftOfContacts(t)]]

\* ParseContacts reads item after item.
LEMMA ContactsRead ==
  \E f : Items(f, FirstContacts, ContactsLeft) /\ \A s : ParseContacts(s) = f[s]
<1>1. PICK f : f = CHOOSE g : ContactItems(g)
  OBVIOUS
<1>2. ASSUME NEW g PROVE ContactItems(g) <=> Items(g, FirstContacts, ContactsLeft)
  <2>1. \A t \in Text : FirstContacts[t] = FirstContact(t) /\ ContactsLeft[t] = LeftOfContacts(t)
    BY DEF FirstContacts, ContactsLeft
  <2>2. [t \in Text |-> IF t = <<>> THEN <<>> ELSE <<FirstContact(t)>> \o g[LeftOfContacts(t)]]
         = [t \in Text |-> IF t = <<>> THEN <<>> ELSE <<FirstContacts[t]>> \o g[ContactsLeft[t]]]
    BY <2>1, Zenon
  <2> QED
    BY <2>2, Zenon DEF ContactItems, Items
<1>3. \E g : Items(g, FirstContacts, ContactsLeft)
  BY ContactsShorten, ItemsExists
<1>4. ContactItems(f)
  BY <1>1, <1>2, <1>3, Zenon
<1>5. ASSUME NEW s PROVE ParseContacts(s) = f[s]
  BY <1>1 DEF ParseContacts, ContactItems, FirstContact, LeftOfContacts
<1> QED
  BY <1>2, <1>4, <1>5, Zenon

\* A contact that a peer sends.
Contact(it) ==
    /\ it.display \in Seq(Char) /\ it.uri \in Seq(Char) /\ it.param \in Seq(Char)
    /\ ItemSyntax(it)

\* The name with its quotes, before the bracket.
NameOf(d) == IF d = <<>> THEN <<>> ELSE InQuotes(d)

\* Five texts are put together in any grouping.
LEMMA RegroupedLayout ==
  ASSUME NEW S, NEW x \in Seq(S), NEW u \in Seq(S), NEW g \in Seq(S), NEW p \in Seq(S), NEW r \in Seq(S)
  PROVE  Same((((x \o u) \o g) \o p) \o r, x \o ((u \o g) \o (p \o r)))
<1>1. PICK ug : ug = u \o g
  OBVIOUS
<1>2. ug \in Seq(S)
  BY <1>1, TogetherOver, Zenon
<1>3. Same((x \o u) \o g, x \o (u \o g))
  BY Regrouped, Zenon
<1>4. Same((x \o ug) \o p, x \o (ug \o p))
  BY <1>2, Regrouped, Zenon
<1>5. Same((x \o (ug \o p)) \o r, x \o (ug \o (p \o r)))
  BY <1>2, RegroupedTwice, Zenon
<1> QED
  BY <1>1, <1>3, <1>4, <1>5, Zenon DEF Same

\* The first element of two sequences put together is that of the first.
LEMMA FirstOfBoth ==
  ASSUME NEW S, NEW a \in Seq(S), a # <<>>, NEW t \in Seq(S), NEW x, x = a \o t
  PROVE  x \in Seq(S) /\ x # <<>> /\ x[1] = a[1]
<1>1. Len(a) \in Nat /\ Len(a) > 0 /\ Len(t) \in Nat
  BY EmptySeq
<1>2. /\ x \in Seq(S) /\ Len(x) = Len(a) + Len(t)
      /\ \A i \in 1..(Len(a) + Len(t)) : x[i] = IF i <= Len(a) THEN a[i] ELSE t[i - Len(a)]
  BY ConcatProperties
<1>3. 1 \in 1..(Len(a) + Len(t)) /\ 1 <= Len(a) /\ Len(x) # 0
  BY <1>1, <1>2
<1>4. x[1] = a[1]
  BY <1>2, <1>3
<1>5. x # <<>>
  BY <1>2, <1>3, EmptySeq
<1> QED
  BY <1>2, <1>4, <1>5

\* A pair is two sequences put together.
LEMMA Pair ==
  ASSUME NEW S, NEW a \in S, NEW b \in S
  PROVE  <<a, b>> \in Seq(S) /\ Same(<<a, b>>, <<a>> \o <<b>>)
<1>1. PICK x : x = <<a>>
  OBVIOUS
<1>2. PICK y : y = <<b>>
  OBVIOUS
<1>3. PICK z : z = <<a, b>>
  OBVIOUS
<1>4. x \in Seq(S) /\ y \in Seq(S) /\ z \in Seq(S) /\ Len(x) = 1 /\ Len(y) = 1 /\ Len(z) = 2
      /\ x[1] = a /\ y[1] = b /\ z[1] = a /\ z[2] = b
  BY <1>1, <1>2, <1>3
<1>5. Over(S, x, 1) /\ Over(S, y, 1)
  BY <1>4 DEF Over
<1>6. PutTogether(S, x \o y, x, 1, y, 1)
  BY <1>5, Together, Zenon
<1>7. PICK w : w = x \o y
  OBVIOUS
<1>8. w \in Seq(S) /\ Len(w) = 1 + 1 /\ (\A j \in 1..1 : w[j] = x[j]) /\ (\A j \in 1..1 : w[1 + j] = y[j])
  BY <1>6, <1>7, Zenon DEF PutTogether
<1>9. Len(w) = 2 /\ w[1] = a /\ w[2] = b
  BY <1>4, <1>8
<1>10. z = w
  BY <1>4, <1>8, <1>9, SeqEqual
<1> QED
  BY <1>1, <1>2, <1>3, <1>4, <1>7, <1>10, Zenon DEF Same

\* A contact, and what follows it, is laid out like an address.
LEMMA ItemLaidOut ==
  ASSUME NEW it, Contact(it), NEW r \in Seq(Char)
  PROVE  /\ Same(ItemText(it) \o r, Layout(NameOf(it.display), it.uri, it.param \o r))
         /\ ItemText(it) \in Seq(Char)
         /\ NameOf(it.display) \in Seq(Char)
         /\ ItemText(it) # <<>> /\ ItemText(it)[1] \notin Blank
         /\ ItemText(it)[Len(ItemText(it))] \notin Blank
<1>0. it.display \in Seq(Char) /\ it.uri \in Seq(Char) /\ it.param \in Seq(Char)
  BY DEF Contact
<1>1. PICK l : l = <<"<">>
  OBVIOUS
<1>2. PICK g : g = <<">">>
  OBVIOUS
<1>3. PICK q : q = <<"\"">>
  OBVIOUS
<1>4. PICK e : e = <<" ">>
  OBVIOUS
<1>5. PICK qe : qe = <<"\"", " ">>
  OBVIOUS
<1>6. /\ l \in Seq(Char) /\ g \in Seq(Char) /\ q \in Seq(Char) /\ e \in Seq(Char)
      /\ qe \in Seq(Char) /\ qe = q \o e /\ q[1] = DQ /\ Len(q) = 1
  <2>1. "<" \in Char /\ ">" \in Char /\ "\"" \in Char /\ " " \in Char
    BY DEF Char, Plain, Other
  <2>2. qe \in Seq(Char) /\ Same(qe, q \o e)
    BY <1>3, <1>4, <1>5, <2>1, Pair, Zenon
  <2>3. \A a : a \in Char => <<a>> \in Seq(Char)
    OBVIOUS
  <2>5. q[1] = DQ /\ Len(q) = 1
    BY <1>3 DEF DQ
  <2> QED
    BY <1>1, <1>2, <1>3, <1>4, <2>1, <2>2, <2>3, <2>5, Zenon DEF Same
<1>7. PICK d : d = it.display
  OBVIOUS
<1>8. PICK b : b = IF d = <<>> THEN <<>> ELSE (q \o d) \o qe
  OBVIOUS
<1>9. b = NameOf(d)
  <2>1. CASE d = <<>>
    BY <1>8, <2>1, Zenon DEF NameOf
  <2>2. CASE d # <<>>
    <3>1. q \o d \in Seq(Char)
      BY <1>0, <1>6, <1>7, TogetherOver, Zenon
    <3>2. Same(((q \o d) \o q) \o e, (q \o d) \o (q \o e))
      BY <3>1, <1>6, Regrouped, Zenon
    <3>3. InQuotes(d) = ((q \o d) \o q) \o e
      BY <1>3, <1>4, Zenon DEF InQuotes, DQ
    <3> QED
      BY <1>6, <1>8, <2>2, <3>2, <3>3, Zenon DEF NameOf, Same
  <2> QED
    BY <2>1, <2>2
<1>10. b \in Seq(Char) /\ (d # <<>> => b # <<>> /\ b[1] = DQ)
  <2>1. CASE d = <<>>
    BY <1>8, <2>1
  <2>2. CASE d # <<>>
    <3>1. PICK qd : qd = q \o d
      OBVIOUS
    <3>0. q # <<>> /\ d \in Seq(Char)
      <4>1. q # <<>>
        BY <1>3
      <4> QED
        BY <4>1, <1>0, <1>7, Zenon
    <3>2. qd \in Seq(Char) /\ qd[1] = DQ /\ qd # <<>>
      BY <1>6, <3>0, <3>1, FirstOfBoth
    <3>3. PICK y : y = qd \o qe
      OBVIOUS
    <3>4. y \in Seq(Char) /\ y[1] = DQ /\ y # <<>>
      BY <3>2, <3>3, <1>6, FirstOfBoth
    <3> QED
      BY <1>8, <2>2, <3>1, <3>3, <3>4, Zenon
  <2> QED
    BY <2>1, <2>2
<1>11. PICK x : x = b \o l
  OBVIOUS
<1>12. x \in Seq(Char) /\ x # <<>> /\ x[1] \notin Blank
  <2>1. l # <<>> /\ l[1] \notin Blank /\ g[1] \notin Blank /\ DQ \notin Blank
    BY <1>1, <1>2 DEF Blank, DQ
  <2>2. CASE d = <<>>
    <3>1. x = l
      BY <1>6, <1>8, <1>11, <2>2
    <3> QED
      BY <2>1, <3>1, <1>6, Zenon
  <2>3. CASE d # <<>>
    <3>1. x \in Seq(Char) /\ x # <<>> /\ x[1] = b[1]
      BY <1>6, <1>10, <1>11, <2>3, FirstOfBoth
    <3> QED
      BY <1>10, <2>1, <2>3, <3>1, Zenon
  <2> QED
    BY <2>2, <2>3
<1>13. ItemText(it) = ((x \o it.uri) \o g) \o it.param
  BY <1>1, <1>2, <1>3, <1>5, <1>7, <1>8, <1>11, Zenon DEF ItemText
<1>14. Same((((x \o it.uri) \o g) \o it.param) \o r, x \o ((it.uri \o g) \o (it.param \o r)))
  BY <1>0, <1>6, <1>12, RegroupedLayout, Zenon
<1>15. Layout(NameOf(it.display), it.uri, it.param \o r) = x \o ((it.uri \o g) \o (it.param \o r))
  BY <1>1, <1>2, <1>7, <1>9, <1>11, Zenon DEF Layout
<1>16. PICK xu : xu = x \o it.uri
  OBVIOUS
<1>17. PICK xg : xg = xu \o g
  OBVIOUS
<1>18. PICK xp : xp = xg \o it.param
  OBVIOUS
<1>19. xu \in Seq(Char) /\ xu # <<>> /\ xu[1] = x[1]
  BY <1>0, <1>12, <1>16, FirstOfBoth
<1>20. xg \in Seq(Char) /\ xg # <<>> /\ xg[1] = x[1] /\ xg[Len(xg)] \notin Blank
  <2>1. g # <<>> /\ g[Len(g)] \notin Blank
    BY <1>2 DEF Blank
  <2>2. xg[Len(xg)] = g[Len(g)]
    BY <2>1, <1>6, <1>17, <1>19, LastOfBoth
  <2>3. xg \in Seq(Char) /\ xg # <<>> /\ xg[1] = xu[1]
    BY <1>6, <1>17, <1>19, FirstOfBoth
  <2> QED
    BY <2>1, <2>2, <2>3, <1>19, Zenon
<1>21. xp \in Seq(Char) /\ xp # <<>> /\ xp[1] = x[1] /\ xp[Len(xp)] \notin Blank
  <2>1. xp \in Seq(Char) /\ xp # <<>> /\ xp[1] = xg[1]
    BY <1>0, <1>18, <1>20, FirstOfBoth
  <2>2. CASE it.param = <<>>
    <3>1. xp = xg
      BY <1>18, <1>20, <2>2
    <3> QED
      BY <2>1, <3>1, <1>20, Zenon
  <2>3. CASE it.param # <<>>
    <3>1. it.param[Len(it.param)] \notin Blank
      BY <2>3, Zenon DEF Contact, ItemSyntax, NoneAtEnds, Last
    <3>2. PICK p : p = it.param
      OBVIOUS
    <3>3. p \in Seq(Char) /\ p # <<>> /\ xp = xg \o p
      BY <1>0, <1>18, <2>3, <3>2
    <3>4. xp[Len(xp)] = p[Len(p)]
      BY <3>3, <1>20, LastOfBoth
    <3> QED
      BY <2>1, <3>1, <3>2, <3>4, <1>20, Zenon
  <2> QED
    BY <2>2, <2>3
<1>22. ItemText(it) = xp
  BY <1>13, <1>16, <1>17, <1>18, Zenon
<1> QED
  BY <1>7, <1>9, <1>10, <1>12, <1>13, <1>14, <1>15, <1>21, <1>22, Zenon DEF Same

\* What is cut at the front is trimmed.
LEMMA TrimFront ==
  ASSUME NEW S, NEW cut, NEW a \in Seq(S), NEW t \in Seq(S), t # <<>>,
         \A i \in 1..Len(a) : a[i] \in cut,
         t[1] \notin cut, t[Len(t)] \notin cut
  PROVE  Same(Trim(a \o t, cut), t)
<1>1. PICK e : e = <<>>
  OBVIOUS
<1>2. e \in Seq(S) /\ t \o e = t /\ \A i \in 1..Len(e) : e[i] \in cut
  BY <1>1
<1>3. Trim(a \o (t \o e), cut) = t
  BY <1>2, TrimOf
<1> QED
  BY <1>2, <1>3, Zenon DEF Same

\* What follows a contact in a list: nothing, or a comma first.
Follows(r) == r \in Seq(Char) /\ (r # <<>> => r[1] = ",")

\* A contact in a list is read as its name, its URI and what follows them.
LEMMA ItemAddress ==
  ASSUME NEW it, Contact(it), NEW r, Follows(r)
  PROVE  Same(ParseNameAddr(ItemText(it) \o r),
              ReadAddr(NameOf(it.display), it.uri, it.param \o r))
<1>1. PICK d : d = it.display
  OBVIOUS
<1>2. PICK u : u = it.uri
  OBVIOUS
<1>3. PICK q : q = it.param
  OBVIOUS
<1>4. PICK p : p = q \o r
  OBVIOUS
<1>5. d \in Seq(Char) /\ u \in Seq(Char) /\ q \in Seq(Char) /\ r \in Seq(Char)
  BY <1>1, <1>2, <1>3, Zenon DEF Contact, Follows
<1>5a. \A i \in DOMAIN d : d[i] = DQ => i # 1 /\ d[i - 1] = BS
  BY <1>1, Zenon DEF Contact, ItemSyntax, DQ, BS
<1>5b. NoneAtEnds(d, {" ", DQ, BS})
  BY <1>1, Zenon DEF Contact, ItemSyntax, DQ, BS
<1>5c. ToSet(u) \cap {"<", ">", DQ} = {} /\ NoneAtEnds(u, Blank)
  BY <1>2, Zenon DEF Contact, ItemSyntax, DQ
<1>5d. (q # <<>> => q[1] = ";") /\ (r # <<>> => r[1] = ",")
  BY <1>3, Zenon DEF Contact, ItemSyntax, Follows
<1>6. Clean(u)
  <2>1. \A i \in 1..Len(u) : u[i] # "<" /\ u[i] # ">" /\ u[i] # DQ
    <3>1. \A i \in DOMAIN u : u[i] # "<" /\ u[i] # ">" /\ u[i] # DQ
      BY <1>5c, Zenon DEF ToSet
    <3>2. DOMAIN u = 1..Len(u)
      BY <1>5
    <3> QED
      BY <3>1, <3>2
  <2>2. u # <<>> => u[1] # " " /\ u[Len(u)] # " "
    BY <1>5c DEF NoneAtEnds, Last, Blank
  <2>3. u # <<>> => 1 \in 1..Len(u) /\ Len(u) \in 1..Len(u)
    <3>1. u \in Seq(Char)
      BY <1>5
    <3> QED
      BY <3>1
  <2>4. u # <<>> => u[1] \notin Bracket /\ u[Len(u)] \notin Bracket
    BY <2>1, <2>2, <2>3 DEF Bracket
  <2> QED
    BY <1>5, <2>1, <2>4, Zenon DEF Clean
<1>7. Trail(p)
  <2>1. p \in Seq(Char)
    BY <1>4, <1>5, TogetherOver, Zenon
  <2>2. "," \notin Bracket /\ ";" \notin Bracket
    BY DEF Bracket
  <2>3. CASE q = <<>>
    <3>1. p = r
      <4>1. r \in Seq(Char)
        BY <1>5
      <4> QED
        BY <4>1, <1>4, <2>3
    <3> QED
      BY <1>5d, <2>1, <2>2, <3>1, Zenon DEF Trail
  <2>4. CASE q # <<>>
    <3>1. p[1] = q[1]
      <4>1. q \in Seq(Char) /\ r \in Seq(Char)
        BY <1>5
      <4> QED
        BY <4>1, <1>4, <2>4, FirstOfBoth
    <3> QED
      BY <1>5d, <2>1, <2>2, <2>4, <3>1, Zenon DEF Trail
  <2> QED
    BY <2>3, <2>4
<1>8. ParseNameAddr(Layout(NameOf(d), u, p)) = ReadAddr(NameOf(d), u, p)
  <2>1. CASE d = <<>>
    <3>1. PICK b : b = <<>>
      OBVIOUS
    <3>2. b \in Seq(Char) /\ \A i \in 1..Len(b) : b[i] # DQ /\ b[i] # "<"
      BY <3>1
    <3>3. ParseNameAddr(Layout(b, u, p)) = ReadAddr(b, u, p)
      BY <3>2, <1>6, <1>7, UnquotedRead
    <3> QED
      BY <2>1, <3>1, <3>3, Zenon DEF NameOf
  <2>2. CASE d # <<>>
    <3>1. d[Len(d)] # BS
      BY <1>5b, <2>2 DEF NoneAtEnds, Last
    <3>2. \A i \in 1..Len(d) : d[i] = DQ => i # 1 /\ d[i - 1] = BS
      <4>1. DOMAIN d = 1..Len(d)
        BY <1>5
      <4> QED
        BY <4>1, <1>5a, Zenon
    <3>3. ParseNameAddr(Layout(InQuotes(d), u, p)) = ReadAddr(InQuotes(d), u, p)
      BY <3>1, <3>2, <1>5, <1>6, <1>7, <2>2, QuotedRead
    <3> QED
      BY <2>2, <3>3, Zenon DEF NameOf
  <2> QED
    BY <2>1, <2>2
<1>9. Same(ItemText(it) \o r, Layout(NameOf(d), u, p))
  BY <1>1, <1>2, <1>3, <1>4, <1>5, ItemLaidOut, Zenon
<1> QED
  BY <1>1, <1>2, <1>3, <1>4, <1>8, <1>9, Zenon DEF Same

\* A contact as it is read.
ContactOf(it) ==
    [Addr         |-> [DisplayName |-> it.display, Uri |-> Parse(it.uri)],
     RawParameter |-> Param(it.param)]

\* The name in quotes is trimmed to the name.
LEMMA NameTrimmed ==
  ASSUME NEW it, Contact(it)
  PROVE  Same(Trim(NameOf(it.display), AroundName), it.display)
<1>1. PICK d : d = it.display
  OBVIOUS
<1>2. d \in Seq(Char) /\ NoneAtEnds(d, {" ", DQ, BS})
  BY <1>1, Zenon DEF Contact, ItemSyntax, DQ, BS
<1>3. Ends(d, AroundName)
  BY <1>2 DEF NoneAtEnds, Last, Ends, AroundName, DQ
<1>4. Trim(NameOf(d), AroundName) = d
  <2>1. CASE d = <<>>
    <3>1. Trim(d, AroundName) = d
      BY <1>2, <2>1, TrimNothing
    <3> QED
      BY <2>1, <3>1, Zenon DEF NameOf
  <2>2. CASE d # <<>>
    <3>1. QuotesAround(d)
      BY <1>2, <1>3, <2>2, InQuotesTrimmed, Zenon
    <3> QED
      BY <2>2, <3>1, Zenon DEF NameOf, QuotesAround
  <2> QED
    BY <2>1, <2>2
<1> QED
  BY <1>1, <1>4, Zenon DEF Same

\* A contact that r follows is read, and leaves what is behind the comma.
ReadsContact(it, r) ==
    /\ FirstContact(ItemText(it) \o r) = ContactOf(it)
    /\ LeftOfContacts(ItemText(it) \o r) = Trim(split(it.param \o r, ",")[2], Blank)

\* The first contact of a list is read with its own parameters.
LEMMA FirstContactRead ==
  ASSUME NEW it, Contact(it), NEW r, Follows(r), split(it.param \o r, ",")[1] = it.param
  PROVE  ReadsContact(it, r)
<1>1. PICK n : n = ParseNameAddr(ItemText(it) \o r)
  OBVIOUS
<1>2. n = [Addr |-> NewNameAddr(Trim(NameOf(it.display), AroundName), Parse(it.uri)),
           trail |-> it.param \o r]
  <2>1. Same(ParseNameAddr(ItemText(it) \o r), ReadAddr(NameOf(it.display), it.uri, it.param \o r))
    BY ItemAddress, Zenon
  <2> QED
    BY <1>1, <2>1, Zenon DEF Same, ReadAddr
<1>3. Trim(NameOf(it.display), AroundName) = it.display
  <2>1. Same(Trim(NameOf(it.display), AroundName), it.display)
    BY NameTrimmed, Zenon
  <2> QED
    BY <2>1, Zenon DEF Same
<1>4. Parse(it.uri) # NoUri /\ Parse(it.uri).Path # <<"*">>
  BY Zenon DEF Contact, ItemSyntax
<1>5. PICK a : a = [DisplayName |-> it.display, Uri |-> Parse(it.uri)]
  OBVIOUS
<1>6. NewNameAddr(it.display, Parse(it.uri)) = a
  BY <1>4, <1>5, Zenon DEF NewNameAddr
<1>7. n = [Addr |-> a, trail |-> it.param \o r]
  BY <1>2, <1>3, <1>6, Zenon
<1>8. n.Addr = a /\ n.trail = it.param \o r
  BY <1>7
<1>9. a.Uri.Path # <<"*">>
  BY <1>4, <1>5
<1>10. newContactHeader(a, Param(it.param)) = [Addr |-> a, RawParameter |-> Param(it.param)]
  BY <1>9, Zenon DEF newContactHeader
<1>11. FirstContact(ItemText(it) \o r) = newContactHeader(n.Addr, Param(split(n.trail, ",")[1]))
  BY <1>1, Zenon DEF FirstContact
<1>12. LeftOfContacts(ItemText(it) \o r) = Trim(split(n.trail, ",")[2], Blank)
  BY <1>1, Zenon DEF LeftOfContacts
<1> QED
  BY <1>5, <1>8, <1>10, <1>11, <1>12, Zenon DEF ReadsContact, ContactOf

\* The last contact of a list leaves nothing.
LEMMA LastContactRead ==
  ASSUME NEW it, Contact(it)
  PROVE  /\ Same(FirstContact(ItemText(it)), ContactOf(it))
         /\ Same(LeftOfContacts(ItemText(it)), <<>>)
<1>1. PICK r : r = <<>>
  OBVIOUS
<1>2. PICK q : q = it.param
  OBVIOUS
<1>3. r \in Seq(Char) /\ q \in Seq(Char) /\ ~Has(q, ",")
  <2>1. q # <<>> => ~Has(q, ",")
    BY <1>2, Zenon DEF Contact, ItemSyntax
  <2>2. q = <<>> => ~Has(q, ",")
    BY DEF Has, ToSet
  <2>3. q \in Seq(Char)
    BY <1>2, Zenon DEF Contact
  <2>4. r \in Seq(Char)
    BY <1>1
  <2> QED
    BY <2>1, <2>2, <2>3, <2>4, Zenon
<1>4. PICK t : t = ItemText(it)
  OBVIOUS
<1>5. t \in Seq(Char)
  BY <1>3, <1>4, ItemLaidOut, Zenon
<1>6. t \o r = t /\ q \o r = q
  <2>1. \A x \in Seq(Char) : x \o <<>> = x
    OBVIOUS
  <2> QED
    BY <2>1, <1>1, <1>3, <1>5, Zenon
<1>7. split(q, ",") = <<q, <<>>>>
  <2>1. PICK c : c = ","
    OBVIOUS
  <2>2. q \in Seq(Char \ {c})
    BY <1>3, <2>1, HasNot, Zenon
  <2>3. split(q, c) = <<q, <<>>>>
    BY <2>2, SplitNone
  <2> QED
    BY <2>1, <2>3
<1>8. split(q \o r, ",")[1] = q /\ split(q \o r, ",")[2] = <<>>
  <2>1. \A x : <<x, <<>>>>[1] = x /\ <<x, <<>>>>[2] = <<>>
    OBVIOUS
  <2> QED
    BY <2>1, <1>6, <1>7, Zenon
<1>9. Follows(r)
  BY <1>1, <1>3 DEF Follows
<1>10. ReadsContact(it, r)
  BY <1>2, <1>8, <1>9, FirstContactRead, Zenon
<1>11. Trim(<<>>, Blank) = <<>>
  <2>1. Trim(r, Blank) = r
    BY <1>1, <1>3, TrimNothing
  <2> QED
    BY <1>1, <2>1, Zenon
<1> QED
  BY <1>2, <1>4, <1>6, <1>8, <1>10, <1>11, Zenon DEF ReadsContact, Same

\* The separator is a text.
LEMMA SepIs ==
  /\ Sep \in Seq(Char) /\ Sep # <<>> /\ Sep[1] = ","
  /\ \A i \in 1..Len(Sep) : Sep[i] \in {" ", ","}
  /\ Same(Sep, <<",">> \o <<" ">>)
<1>1. "," \in Char /\ " " \in Char
  BY DEF Char, Plain, Reserved, Other
<1>2. Sep \in Seq(Char) /\ Same(Sep, <<",">> \o <<" ">>)
  BY <1>1, Pair, Zenon DEF Sep
<1>3. Sep # <<>> /\ Sep[1] = "," /\ \A i \in 1..Len(Sep) : Sep[i] \in {" ", ","}
  <2>1. \A x, y : <<x, y>> # <<>> /\ <<x, y>>[1] = x /\ \A i \in 1..Len(<<x, y>>) : <<x, y>>[i] \in {y, x}
    OBVIOUS
  <2> QED
    BY <2>1, Zenon DEF Sep
<1> QED
  BY <1>2, <1>3

\* A contact with others behind it leaves the others.
LEMMA NextContactRead ==
  ASSUME NEW it, Contact(it), NEW t \in Seq(Char), t # <<>>, t[1] \notin Blank, t[Len(t)] \notin Blank
  PROVE  /\ Same(FirstContact(ItemText(it) \o (Sep \o t)), ContactOf(it))
         /\ Same(LeftOfContacts(ItemText(it) \o (Sep \o t)), t)
<1>1. PICK r : r = Sep \o t
  OBVIOUS
<1>2. PICK q : q = it.param
  OBVIOUS
<1>3. PICK c : c = ","
  OBVIOUS
<1>4. PICK a : a = <<c>>
  OBVIOUS
<1>5. PICK b : b = <<" ">>
  OBVIOUS
<1>6. c \in Char /\ a \in Seq(Char) /\ b \in Seq(Char) /\ \A i \in 1..Len(b) : b[i] \in Blank
  <2>1. "," \in Char /\ " " \in Char /\ " " \in Blank
    BY DEF Char, Plain, Reserved, Other, Blank
  <2>2. \A x \in Char : <<x>> \in Seq(Char)
    OBVIOUS
  <2>3. \A x \in Blank : \A i \in 1..Len(<<x>>) : <<x>>[i] \in Blank
    OBVIOUS
  <2> QED
    BY <2>1, <2>2, <2>3, <1>3, <1>4, <1>5, Zenon
<1>7. q \in Seq(Char) /\ ~Has(q, c)
  <2>1. q # <<>> => ~Has(q, c)
    BY <1>2, <1>3, Zenon DEF Contact, ItemSyntax
  <2>2. q = <<>> => ~Has(q, c)
    BY DEF Has, ToSet
  <2>3. q \in Seq(Char)
    BY <1>2, Zenon DEF Contact
  <2> QED
    BY <2>1, <2>2, <2>3
<1>8. Sep \in Seq(Char) /\ Sep # <<>> /\ Sep[1] = c /\ Sep = a \o b
  <2>1. Same(Sep, <<",">> \o <<" ">>)
    BY SepIs, Zenon
  <2>2. Sep \in Seq(Char) /\ Sep # <<>> /\ Sep[1] = ","
    BY SepIs, Zenon
  <2> QED
    BY <2>1, <2>2, <1>3, <1>4, <1>5, Zenon DEF Same
<1>9. r \in Seq(Char) /\ r # <<>> /\ r[1] = c
  <2>1. r \in Seq(Char) /\ r # <<>> /\ r[1] = Sep[1]
    BY <1>1, <1>8, FirstOfBoth
  <2> QED
    BY <2>1, <1>8, Zenon
<1>10. Follows(r)
  BY <1>3, <1>9, Zenon DEF Follows
<1>11. PICK bt : bt = b \o t
  OBVIOUS
<1>12. bt \in Seq(Char)
  BY <1>6, <1>11, TogetherOver, Zenon
<1>13. q \o r = (q \o a) \o bt
  <2>1. Same((a \o b) \o t, a \o (b \o t))
    BY <1>6, Regrouped, Zenon
  <2>2. Same((q \o a) \o bt, q \o (a \o bt))
    BY <1>6, <1>7, <1>12, Regrouped, Zenon
  <2> QED
    BY <2>1, <2>2, <1>1, <1>8, <1>11, Zenon DEF Same
<1>14. split(q \o r, c) = <<q, bt>>
  <2>1. q \in Seq(Char \ {c})
    BY <1>7, HasNot, Zenon
  <2>2. split(q \o <<c>> \o bt, c) = <<q, bt>>
    BY <2>1, <1>6, <1>12, SplitAt
  <2> QED
    BY <2>2, <1>4, <1>13, Zenon
<1>15. split(q \o r, ",")[1] = q /\ split(q \o r, ",")[2] = bt
  <2>1. \A x, y : <<x, y>>[1] = x /\ <<x, y>>[2] = y
    OBVIOUS
  <2> QED
    BY <2>1, <1>3, <1>14, Zenon
<1>16. ReadsContact(it, r)
  BY <1>2, <1>10, <1>15, FirstContactRead, Zenon
<1>17. Same(Trim(b \o t, Blank), t)
  BY <1>6, TrimFront, Zenon
<1> QED
  BY <1>1, <1>2, <1>11, <1>15, <1>16, <1>17, Zenon DEF ReadsContact, Same

\* Neither end of a text is cut.
Whole(t, cut) == t # <<>> /\ t[1] \notin cut /\ t[Len(t)] \notin cut

\* ... nor an end of texts put together.
LEMMA WholeTogether ==
  ASSUME NEW S, NEW cut, NEW a \in Seq(S), Whole(a, cut), NEW b \in Seq(S), NEW t \in Seq(S), Whole(t, cut)
  PROVE  Whole(a \o (b \o t), cut)
<1>1. PICK x : x = b \o t
  OBVIOUS
<1>2. PICK y : y = a \o x
  OBVIOUS
<1>3. a # <<>> /\ a[1] \notin cut /\ t # <<>> /\ t[Len(t)] \notin cut
  BY Zenon DEF Whole
<1>4. x \in Seq(S) /\ x # <<>> /\ x[Len(x)] = t[Len(t)]
  BY <1>1, <1>3, LastOfBoth
<1>5. y \in Seq(S) /\ y # <<>> /\ y[Len(y)] = x[Len(x)]
  BY <1>2, <1>4, LastOfBoth
<1>6. y[1] = a[1]
  BY <1>2, <1>3, <1>4, FirstOfBoth
<1> QED
  BY <1>1, <1>2, <1>3, <1>4, <1>5, <1>6, Zenon DEF Whole

\* ... nor of a list.
LEMMA RestWhole ==
  ASSUME NEW S, NEW items, TextList(S, items), NEW cut, \A i \in 1..Len(items) : Whole(items[i], cut)
  PROVE  \A k \in 1..Len(items) : Whole(RestText(items, k), cut)
<1>1. PICK N : N = Len(items)
  OBVIOUS
<1>2. N \in Nat /\ Sep \in Seq(S)
  BY <1>1 DEF TextList
<1>3. ASSUME NEW k \in 1..N
      PROVE  /\ RestText(items, k) \in Seq(S)
             /\ k = N => RestText(items, k) = items[k]
             /\ k # N => RestText(items, k) = items[k] \o (Sep \o RestText(items, k + 1))
  BY <1>1, RestTexts
<1>4. ASSUME NEW k \in 1..N PROVE items[k] \in Seq(S) /\ Whole(items[k], cut)
  <2>1. PICK Q : Q = Seq(S)
    OBVIOUS
  <2>2. items \in Seq(Q)
    BY <2>1, Zenon DEF TextList
  <2>3. items[k] \in Q
    BY <2>2, <1>1
  <2> QED
    BY <2>1, <2>3, <1>1
<1> DEFINE G == {k \in 0..N : k = 0 \/ Whole(RestText(items, k), cut)}
<1>5. N \in G
  <2>1. CASE N = 0
    BY <2>1
  <2>2. CASE N # 0
    <3>1. N \in 1..N
      BY <2>2, <1>2
    <3>2. Whole(RestText(items, N), cut)
      BY <3>1, <1>3, <1>4
    <3> QED
      BY <3>1, <3>2
  <2> QED
    BY <2>1, <2>2
<1>6. ASSUME NEW k \in 1..N, k \in G PROVE k - 1 \in G
  <2>1. CASE k = 1
    BY <2>1, <1>2
  <2>2. CASE k # 1
    <3>1. PICK j : j = k - 1
      OBVIOUS
    <3>2. j \in 1..N /\ j # N /\ j + 1 = k /\ j \in 0..N
      BY <3>1, <2>2, <1>2
    <3>3. Whole(RestText(items, k), cut)
      BY <1>6
    <3>4. RestText(items, j) = items[j] \o (Sep \o RestText(items, k))
      BY <3>2, <1>3
    <3>5. Whole(items[j] \o (Sep \o RestText(items, k)), cut)
      BY <3>2, <3>3, <1>2, <1>3, <1>4, WholeTogether, Zenon
    <3>6. Whole(RestText(items, j), cut)
      BY <3>4, <3>5, Zenon
    <3> QED
      BY <3>1, <3>2, <3>6
  <2> QED
    BY <2>1, <2>2
<1>7. \A k \in 1..N : k \in G => k - 1 \in G
  BY <1>6
<1>8. \A k \in 0..N : k \in G
  <2> HIDE DEF G
  <2> QED
    BY <1>2, <1>5, <1>7, StepByStepDown
<1>9. ASSUME NEW k \in 1..N PROVE Whole(RestText(items, k), cut)
  <2>1. k \in 0..N /\ k # 0
    OBVIOUS
  <2> QED
    BY <2>1, <1>8
<1> QED
  BY <1>1, <1>9

\* The contacts of a list are read as they were put together.
LEMMA ContactsKept ==
  ASSUME NEW items, Len(items) \in Nat, DOMAIN items = 1..Len(items),
         \A i \in 1..Len(items) : Contact(items[i])
  PROVE  Same(ParseContacts(Joined([i \in DOMAIN items |-> ItemText(items[i])])),
              [i \in DOMAIN items |-> ContactOf(items[i])])
<1>1. PICK N : N = Len(items)
  OBVIOUS
<1>2. PICK X : X = [i \in DOMAIN items |-> ItemText(items[i])]
  OBVIOUS
<1>3. N \in Nat /\ X = [i \in 1..N |-> ItemText(items[i])] /\ \A i \in 1..N : Contact(items[i])
  BY <1>1, <1>2
<1>4. PICK e : e = <<>>
  OBVIOUS
<1>5. ASSUME NEW i \in 1..N PROVE X[i] = ItemText(items[i]) /\ X[i] \in Seq(Char) /\ Whole(X[i], Blank)
  <2>1. X[i] = ItemText(items[i]) /\ Contact(items[i]) /\ e \in Seq(Char)
    BY <1>3, <1>4
  <2>2. /\ ItemText(items[i]) \in Seq(Char)
        /\ ItemText(items[i]) # <<>> /\ ItemText(items[i])[1] \notin Blank
        /\ ItemText(items[i])[Len(ItemText(items[i]))] \notin Blank
    BY <2>1, ItemLaidOut, Zenon
  <2> QED
    BY <2>1, <2>2, Zenon DEF Whole
<1>6. TextList(Char, X) /\ Len(X) = N
  <2>1. PICK Q : Q = Seq(Char)
    OBVIOUS
  <2>2. X \in Seq(Q) /\ Len(X) = N
    BY <2>1, <1>3, <1>5
  <2> QED
    BY <2>1, <2>2, <1>3, SepIs, Zenon DEF TextList
<1>7. PICK T : T = [k \in 1..(N + 1) |-> RestText(X, k)]
  OBVIOUS
<1>8. /\ T[N + 1] = <<>> /\ T[1] = Joined(X)
      /\ \A k \in 1..N : T[k] = RestText(X, k) /\ T[k + 1] = RestText(X, k + 1)
  <2>1. RestText(X, N + 1) = <<>> /\ RestText(X, 1) = Joined(X)
    BY <1>6, RestTexts, Zenon
  <2>2. N + 1 \in 1..(N + 1) /\ 1 \in 1..(N + 1) /\ \A k \in 1..N : k \in 1..(N + 1) /\ k + 1 \in 1..(N + 1)
    BY <1>3
  <2> QED
    BY <2>1, <2>2, <1>7
<1>9. ASSUME NEW k \in 1..N
      PROVE  /\ T[k] \in Seq(Char) /\ T[k] # <<>>
             /\ FirstContact(T[k]) = ContactOf(items[k])
             /\ LeftOfContacts(T[k]) = T[k + 1]
  <2>1. T[k] = RestText(X, k) /\ T[k + 1] = RestText(X, k + 1)
    BY <1>8
  <2>2. /\ RestText(X, k) \in Seq(Char)
        /\ k = N => RestText(X, k) = X[k]
        /\ k # N => RestText(X, k) = X[k] \o (Sep \o RestText(X, k + 1))
    BY <1>6, RestTexts
  <2>3. \A j \in 1..N : Whole(RestText(X, j), Blank)
    BY <1>5, <1>6, RestWhole, Zenon
  <2>4. T[k] # <<>>
    BY <2>1, <2>3, Zenon DEF Whole
  <2>5. CASE k = N
    <3>1. T[k] = ItemText(items[k]) /\ T[k + 1] = <<>>
      BY <2>1, <2>2, <2>5, <1>5, <1>8, Zenon
    <3>2. /\ Same(FirstContact(ItemText(items[k])), ContactOf(items[k]))
          /\ Same(LeftOfContacts(ItemText(items[k])), <<>>)
      BY <1>3, LastContactRead, Zenon
    <3> QED
      BY <2>1, <2>2, <2>4, <3>1, <3>2, Zenon DEF Same
  <2>6. CASE k # N
    <3>1. PICK t : t = RestText(X, k + 1)
      OBVIOUS
    <3>2. k + 1 \in 1..N
      BY <2>6, <1>3
    <3>3. t \in Seq(Char)
      BY <3>1, <3>2, <1>6, RestTexts
    <3>4. t # <<>> /\ t[1] \notin Blank /\ t[Len(t)] \notin Blank
      BY <3>1, <3>2, <2>3, Zenon DEF Whole
    <3>5. /\ Same(FirstContact(ItemText(items[k]) \o (Sep \o t)), ContactOf(items[k]))
          /\ Same(LeftOfContacts(ItemText(items[k]) \o (Sep \o t)), t)
      BY <3>3, <3>4, <1>3, NextContactRead, Zenon
    <3>6. T[k] = ItemText(items[k]) \o (Sep \o t) /\ T[k + 1] = t
      BY <2>1, <2>2, <2>6, <3>1, <1>5, Zenon
    <3> QED
      BY <2>1, <2>2, <2>4, <3>5, <3>6, Zenon DEF Same
  <2> QED
    BY <2>5, <2>6
<1>10. \A k \in 1..N : FirstContacts[T[k]] = ContactOf(items[k]) /\ ContactsLeft[T[k]] = T[k + 1]
  BY <1>9, Zenon DEF FirstContacts, ContactsLeft, Text
<1>11. Lists(T, N, ContactsLeft)
  BY <1>8, <1>9, <1>10, Zenon DEF Lists, Text
<1>12. PICK f : Items(f, FirstContacts, ContactsLeft) /\ \A s : ParseContacts(s) = f[s]
  BY ContactsRead
<1>13. f[T[1]] = [i \in 1..N |-> FirstContacts[T[i]]]
  BY <1>3, <1>11, <1>12, ItemsRead
<1>14. [i \in 1..N |-> FirstContacts[T[i]]] = [i \in 1..N |-> ContactOf(items[i])]
  BY <1>10, Zenon
<1> QED
  BY <1>1, <1>2, <1>8, <1>12, <1>13, <1>14, Zenon DEF Same

\* How many quotes there are up to position k.
QuotesTo(s, k) == Cardinality({q \in 1..k : s[q] = DQ})

\* ... counted position by position.
LEMMA QuotesToNext ==
  ASSUME NEW s
  PROVE  /\ QuotesTo(s, 0) = 0
         /\ \A k \in Nat : /\ QuotesTo(s, k) \in Nat
                           /\ s[k + 1] = DQ => QuotesTo(s, k + 1) = QuotesTo(s, k) + 1
                           /\ s[k + 1] # DQ => QuotesTo(s, k + 1) = QuotesTo(s, k)
<1> DEFINE Q(k) == {q \in 1..k : s[q] = DQ}
<1>1. \A k \in Nat : QuotesTo(s, k) = Cardinality(Q(k))
  BY DEF QuotesTo
<1>2. Q(0) = {}
  OBVIOUS
<1>3. ASSUME NEW k \in Nat PROVE IsFiniteSet(Q(k))
  <2>1. Q(k) \subseteq 1..k
    OBVIOUS
  <2>2. IsFiniteSet(1..k)
    BY FS_Interval
  <2> QED
    BY <2>1, <2>2, FS_Subset
<1>4. ASSUME NEW k \in Nat
      PROVE  /\ k + 1 \notin Q(k)
             /\ s[k + 1] = DQ => Q(k + 1) = Q(k) \cup {k + 1}
             /\ s[k + 1] # DQ => Q(k + 1) = Q(k)
  OBVIOUS
<1> HIDE DEF Q
<1>5. ASSUME NEW k \in Nat
      PROVE  /\ Cardinality(Q(k)) \in Nat
             /\ Cardinality(Q(k) \cup {k + 1}) = Cardinality(Q(k)) + 1
  <2>1. Cardinality(Q(k)) \in Nat
    BY <1>3, FS_CardinalityType
  <2>2. Cardinality(Q(k) \cup {k + 1}) = Cardinality(Q(k)) + 1
    BY <1>3, <1>4, FS_AddElement
  <2> QED
    BY <2>1, <2>2
<1>6. ASSUME NEW k \in Nat
      PROVE  /\ s[k + 1] = DQ => QuotesTo(s, k + 1) = QuotesTo(s, k) + 1
             /\ s[k + 1] # DQ => QuotesTo(s, k + 1) = QuotesTo(s, k)
  <2>1. k + 1 \in Nat
    OBVIOUS
  <2>2. QuotesTo(s, k + 1) = Cardinality(Q(k + 1)) /\ QuotesTo(s, k) = Cardinality(Q(k))
    BY <2>1, <1>1
  <2> QED
    BY <2>2, <1>4, <1>5, Zenon
<1>7. QuotesTo(s, 0) = 0
  BY <1>1, <1>2, FS_EmptySet
<1> QED
  BY <1>1, <1>5, <1>6, <1>7

\* The text s is within t behind position m, and so are its quotes.
Within(s, t, m, N) == m \in Nat /\ N \in Nat /\ \A i \in 1..N : t[m + i] = s[i]
QuotesWithin(s, t, m, N) == \A k \in 0..N : QuotesTo(t, m + k) = QuotesTo(t, m) + QuotesTo(s, k)

\* A text within another one has its quotes.
LEMMA QuotesToShift ==
  ASSUME NEW s, NEW t, NEW m, NEW N, Within(s, t, m, N)
  PROVE  QuotesWithin(s, t, m, N)
<1>0. m \in Nat /\ N \in Nat /\ \A i \in 1..N : t[m + i] = s[i]
  BY Zenon DEF Within
<1> DEFINE G == {k \in 0..N : QuotesTo(t, m + k) = QuotesTo(t, m) + QuotesTo(s, k)}
<1>1. 0 \in G
  <2>1. QuotesTo(s, 0) = 0 /\ QuotesTo(t, m) \in Nat
    BY QuotesToNext, <1>0
  <2>2. m + 0 = m /\ 0 \in 0..N
    BY <1>0
  <2> QED
    BY <2>1, <2>2
<1>2. ASSUME NEW k \in 1..N, k - 1 \in G PROVE k \in G
  <2>1. PICK j : j = k - 1
    OBVIOUS
  <2>2. PICK n : n = m + j
    OBVIOUS
  <2>3. j \in Nat /\ n \in Nat /\ j + 1 = k /\ n + 1 = m + k /\ k \in 0..N
    BY <2>1, <2>2, <1>0
  <2>4. t[n + 1] = s[j + 1]
    BY <2>3, <1>0
  <2>5. /\ QuotesTo(s, j) \in Nat
        /\ s[j + 1] = DQ => QuotesTo(s, j + 1) = QuotesTo(s, j) + 1
        /\ s[j + 1] # DQ => QuotesTo(s, j + 1) = QuotesTo(s, j)
    BY <2>3, QuotesToNext
  <2>6. /\ QuotesTo(t, n) \in Nat
        /\ t[n + 1] = DQ => QuotesTo(t, n + 1) = QuotesTo(t, n) + 1
        /\ t[n + 1] # DQ => QuotesTo(t, n + 1) = QuotesTo(t, n)
    BY <2>3, QuotesToNext
  <2>7. QuotesTo(t, m) \in Nat
    BY QuotesToNext, <1>0
  <2>8. QuotesTo(t, n) = QuotesTo(t, m) + QuotesTo(s, j)
    BY <1>2, <2>1, <2>2
  <2>9. QuotesTo(t, n + 1) = QuotesTo(t, m) + QuotesTo(s, j + 1)
    BY <2>4, <2>5, <2>6, <2>7, <2>8
  <2> QED
    BY <2>3, <2>9
<1>3. \A k \in 1..N : k - 1 \in G => k \in G
  BY <1>2
<1> HIDE DEF G
<1>4. \A k \in 0..N : k \in G
  BY <1>0, <1>1, <1>3, StepByStep
<1> QED
  BY <1>4, Zenon DEF G, QuotesWithin

\* The parameters of a Via end at k.
Splits(s, k) == s[k] = "," /\ QuotesTo(s, k) % 2 = 0

\* ParamsEnd is the first such position.
LEMMA ParamsEndIs ==
  ASSUME NEW S, NEW s \in Seq(S)
  PROVE  /\ (\A j \in 1..Len(s) : ~Splits(s, j)) => ParamsEnd(s) = 0
         /\ \A k \in 1..Len(s) :
                Splits(s, k) /\ (\A j \in 1..(k - 1) : ~Splits(s, j)) => ParamsEnd(s) = k
         /\ ParamsEnd(s) \in 0..Len(s)
         /\ ParamsEnd(s) = 0 => \A j \in 1..Len(s) : ~Splits(s, j)
<1> DEFINE f == [k \in DOMAIN s |-> Splits(s, k)]
<1> DEFINE I == {j \in 1..Len(f) : f[j]}
<1>1. ParamsEnd(s) = IF I # {} THEN Min(I) ELSE 0
  BY DEF ParamsEnd, SelectInSeq, Splits, QuotesTo, DQ
<1>2. Len(f) = Len(s) /\ DOMAIN s = 1..Len(s) /\ Len(s) \in Nat
  OBVIOUS
<1>3. \A k \in DOMAIN s : f[k] <=> Splits(s, k)
  BY Zenon
<1> HIDE DEF f
<1>4. \A k : k \in I <=> k \in 1..Len(s) /\ Splits(s, k)
  BY <1>2, <1>3
<1>5. I \in SUBSET Nat
  BY <1>2
<1> HIDE DEF I
<1>6. I # {} => Min(I) \in I /\ \A y \in I : Min(I) <= y
  BY <1>5, MinIsLeast
<1>7. ASSUME NEW k \in 1..Len(s), Splits(s, k), \A j \in 1..(k - 1) : ~Splits(s, j)
      PROVE  ParamsEnd(s) = k
  <2>1. k \in I
    BY <1>4, <1>7
  <2>2. PICK m : m = Min(I)
    OBVIOUS
  <2>3. m \in I /\ m <= k
    BY <2>1, <2>2, <1>6
  <2>4. m \in 1..Len(s) /\ m \notin 1..(k - 1)
    BY <2>3, <1>4, <1>7
  <2>5. m = k
    BY <2>3, <2>4
  <2> QED
    BY <2>1, <2>2, <2>5, <1>1
<1>8. CASE I = {}
  <2>1. ParamsEnd(s) = 0 /\ 0 \in 0..Len(s)
    BY <1>1, <1>2, <1>8
  <2>2. \A j \in 1..Len(s) : ~Splits(s, j)
    BY <1>4, <1>8, Zenon
  <2> QED
    BY <2>1, <2>2, <1>7, Zenon
<1>9. CASE I # {}
  <2>1. PICK m : m = Min(I)
    OBVIOUS
  <2>2. m \in 1..Len(s) /\ Splits(s, m) /\ ParamsEnd(s) = m
    BY <2>1, <1>1, <1>4, <1>6, <1>9, Zenon
  <2>3. m # 0 /\ m \in 0..Len(s)
    BY <2>2
  <2> QED
    BY <2>2, <2>3, <1>7, Zenon
<1> QED
  BY <1>8, <1>9

\* What the sent-by ends with.
BySep == {";", ","}

\* Parameters that do not end before the text ends.
Unsplit(p) ==
    /\ p \in Seq(Char)
    /\ \A j \in 1..Len(p) : ~Splits(p, j)
    /\ QuotesTo(p, Len(p)) % 2 = 0

\* ... do not end with a comma, and their end is not found.
LEMMA UnsplitEnd ==
  ASSUME NEW p, Unsplit(p)
  PROVE  ParamsEnd(p) = 0 /\ (p # <<>> => p[Len(p)] # ",")
<1>1. p \in Seq(Char)
  BY DEF Unsplit
<1>2. ParamsEnd(p) = 0
  BY <1>1, ParamsEndIs DEF Unsplit
<1>3. ASSUME p # <<>> PROVE p[Len(p)] # ","
  <2>1. Len(p) \in 1..Len(p)
    BY <1>1, <1>3
  <2> QED
    BY <2>1, Zenon DEF Unsplit, Splits
<1> QED
  BY <1>2, <1>3

\* ... even with the semicolon before them.
LEMMA UnsplitText ==
  ASSUME NEW q, Unsplit(q)
  PROVE  Unsplit(ParamText(";", q))
<1>1. CASE q = <<>>
  <2>1. ParamText(";", q) = q
    BY <1>1, Zenon DEF ParamText
  <2> QED
    BY <2>1, Zenon
<1>2. CASE q # <<>>
  <2>1. PICK a : a = <<";">>
    OBVIOUS
  <2>2. PICK n : n = Len(q)
    OBVIOUS
  <2>3. PICK p : p = a \o q
    OBVIOUS
  <2>4. ParamText(";", q) = p
    BY <1>2, <2>1, <2>3, Zenon DEF ParamText
  <2>5. Over(Char, a, 1) /\ Over(Char, q, n) /\ a[1] # "," /\ a[1] # DQ
    <3>0. a[1] # "," /\ a[1] # DQ
      <4>1. ";" # "," /\ ";" # DQ
        BY DEF DQ
      <4>2. \A c : <<c>>[1] = c
        OBVIOUS
      <4> QED
        BY <2>1, <4>1, <4>2, Zenon
    <3>1. ";" \in Char
      BY DEF Char, Plain, Reserved
    <3>2. a \in Seq(Char) /\ Len(a) = 1 /\ a[1] # "," /\ a[1] # DQ
      <4>1. \A c \in Char : <<c>> \in Seq(Char) /\ Len(<<c>>) = 1
        OBVIOUS
      <4> QED
        BY <2>1, <3>1, <3>0, <4>1, Zenon
    <3>3. q \in Seq(Char) /\ n \in Nat
      BY <2>2 DEF Unsplit
    <3> QED
      BY <2>2, <3>2, <3>3 DEF Over
  <2>6. PutTogether(Char, p, a, 1, q, n)
    BY <2>3, <2>5, Together, Zenon
  <2>7. /\ p \in Seq(Char) /\ Len(p) = 1 + n /\ n \in Nat
        /\ \A i \in 1..n : p[1 + i] = q[i]
    BY <2>5, <2>6, Zenon DEF PutTogether, Over
  <2>8. p[1] # "," /\ p[1] # DQ
    <3>1. p[1] = a[1]
      BY <2>6 DEF PutTogether
    <3> QED
      BY <2>5, <3>1, Zenon
  <2>9. QuotesTo(p, 1) = 0
    <3>1. PICK z : z = 0
      OBVIOUS
    <3>2. z \in Nat /\ z + 1 = 1
      BY <3>1
    <3>3. QuotesTo(p, z) = 0 /\ (p[z + 1] # DQ => QuotesTo(p, z + 1) = QuotesTo(p, z))
      BY <3>1, <3>2, QuotesToNext
    <3> QED
      BY <2>8, <3>2, <3>3, Zenon
  <2>10. \A k \in 0..n : QuotesTo(p, 1 + k) = QuotesTo(q, k)
    <3>1. \A k \in 0..n : QuotesTo(p, 1 + k) = QuotesTo(p, 1) + QuotesTo(q, k)
      <4>1. PICK z : z = 1
        OBVIOUS
      <4>2. z \in Nat /\ n \in Nat /\ \A i \in 1..n : p[z + i] = q[i]
        BY <4>1, <2>7
      <4>3. QuotesWithin(q, p, z, n)
        BY <4>2, QuotesToShift, Zenon DEF Within
      <4> QED
        BY <4>1, <4>3, Zenon DEF QuotesWithin
    <3>2. \A k \in 0..n : QuotesTo(q, k) \in Nat
      BY <2>7, QuotesToNext
    <3> QED
      BY <2>9, <3>1, <3>2
  <2>11. ASSUME NEW j \in 1..Len(p) PROVE ~Splits(p, j)
    <3>1. CASE j = 1
      BY <3>1, <2>8, Zenon DEF Splits
    <3>2. CASE j # 1
      <4>1. PICK k : k = j - 1
        OBVIOUS
      <4>2. k \in 1..n /\ k \in 0..n /\ j = 1 + k
        BY <3>2, <4>1, <2>7
      <4>3. QuotesTo(p, j) = QuotesTo(q, k) /\ p[j] = q[k]
        BY <4>2, <2>7, <2>10
      <4>4. ~Splits(q, k)
        BY <4>2, <2>2 DEF Unsplit
      <4> QED
        BY <4>3, <4>4, Zenon DEF Splits
    <3> QED
      BY <3>1, <3>2
  <2>12. QuotesTo(p, Len(p)) % 2 = 0
    <3>1. QuotesTo(p, 1 + n) = QuotesTo(q, n)
      BY <2>7, <2>10
    <3>2. QuotesTo(q, n) % 2 = 0
      BY <2>2 DEF Unsplit
    <3> QED
      BY <2>7, <3>1, <3>2
  <2> QED
    BY <2>4, <2>7, <2>11, <2>12, Zenon DEF Unsplit
<1> QED
  BY <1>1, <1>2

\* A comma behind them ends them.
LEMMA UnsplitThen ==
  ASSUME NEW p, Unsplit(p), NEW r, Follows(r), r # <<>>
  PROVE  ParamsEnd(p \o r) = Len(p) + 1
<1>1. PICK m : m = Len(p)
  OBVIOUS
<1>2. PICK n : n = Len(r)
  OBVIOUS
<1>3. PICK s : s = p \o r
  OBVIOUS
<1>4. Over(Char, p, m) /\ Over(Char, r, n)
  <2>1. p \in Seq(Char) /\ r \in Seq(Char)
    BY DEF Unsplit, Follows
  <2> QED
    BY <1>1, <1>2, <2>1 DEF Over
<1>5. PutTogether(Char, s, p, m, r, n)
  BY <1>3, <1>4, Together, Zenon
<1>6. /\ s \in Seq(Char) /\ Len(s) = m + n /\ m \in Nat /\ n \in Nat
      /\ \A j \in 1..m : s[j] = p[j]
      /\ \A j \in 1..n : s[m + j] = r[j]
  BY <1>4, <1>5, Zenon DEF PutTogether, Over
<1>7. n # 0 /\ r[1] = ","
  <2>1. r \in Seq(Char) /\ r[1] = ","
    BY DEF Follows
  <2> QED
    BY <2>1, <1>2, EmptySeq
<1>8. \A k \in 0..m : QuotesTo(s, k) = QuotesTo(p, k)
  <2>1. \A i \in 1..m : s[0 + i] = p[i]
    BY <1>6
  <2>2. \A k \in 0..m : QuotesTo(s, 0 + k) = QuotesTo(s, 0) + QuotesTo(p, k)
    <3>1. PICK z : z = 0
      OBVIOUS
    <3>2. z \in Nat /\ m \in Nat /\ \A i \in 1..m : s[z + i] = p[i]
      BY <3>1, <2>1, <1>6
    <3>3. QuotesWithin(p, s, z, m)
      BY <3>2, QuotesToShift, Zenon DEF Within
    <3> QED
      BY <3>1, <3>3, Zenon DEF QuotesWithin
  <2>3. QuotesTo(s, 0) = 0 /\ \A k \in 0..m : QuotesTo(p, k) \in Nat /\ 0 + k = k
    BY <1>6, QuotesToNext
  <2> QED
    BY <2>2, <2>3
<1>9. ASSUME NEW j \in 1..m PROVE ~Splits(s, j)
  <2>1. ~Splits(p, j)
    BY <1>1 DEF Unsplit
  <2>2. QuotesTo(s, j) = QuotesTo(p, j) /\ s[j] = p[j]
    BY <1>6, <1>8
  <2> QED
    BY <2>1, <2>2, Zenon DEF Splits
<1>10. Splits(s, m + 1)
  <2>1. s[m + 1] = ","
    <3>0. n \in Nat /\ n # 0
      BY <1>6, <1>7, Zenon
    <3>1. 1 \in 1..n
      BY <3>0
    <3> QED
      BY <3>1, <1>6, <1>7, Zenon
  <2>2. QuotesTo(s, m + 1) = QuotesTo(s, m)
    <3>1. s[m + 1] # DQ
      BY <2>1 DEF DQ
    <3> QED
      BY <3>1, <1>6, QuotesToNext
  <2>3. QuotesTo(s, m) = QuotesTo(p, m)
    BY <1>6, <1>8
  <2>4. QuotesTo(p, m) % 2 = 0
    BY <1>1 DEF Unsplit
  <2> QED
    BY <2>1, <2>2, <2>3, <2>4, Zenon DEF Splits
<1>11. m + 1 \in 1..Len(s) /\ (m + 1) - 1 = m
  <2>1. Len(s) = m + n /\ m \in Nat /\ n \in Nat /\ n # 0
    BY <1>6, <1>7, Zenon
  <2> QED
    BY <2>1
<1>12. ParamsEnd(s) = m + 1
  BY <1>6, <1>9, <1>10, <1>11, ParamsEndIs
<1> QED
  BY <1>1, <1>3, <1>12, Zenon

\* Where the sent-by ends.
ByEnd(s) == SelectInSeq(s, LAMBDA d : d \in {";", ","})

\* ... is at the first semicolon or comma.
LEMMA ByEndIs ==
  ASSUME NEW S, NEW s \in Seq(S)
  PROVE  /\ (\A j \in 1..Len(s) : s[j] \notin BySep) => ByEnd(s) = 0
         /\ \A k \in 1..Len(s) :
                s[k] \in BySep /\ (\A j \in 1..(k - 1) : s[j] \notin BySep) => ByEnd(s) = k
         /\ ByEnd(s) \in 0..Len(s)
<1> DEFINE I == {j \in 1..Len(s) : s[j] \in BySep}
<1>1. ByEnd(s) = IF I # {} THEN Min(I) ELSE 0
  BY DEF ByEnd, SelectInSeq, BySep
<1>2. Len(s) \in Nat /\ I \in SUBSET Nat
  OBVIOUS
<1>3. \A k : k \in I <=> k \in 1..Len(s) /\ s[k] \in BySep
  OBVIOUS
<1> HIDE DEF I
<1>4. I # {} => Min(I) \in I /\ \A y \in I : Min(I) <= y
  BY <1>2, MinIsLeast
<1>5. ASSUME NEW k \in 1..Len(s), s[k] \in BySep, \A j \in 1..(k - 1) : s[j] \notin BySep
      PROVE  ByEnd(s) = k
  <2>1. k \in I
    BY <1>3, <1>5, Zenon
  <2>2. PICK m : m = Min(I)
    OBVIOUS
  <2>3. m \in I /\ m <= k
    BY <2>1, <2>2, <1>4
  <2>4. m \in 1..Len(s) /\ s[m] \in BySep
    BY <2>3, <1>3, Zenon
  <2>5. m \notin 1..(k - 1)
    BY <2>4, <1>5, Zenon
  <2>6. m = k
    BY <2>3, <2>4, <2>5, <1>2
  <2> QED
    BY <2>1, <2>2, <2>6, <1>1
<1>6. CASE I = {}
  <2>1. ByEnd(s) = 0 /\ 0 \in 0..Len(s)
    BY <1>1, <1>2, <1>6
  <2> QED
    BY <2>1, <1>5, Zenon
<1>7. CASE I # {}
  <2>1. PICK m : m = Min(I)
    OBVIOUS
  <2>2. m \in I
    BY <2>1, <1>4, <1>7
  <2>3. m \in 1..Len(s) /\ s[m] \in BySep /\ ByEnd(s) = m
    BY <2>1, <2>2, <1>1, <1>3, <1>7, Zenon
  <2>4. m \in 0..Len(s)
    BY <2>3, <1>2
  <2> QED
    BY <2>3, <2>4, <1>5, Zenon
<1> QED
  BY <1>6, <1>7

BetweenVias == {" ", ","}

\* The parameters of the rest of a Via, and its sent-by.
ParamsFrom(rest, by) == IF by = 0 THEN <<>> ELSE SubSeq(rest, by, Len(rest))
ByUpto(rest, by) == Trim(IF by = 0 THEN rest ELSE Upto(rest, by), Blank)
ParamUpto(params, end) == Param(IF end = 0 THEN params ELSE Upto(params, end))
LeftFrom(params, end) ==
    IF end = 0 THEN <<>> ELSE Trim(SubSeq(params, end, Len(params)), BetweenVias)

ViaRecord(proto, by, param) == [SentProtocol |-> proto, SentBy |-> by, RawParameter |-> param]

\* The parts that FirstVia takes a text apart into.
ViaAt(text, s, sp, rest, params) ==
    /\ s = Trim(text, Blank) /\ sp = IndexByte(s, " ")
    /\ rest = Trim(After(s, sp), Blank)
    /\ params = ParamsFrom(rest, ByEnd(rest))

\* ... are those of the Via and of what is left.
LEMMA FirstViaAt ==
  ASSUME NEW text, NEW s, NEW sp, NEW rest, NEW params, ViaAt(text, s, sp, rest, params)
  PROVE  /\ sp = 0 => FirstVia(text) = [via |-> Panics, left |-> <<>>]
         /\ sp # 0 =>
              FirstVia(text) =
                [via  |-> ViaRecord(Upto(s, sp), ByUpto(rest, ByEnd(rest)),
                                    ParamUpto(params, ParamsEnd(params))),
                 left |-> LeftFrom(params, ParamsEnd(params))]
<1>1. /\ s = Trim(text, Blank) /\ sp = IndexByte(s, " ")
      /\ rest = Trim(After(s, sp), Blank)
      /\ params = ParamsFrom(rest, ByEnd(rest))
  BY Zenon DEF ViaAt
<1>2. ByEnd(rest) = LET I == {i \in 1..Len(rest) : rest[i] \in {";", ","}} IN IF I # {} THEN Min(I) ELSE 0
  BY DEF ByEnd, SelectInSeq
<1>3. PICK by : by = ByEnd(rest)
  OBVIOUS
<1>4. PICK end : end = ParamsEnd(params)
  OBVIOUS
<1>5. FirstVia(text) =
        IF sp = 0 THEN [via |-> Panics, left |-> <<>>]
        ELSE [via  |-> ViaRecord(Upto(s, sp), ByUpto(rest, by), ParamUpto(params, end)),
              left |-> LeftFrom(params, end)]
  BY <1>1, <1>2, <1>3, <1>4, Zenon
     DEF FirstVia, ViaOf, SelectInSeq, ParamsFrom, ByUpto, ParamUpto, LeftFrom, ViaRecord, BetweenVias
<1> QED
  BY <1>3, <1>4, <1>5, Zenon

\* A sequence taken apart where it was put together.
LEMMA CutBehind ==
  ASSUME NEW S, NEW a \in Seq(S), NEW b \in Seq(S), NEW m, m = Len(a), NEW x, x = a \o b
  PROVE  /\ Same(Upto(x, m + 1), a)
         /\ Same(SubSeq(x, m + 1, Len(x)), b)
<1>1. PICK n : n = Len(b)
  OBVIOUS
<1>2. Over(S, a, m) /\ Over(S, b, n)
  BY <1>1 DEF Over
<1>3. PutTogether(S, x, a, m, b, n)
  BY <1>2, Together, Zenon
<1>4. /\ x \in Seq(S) /\ Len(x) = m + n /\ m \in Nat /\ n \in Nat
      /\ \A j \in 1..m : x[j] = a[j]
      /\ \A j \in 1..n : x[m + j] = b[j]
  BY <1>2, <1>3, Zenon DEF PutTogether, Over
<1>5. m \in 0..Len(x)
  BY <1>4
<1>6. PICK u : u = SubSeq(x, 1, m)
  OBVIOUS
<1>7. PICK v : v = SubSeq(x, m + 1, Len(x))
  OBVIOUS
<1>8. u \in Seq(S) /\ Len(u) = m /\ \A j \in 1..m : u[j] = a[j]
  BY <1>4, <1>6
<1>9. v \in Seq(S) /\ Len(v) = n /\ \A j \in 1..n : v[j] = b[j]
  <2>1. v \in Seq(S) /\ Len(v) = n
    BY <1>4, <1>7
  <2>2. ASSUME NEW j \in 1..n PROVE v[j] = b[j]
    <3>1. v[j] = x[m + j]
      BY <1>4, <1>7
    <3> QED
      BY <3>1, <1>4
  <2> QED
    BY <2>1, <2>2
<1>10. u = a
  BY <1>8, SeqEqual
<1>11. v = b
  BY <1>1, <1>9, SeqEqual
<1>12. Upto(x, m + 1) = u
  <2>1. (m + 1) - 1 = m
    BY <1>4
  <2> QED
    BY <2>1, <1>6 DEF Upto
<1> QED
  BY <1>7, <1>10, <1>11, <1>12, Zenon DEF Same

\* The first Via of a text, and what is left of it.
FirstVias == [t \in Text |-> FirstVia(t).via]
ViasLeft == [t \in Text |-> FirstVia(t).left]

\* Less is left after every Via.
LEMMA ViasShorten == Shortens(ViasLeft)
<1> SUFFICES ASSUME NEW t \in Text, t # <<>>
             PROVE  ViasLeft[t] \in Text /\ Len(ViasLeft[t]) < Len(t)
  BY DEF Shortens
<1>1. t \in Seq(Char) /\ Len(t) \in Nat /\ Len(t) > 0
  BY EmptySeq DEF Text
<1>2. ViasLeft[t] = FirstVia(t).left
  BY DEF ViasLeft
<1>3. PICK s : s = Trim(t, Blank)
  OBVIOUS
<1>4. PICK sp : sp = IndexByte(s, " ")
  OBVIOUS
<1>5. PICK y : y = After(s, sp)
  OBVIOUS
<1>6. PICK rest : rest = Trim(y, Blank)
  OBVIOUS
<1>7. PICK by : by = ByEnd(rest)
  OBVIOUS
<1>8. PICK params : params = ParamsFrom(rest, by)
  OBVIOUS
<1>9. PICK end : end = ParamsEnd(params)
  OBVIOUS
<1>10. ViaAt(t, s, sp, rest, params)
  BY <1>3, <1>4, <1>5, <1>6, <1>7, <1>8, Zenon DEF ViaAt
<1>11. s \in Seq(Char) /\ Len(s) <= Len(t) /\ Len(s) \in Nat
  BY <1>1, <1>3, TrimShortens
<1>12. sp \in 0..Len(s)
  BY <1>4, <1>11, IndexByteIsFirst
<1>13. CASE sp = 0
  <2>1. FirstVia(t) = [via |-> Panics, left |-> <<>>]
    BY <1>10, <1>13, FirstViaAt, Zenon
  <2>2. FirstVia(t).left = <<>>
    BY <2>1
  <2> QED
    BY <2>2, <1>1, <1>2 DEF Text
<1>14. CASE sp # 0
  <2>1. PICK v : FirstVia(t) = [via |-> v, left |-> LeftFrom(params, end)]
    BY <1>9, <1>10, <1>14, FirstViaAt, Zenon
  <2>2. FirstVia(t).left = LeftFrom(params, end)
    BY <2>1
  <2>3. y \in Seq(Char) /\ Len(y) < Len(s) /\ Len(y) \in Nat
    <3>1. sp \in 1..Len(s)
      BY <1>11, <1>12, <1>14
    <3>2. y \in Seq(Char) /\ Len(y) = Len(s) - sp
      BY <3>1, <1>5, <1>11, CutAt
    <3> QED
      BY <3>1, <3>2, <1>11
  <2>4. rest \in Seq(Char) /\ Len(rest) <= Len(y) /\ Len(rest) \in Nat
    BY <2>3, <1>6, TrimShortens
  <2>5. by \in 0..Len(rest)
    BY <2>4, <1>7, ByEndIs
  <2>6. params \in Seq(Char) /\ Len(params) <= Len(rest) /\ Len(params) \in Nat
    <3>1. CASE by = 0
      <4>1. params = <<>>
        BY <3>1, <1>8, Zenon DEF ParamsFrom
      <4> QED
        BY <4>1, <2>4
    <3>2. CASE by # 0
      <4>1. params = SubSeq(rest, by, Len(rest))
        BY <3>2, <1>8, Zenon DEF ParamsFrom
      <4> QED
        BY <4>1, <2>4, <2>5, <3>2
    <3> QED
      BY <3>1, <3>2
  <2>7. end \in 0..Len(params)
    BY <2>6, <1>9, ParamsEndIs
  <2>8. CASE end = 0
    <3>1. FirstVia(t).left = <<>>
      BY <2>2, <2>8, Zenon DEF LeftFrom
    <3> QED
      BY <3>1, <1>1, <1>2 DEF Text
  <2>9. CASE end # 0
    <3>1. PICK z : z = SubSeq(params, end, Len(params))
      OBVIOUS
    <3>2. z \in Seq(Char) /\ Len(z) <= Len(params) /\ Len(z) \in Nat
      BY <3>1, <2>6, <2>7, <2>9
    <3>3. PICK l : l = Trim(z, BetweenVias)
      OBVIOUS
    <3>4. l \in Seq(Char) /\ Len(l) <= Len(z) /\ Len(l) \in Nat
      BY <3>2, <3>3, TrimShortens
    <3>5. FirstVia(t).left = l
      BY <2>2, <2>9, <3>1, <3>3, Zenon DEF LeftFrom
    <3>6. Len(l) < Len(t)
      BY <3>2, <3>4, <2>3, <2>4, <2>6, <1>1, <1>11
    <3> QED
      BY <3>4, <3>5, <3>6, <1>2 DEF Text
  <2> QED
    BY <2>8, <2>9
<1> QED
  BY <1>12, <1>13, <1>14

\* What a sequence has.
LEMMA SeqFacts ==
  ASSUME NEW S, NEW a \in Seq(S)
  PROVE  /\ Len(a) \in Nat /\ DOMAIN a = 1..Len(a) /\ Len(a) + 1 # 0
         /\ Same(a \o <<>>, a) /\ Same(<<>> \o a, a)
         /\ a # <<>> => /\ 1 \in 1..Len(a) /\ Len(a) \in 1..Len(a)
                        /\ a[1] \in S /\ a[Len(a)] \in S
<1>1. Len(a) \in Nat /\ DOMAIN a = 1..Len(a) /\ Len(a) + 1 # 0
  OBVIOUS
<1>2. a \o <<>> = a /\ <<>> \o a = a
  OBVIOUS
<1>3. ASSUME a # <<>> PROVE 1 \in 1..Len(a) /\ Len(a) \in 1..Len(a) /\ a[1] \in S /\ a[Len(a)] \in S
  BY <1>1, <1>3, EmptySeq
<1> QED
  BY <1>1, <1>2, <1>3, Zenon DEF Same

\* A sequence of one element.
LEMMA Single ==
  ASSUME NEW S, NEW c \in S
  PROVE  <<c>> \in Seq(S) /\ <<c>> # <<>> /\ Same(<<c>>[1], c)
BY DEF Same

\* The ends of two sequences put together.
LEMMA FrontOf ==
  ASSUME NEW S, NEW a \in Seq(S), a # <<>>, NEW t \in Seq(S)
  PROVE  a \o t \in Seq(S) /\ a \o t # <<>> /\ Same((a \o t)[1], a[1])
<1>1. PICK x : x = a \o t
  OBVIOUS
<1>2. x \in Seq(S) /\ x # <<>> /\ x[1] = a[1]
  BY <1>1, FirstOfBoth
<1> QED
  BY <1>1, <1>2, Zenon DEF Same

\* ... at the other end.
LEMMA BackOf ==
  ASSUME NEW S, NEW a \in Seq(S), NEW t \in Seq(S), t # <<>>
  PROVE  a \o t \in Seq(S) /\ a \o t # <<>> /\ Same((a \o t)[Len(a \o t)], t[Len(t)])
<1>1. PICK x : x = a \o t
  OBVIOUS
<1>2. x \in Seq(S) /\ x # <<>> /\ x[Len(x)] = t[Len(t)]
  BY <1>1, LastOfBoth
<1> QED
  BY <1>1, <1>2, Zenon DEF Same

\* A Via that a peer sends.
Sendable(via) ==
    /\ via.SentProtocol \in Seq(Char) /\ via.SentBy \in Seq(Char) /\ via.RawParameter \in Seq(Char)
    /\ via = ViaRecord(via.SentProtocol, via.SentBy, via.RawParameter)
    /\ ViaSyntax(via)

\* The parts of a Via in a text: a is the protocol, by the sent-by, q the parameters
\* and p what is written for them.
ViaPieces(a, by, q, p) ==
    /\ a \in Seq(Char \ {" "}) /\ a \in Seq(Char) /\ a # <<>> /\ a[1] \notin BetweenVias
    /\ by \in Seq(Char) /\ by # <<>> /\ by[1] # " " /\ by[Len(by)] \notin BetweenVias
    /\ \A i \in 1..Len(by) : by[i] \notin BySep
    /\ p \in Seq(Char) /\ Unsplit(p) /\ Param(p) = q
    /\ (p # <<>> => p[1] = ";" /\ p[Len(p)] \notin BetweenVias)

\* ... as they are written.
LEMMA ViaPiecesOf ==
  ASSUME NEW via, Sendable(via)
  PROVE  /\ ViaPieces(via.SentProtocol, via.SentBy, via.RawParameter, ParamText(";", via.RawParameter))
         /\ Same(ViaString(via),
                 (via.SentProtocol \o <<" ">> \o via.SentBy) \o ParamText(";", via.RawParameter))
<1>1. PICK a : a = via.SentProtocol
  OBVIOUS
<1>2. PICK by : by = via.SentBy
  OBVIOUS
<1>3. PICK q : q = via.RawParameter
  OBVIOUS
<1>4. PICK p : p = ParamText(";", q)
  OBVIOUS
<1>5. a \in Seq(Char) /\ by \in Seq(Char) /\ q \in Seq(Char)
  BY <1>1, <1>2, <1>3, Zenon DEF Sendable
<1>6. /\ a # <<>> /\ ~Has(a, " ") /\ a[1] # ","
      /\ by # <<>> /\ NoneAtEnds(by, Blank) /\ ToSet(by) \cap BySep = {}
      /\ NoneAtEnds(q, ParamCut) /\ ParamsEnd(q) = 0
  BY <1>1, <1>2, <1>3, Zenon DEF Sendable, ViaSyntax, BySep, ParamCut
<1>7. Cardinality({i \in DOMAIN q : q[i] = DQ}) % 2 = 0
  BY <1>3, Zenon DEF Sendable, ViaSyntax, DQ
<1>8. Unsplit(q)
  <2>1. DOMAIN q = 1..Len(q)
    BY <1>5
  <2>2. QuotesTo(q, Len(q)) % 2 = 0
    BY <1>7, <2>1, Zenon DEF QuotesTo
  <2>3. \A j \in 1..Len(q) : ~Splits(q, j)
    BY <1>5, <1>6, ParamsEndIs
  <2> QED
    BY <1>5, <2>2, <2>3, Zenon DEF Unsplit
<1>9. Unsplit(p)
  BY <1>4, <1>8, UnsplitText, Zenon
<1>10. q # <<>> => q[1] \notin ParamCut /\ q[Len(q)] \notin ParamCut
  BY <1>6, Zenon DEF NoneAtEnds, Last
<1>11. p \in Seq(Char) /\ Param(p) = q /\ \A s \in Seq(Char) : WithParam(s, q) = s \o p
  BY <1>4, <1>5, <1>10, ParamKept, Zenon
<1>12. ASSUME p # <<>> PROVE p[1] = ";" /\ p[Len(p)] \notin BetweenVias
  <2>1. q # <<>>
    BY <1>4, <1>12, Zenon DEF ParamText
  <2>2. PICK e : e = <<";">>
    OBVIOUS
  <2>3. e \in Seq(Char) /\ e # <<>> /\ e[1] = ";"
    <3>1. ";" \in Char
      BY DEF Char, Plain, Reserved
    <3>2. \A c \in Char : <<c>> \in Seq(Char) /\ <<c>> # <<>> /\ <<c>>[1] = c
      OBVIOUS
    <3> QED
      BY <2>2, <3>1, <3>2, Zenon
  <2>4. p = e \o q
    BY <1>4, <2>1, <2>2, Zenon DEF ParamText
  <2>5. p[1] = e[1]
    <3>1. Same((e \o q)[1], e[1])
      BY <1>5, <2>3, FrontOf, Zenon
    <3> QED
      BY <2>4, <3>1, Zenon DEF Same
  <2>6. p[Len(p)] = q[Len(q)]
    <3>1. Same((e \o q)[Len(e \o q)], q[Len(q)])
      BY <1>5, <2>1, <2>3, BackOf, Zenon
    <3> QED
      BY <2>4, <3>1, Zenon DEF Same
  <2>7. q[Len(q)] # "," /\ q[Len(q)] # " "
    <3>1. q[Len(q)] # ","
      BY <1>8, <2>1, UnsplitEnd, Zenon
    <3>2. " " \in ParamCut
      BY DEF ParamCut
    <3> QED
      BY <1>10, <2>1, <3>1, <3>2, Zenon
  <2>8. q[Len(q)] \notin BetweenVias
    BY <2>7, Zenon DEF BetweenVias
  <2> QED
    BY <2>3, <2>5, <2>6, <2>8, Zenon
<1>13. a \in Seq(Char \ {" "}) /\ a[1] \notin BetweenVias
  <2>1. a \in Seq(Char \ {" "})
    BY <1>5, <1>6, HasNot, Zenon
  <2>2. a[1] # " "
    <3>1. a[1] \in Char \ {" "}
      BY <2>1, <1>6, SeqFacts, Zenon
    <3> QED
      BY <3>1
  <2>3. a[1] \notin BetweenVias
    BY <1>6, <2>2, Zenon DEF BetweenVias
  <2> QED
    BY <2>1, <2>3
<1>14. /\ by[1] # " " /\ by[Len(by)] \notin BetweenVias
       /\ \A i \in 1..Len(by) : by[i] \notin BySep
  <2>1. by[1] # " " /\ by[Len(by)] # " "
    BY <1>6, Zenon DEF NoneAtEnds, Last, Blank
  <2>2. ASSUME NEW i \in 1..Len(by) PROVE by[i] \notin BySep
    <3>1. DOMAIN by = 1..Len(by)
      BY <1>5
    <3>2. by[i] \in ToSet(by)
      BY <3>1, Zenon DEF ToSet
    <3> QED
      BY <1>6, <3>2
  <2>3. Len(by) \in 1..Len(by)
    BY <1>5, <1>6, SeqFacts, Zenon
  <2>4. by[Len(by)] # ","
    <3>1. "," \in BySep
      BY DEF BySep
    <3> QED
      BY <2>2, <2>3, <3>1, Zenon
  <2>5. by[Len(by)] \notin BetweenVias
    BY <2>1, <2>4, Zenon DEF BetweenVias
  <2> QED
    BY <2>1, <2>2, <2>5
<1>15. ViaPieces(a, by, q, p)
  BY <1>5, <1>6, <1>9, <1>11, <1>12, <1>13, <1>14, Zenon DEF ViaPieces
<1>16. ViaString(via) = (a \o <<" ">> \o by) \o p
  <2>1. " " \in Char
    BY DEF Char, Plain, Other
  <2>2. a \o <<" ">> \o by \in Seq(Char)
    BY <1>5, <2>1, JointSeq
  <2> QED
    BY <1>1, <1>2, <1>3, <1>11, <2>2, Zenon DEF ViaString
<1> QED
  BY <1>1, <1>2, <1>3, <1>4, <1>15, <1>16, Zenon DEF Same

\* What is left behind a Via that r follows.
LeftOfVia(r) == IF r = <<>> THEN <<>> ELSE Trim(r, BetweenVias)

\* The sent-by and the parameters are taken apart.
LEMMA RestOfVia ==
  ASSUME NEW a, NEW by, NEW q, NEW p, ViaPieces(a, by, q, p), NEW r, Follows(r),
         NEW x, x = by \o (p \o r)
  PROVE  /\ Same(ParamsFrom(x, ByEnd(x)), p \o r)
         /\ Same(ByUpto(x, ByEnd(x)), by)
         /\ Same(ParamUpto(p \o r, ParamsEnd(p \o r)), q)
         /\ Same(LeftFrom(p \o r, ParamsEnd(p \o r)), LeftOfVia(r))
<1>1. /\ by \in Seq(Char) /\ by # <<>> /\ by[1] # " " /\ by[Len(by)] \notin BetweenVias
      /\ \A i \in 1..Len(by) : by[i] \notin BySep
      /\ p \in Seq(Char) /\ Unsplit(p) /\ Param(p) = q
      /\ (p # <<>> => p[1] = ";")
  BY Zenon DEF ViaPieces
<1>2. r \in Seq(Char) /\ (r # <<>> => r[1] = ",")
  BY Zenon DEF Follows
<1>3. PICK y : y = p \o r
  OBVIOUS
<1>4. y \in Seq(Char) /\ (y # <<>> => y[1] \in BySep) /\ (r = <<>> => y = p)
  <2>1. CASE p = <<>>
    <3>1. y = r
      <4>1. Same(<<>> \o r, r)
        BY <1>2, SeqFacts, Zenon
      <4> QED
        BY <4>1, <2>1, <1>3, Zenon DEF Same
    <3> QED
      BY <2>1, <3>1, <1>2, Zenon DEF BySep
  <2>2. CASE p # <<>>
    <3>1. y \in Seq(Char) /\ y[1] = p[1]
      <4>1. p \o r \in Seq(Char) /\ Same((p \o r)[1], p[1])
        BY <2>2, <1>1, <1>2, FrontOf, Zenon
      <4> QED
        BY <4>1, <1>3, Zenon DEF Same
    <3>2. r = <<>> => y = p
      <4>1. Same(p \o <<>>, p)
        BY <1>1, SeqFacts, Zenon
      <4> QED
        BY <4>1, <1>3, Zenon DEF Same
    <3> QED
      BY <2>2, <3>1, <3>2, <1>1, Zenon DEF BySep
  <2> QED
    BY <2>1, <2>2
<1>5. PICK m : m = Len(by)
  OBVIOUS
<1>6. PICK n : n = Len(y)
  OBVIOUS
<1>7. Over(Char, by, m) /\ Over(Char, y, n)
  <2>1. Len(by) \in Nat /\ Len(y) \in Nat
    BY <1>1, <1>4, SeqFacts, Zenon
  <2> QED
    BY <2>1, <1>1, <1>4, <1>5, <1>6, Zenon DEF Over
<1>8. PutTogether(Char, x, by, m, y, n)
  BY <1>3, <1>7, Together, Zenon
<1>9. /\ x \in Seq(Char) /\ Len(x) = m + n /\ m \in Nat /\ n \in Nat
      /\ \A j \in 1..m : x[j] = by[j]
      /\ \A j \in 1..n : x[m + j] = y[j]
  BY <1>7, <1>8, Zenon DEF PutTogether, Over
<1>10. \A j \in 1..m : x[j] \notin BySep
  BY <1>1, <1>5, <1>9
<1>11. Trim(by, Blank) = by
  <2>1. by[1] \notin Blank /\ by[Len(by)] \notin Blank
    BY <1>1 DEF BetweenVias, Blank
  <2> QED
    BY <2>1, <1>1, TrimNothing
<1>12. ParamsFrom(x, ByEnd(x)) = y /\ ByUpto(x, ByEnd(x)) = by
  <2>1. CASE y = <<>>
    <3>1. x = by
      <4>1. Same(by \o <<>>, by)
        BY <1>1, SeqFacts, Zenon
      <4> QED
        BY <4>1, <2>1, <1>3, Zenon DEF Same
    <3>2. ByEnd(x) = 0
      BY <3>1, <1>1, ByEndIs
    <3> QED
      BY <2>1, <3>1, <3>2, <1>11, Zenon DEF ParamsFrom, ByUpto
  <2>2. CASE y # <<>>
    <3>1. n # 0
      BY <2>2, <1>4, <1>6, EmptySeq
    <3>2. x[m + 1] \in BySep
      <4>1. 1 \in 1..n
        BY <3>1, <1>9
      <4>2. x[m + 1] = y[1]
        BY <4>1, <1>9, Zenon
      <4> QED
        BY <2>2, <4>2, <1>4, Zenon
    <3>3. m + 1 \in 1..Len(x) /\ (m + 1) - 1 = m /\ m + 1 # 0
      BY <3>1, <1>9
    <3>4. ByEnd(x) = m + 1
      BY <3>2, <3>3, <1>9, <1>10, ByEndIs
    <3>5. /\ Same(Upto(x, m + 1), by)
          /\ Same(SubSeq(x, m + 1, Len(x)), y)
      BY <1>1, <1>3, <1>4, <1>5, CutBehind, Zenon
    <3> QED
      BY <3>3, <3>4, <3>5, <1>11, Zenon DEF ParamsFrom, ByUpto, Same
  <2> QED
    BY <2>1, <2>2
<1>13. ParamUpto(y, ParamsEnd(y)) = q /\ LeftFrom(y, ParamsEnd(y)) = LeftOfVia(r)
  <2>1. CASE r = <<>>
    <3>1. y = p
      BY <2>1, <1>4
    <3>2. ParamsEnd(y) = 0
      BY <3>1, <1>1, UnsplitEnd, Zenon
    <3> QED
      BY <2>1, <3>1, <3>2, <1>1, Zenon DEF ParamUpto, LeftFrom, LeftOfVia
  <2>2. CASE r # <<>>
    <3>1. PICK k : k = Len(p)
      OBVIOUS
    <3>2. ParamsEnd(p \o r) = Len(p) + 1
      BY <2>2, <1>1, UnsplitThen
    <3>3. ParamsEnd(y) = k + 1
      BY <3>1, <3>2, <1>3, Zenon
    <3>4. k + 1 # 0
      <4>1. Len(p) + 1 # 0
        BY <1>1, SeqFacts, Zenon
      <4> QED
        BY <3>1, <4>1, Zenon
    <3>5. /\ Same(Upto(y, k + 1), p)
          /\ Same(SubSeq(y, k + 1, Len(y)), r)
      BY <1>1, <1>2, <1>3, <3>1, CutBehind, Zenon
    <3> QED
      BY <2>2, <3>3, <3>4, <3>5, <1>1, Zenon DEF ParamUpto, LeftFrom, LeftOfVia, Same
  <2> QED
    BY <2>1, <2>2
<1> QED
  BY <1>3, <1>12, <1>13, Zenon DEF Same

\* The first Via of a text is read as it was sent.
LEMMA FirstViaRead ==
  ASSUME NEW via, Sendable(via), NEW r, Follows(r),
         NEW t, t = ViaString(via) \o r, Whole(t, BetweenVias)
  PROVE  /\ Same(FirstVia(t).via, via)
         /\ Same(FirstVia(t).left, LeftOfVia(r))
<1>1. PICK a : a = via.SentProtocol
  OBVIOUS
<1>2. PICK by : by = via.SentBy
  OBVIOUS
<1>3. PICK q : q = via.RawParameter
  OBVIOUS
<1>4. PICK p : p = ParamText(";", q)
  OBVIOUS
<1>5. ViaPieces(a, by, q, p) /\ Same(ViaString(via), (a \o <<" ">> \o by) \o p)
  BY <1>1, <1>2, <1>3, <1>4, ViaPiecesOf, Zenon
<1>6. /\ a \in Seq(Char \ {" "}) /\ a \in Seq(Char) /\ a # <<>> /\ a[1] \notin BetweenVias
      /\ by \in Seq(Char) /\ by # <<>> /\ by[1] # " " /\ p \in Seq(Char)
  BY <1>5, Zenon DEF ViaPieces
<1>7. r \in Seq(Char)
  BY DEF Follows
<1>8. PICK y : y = p \o r
  OBVIOUS
<1>9. PICK x : x = by \o y
  OBVIOUS
<1>10. y \in Seq(Char)
  BY <1>6, <1>7, <1>8, TogetherOver, Zenon
<1>11. x \in Seq(Char) /\ x # <<>> /\ x[1] = by[1]
  <2>1. by \o y \in Seq(Char) /\ by \o y # <<>> /\ Same((by \o y)[1], by[1])
    BY <1>6, <1>10, FrontOf, Zenon
  <2> QED
    BY <2>1, <1>9, Zenon DEF Same
<1>12. PICK e : e = <<" ">>
  OBVIOUS
<1>13. " " \in Char /\ e \in Seq(Char)
  <2>1. " " \in Char
    BY DEF Char, Plain, Other
  <2>2. <<" ">> \in Seq(Char)
    BY <2>1, Single, Zenon
  <2> QED
    BY <2>1, <2>2, <1>12, Zenon
<1>14. PICK ae : ae = a \o e
  OBVIOUS
<1>15. ae \in Seq(Char)
  BY <1>6, <1>13, <1>14, TogetherOver, Zenon
<1>16. t = ae \o x
  <2>1. t = ((ae \o by) \o p) \o r
    BY <1>5, <1>12, <1>14, Zenon DEF Same
  <2>2. PICK ab : ab = ae \o by
    OBVIOUS
  <2>3. ab \in Seq(Char)
    BY <2>2, <1>6, <1>15, TogetherOver, Zenon
  <2>4. Same((ab \o p) \o r, ab \o (p \o r))
    BY <2>3, <1>6, <1>7, Regrouped, Zenon
  <2>5. Same((ae \o by) \o y, ae \o (by \o y))
    BY <1>6, <1>10, <1>15, Regrouped, Zenon
  <2> QED
    BY <2>1, <2>2, <2>4, <2>5, <1>8, <1>9, Zenon DEF Same
<1>17. t = a \o <<" ">> \o x
  BY <1>12, <1>14, <1>16, Zenon
<1>18. t \in Seq(Char) /\ t # <<>> /\ t[Len(t)] = x[Len(x)]
  <2>1. ae \o x \in Seq(Char) /\ ae \o x # <<>> /\ Same((ae \o x)[Len(ae \o x)], x[Len(x)])
    BY <1>11, <1>15, BackOf, Zenon
  <2> QED
    BY <2>1, <1>16, Zenon DEF Same
<1>19. t[1] \notin Blank /\ t[Len(t)] \notin Blank
  <2>1. t[1] \notin BetweenVias /\ t[Len(t)] \notin BetweenVias
    BY Zenon DEF Whole
  <2> QED
    BY <2>1, Zenon DEF BetweenVias, Blank
<1>20. Trim(t, Blank) = t
  <2>1. \A z : z \in Seq(Char) /\ z[1] \notin Blank /\ z[Len(z)] \notin Blank => Trim(z, Blank) = z
    BY TrimNothing
  <2> QED
    BY <2>1, <1>18, <1>19, Zenon
<1>21. Trim(x, Blank) = x
  <2>1. \A z : z \in Seq(Char) /\ z[1] \notin Blank /\ z[Len(z)] \notin Blank => Trim(z, Blank) = z
    BY TrimNothing
  <2>2. x[1] \notin Blank /\ x[Len(x)] \notin Blank
    BY <1>6, <1>11, <1>18, <1>19, Zenon DEF Blank
  <2> QED
    BY <2>1, <2>2, <1>11, Zenon
<1>22. PICK m : m = Len(a) + 1
  OBVIOUS
<1>23. IndexByte(t, " ") = m
  <2>1. \A c : c \in Char /\ a \in Seq(Char \ {c}) => IndexByte(a \o <<c>> \o x, c) = Len(a) + 1
    BY <1>11, FirstFound
  <2> QED
    BY <2>1, <1>6, <1>13, <1>17, <1>22, Zenon
<1>24. Upto(t, m) = a /\ After(t, m) = x
  <2>1. /\ Upto(a \o <<" ">> \o x, Len(a) + 1) = a
        /\ After(a \o <<" ">> \o x, Len(a) + 1) = x
    BY <1>6, <1>11, <1>13, JointParts
  <2> QED
    BY <2>1, <1>17, <1>22, Zenon
<1>25. m # 0
  <2>1. Len(a) + 1 # 0
    BY <1>6, SeqFacts, Zenon
  <2> QED
    BY <2>1, <1>22, Zenon
<1>26. /\ Same(ParamsFrom(x, ByEnd(x)), p \o r)
       /\ Same(ByUpto(x, ByEnd(x)), by)
       /\ Same(ParamUpto(p \o r, ParamsEnd(p \o r)), q)
       /\ Same(LeftFrom(p \o r, ParamsEnd(p \o r)), LeftOfVia(r))
  <2>1. x = by \o (p \o r)
    BY <1>8, <1>9, Zenon
  <2> QED
    BY <2>1, <1>5, RestOfVia, Zenon
<1>27. /\ ParamsFrom(x, ByEnd(x)) = y /\ ByUpto(x, ByEnd(x)) = by
       /\ ParamUpto(y, ParamsEnd(y)) = q /\ LeftFrom(y, ParamsEnd(y)) = LeftOfVia(r)
  BY <1>8, <1>26, Zenon DEF Same
<1>28. ViaAt(t, t, m, x, y)
  BY <1>20, <1>21, <1>23, <1>24, <1>27, Zenon DEF ViaAt
<1>29. FirstVia(t) =
         [via  |-> ViaRecord(Upto(t, m), ByUpto(x, ByEnd(x)), ParamUpto(y, ParamsEnd(y))),
          left |-> LeftFrom(y, ParamsEnd(y))]
  BY <1>25, <1>28, FirstViaAt, Zenon
<1>30. FirstVia(t) = [via |-> ViaRecord(a, by, q), left |-> LeftOfVia(r)]
  BY <1>24, <1>27, <1>29, Zenon
<1>31. ViaRecord(a, by, q) = via
  BY <1>1, <1>2, <1>3, Zenon DEF Sendable
<1>32. \A v, l : [via |-> v, left |-> l].via = v /\ [via |-> v, left |-> l].left = l
  OBVIOUS
<1> QED
  BY <1>30, <1>31, <1>32, Zenon DEF Same

\* A Via is a text that the separators do not cut.
LEMMA ViaWhole ==
  ASSUME NEW via, Sendable(via)
  PROVE  ViaString(via) \in Seq(Char) /\ Whole(ViaString(via), BetweenVias)
<1>1. PICK a : a = via.SentProtocol
  OBVIOUS
<1>2. PICK by : by = via.SentBy
  OBVIOUS
<1>3. PICK p : p = ParamText(";", via.RawParameter)
  OBVIOUS
<1>4. ViaPieces(a, by, via.RawParameter, p) /\ Same(ViaString(via), (a \o <<" ">> \o by) \o p)
  BY <1>1, <1>2, <1>3, ViaPiecesOf, Zenon
<1>5. /\ a \in Seq(Char) /\ a # <<>> /\ a[1] \notin BetweenVias
      /\ by \in Seq(Char) /\ by # <<>> /\ by[Len(by)] \notin BetweenVias
      /\ p \in Seq(Char) /\ (p # <<>> => p[Len(p)] \notin BetweenVias)
  BY <1>4, Zenon DEF ViaPieces
<1>6. <<" ">> \in Seq(Char)
  <2>1. " " \in Char
    BY DEF Char, Plain, Other
  <2> QED
    BY <2>1, Single, Zenon
<1>7. PICK x : x = a \o <<" ">>
  OBVIOUS
<1>8. x \in Seq(Char) /\ x # <<>> /\ x[1] = a[1]
  <2>1. a \o <<" ">> \in Seq(Char) /\ a \o <<" ">> # <<>> /\ Same((a \o <<" ">>)[1], a[1])
    BY <1>5, <1>6, FrontOf, Zenon
  <2> QED
    BY <2>1, <1>7, Zenon DEF Same
<1>9. PICK y : y = x \o by
  OBVIOUS
<1>10. y \in Seq(Char) /\ y # <<>> /\ y[1] = a[1] /\ y[Len(y)] = by[Len(by)]
  <2>1. x \o by \in Seq(Char) /\ x \o by # <<>> /\ Same((x \o by)[1], x[1])
    BY <1>5, <1>8, FrontOf, Zenon
  <2>2. Same((x \o by)[Len(x \o by)], by[Len(by)])
    BY <1>5, <1>8, BackOf, Zenon
  <2> QED
    BY <2>1, <2>2, <1>8, <1>9, Zenon DEF Same
<1>11. PICK z : z = y \o p
  OBVIOUS
<1>12. ViaString(via) = z
  BY <1>4, <1>7, <1>9, <1>11, Zenon DEF Same
<1>13. z \in Seq(Char) /\ z # <<>> /\ z[1] = a[1]
  <2>1. y \o p \in Seq(Char) /\ y \o p # <<>> /\ Same((y \o p)[1], y[1])
    BY <1>5, <1>10, FrontOf, Zenon
  <2> QED
    BY <2>1, <1>10, <1>11, Zenon DEF Same
<1>14. z[Len(z)] \notin BetweenVias
  <2>1. CASE p = <<>>
    <3>1. Same(y \o <<>>, y)
      BY <1>10, SeqFacts, Zenon
    <3>2. z = y
      BY <3>1, <2>1, <1>11, Zenon DEF Same
    <3> QED
      BY <3>2, <1>5, <1>10, Zenon
  <2>2. CASE p # <<>>
    <3>1. Same((y \o p)[Len(y \o p)], p[Len(p)])
      BY <2>2, <1>5, <1>10, BackOf, Zenon
    <3> QED
      BY <2>2, <3>1, <1>5, <1>11, Zenon DEF Same
  <2> QED
    BY <2>1, <2>2
<1> QED
  BY <1>5, <1>12, <1>13, <1>14, Zenon DEF Whole

\* The last Via of a field leaves nothing.
LEMMA LastViaRead ==
  ASSUME NEW via, Sendable(via)
  PROVE  /\ Same(FirstVia(ViaString(via)).via, via)
         /\ Same(FirstVia(ViaString(via)).left, <<>>)
<1>1. PICK r : r = <<>>
  OBVIOUS
<1>2. Follows(r)
  <2>1. r \in Seq(Char)
    BY <1>1
  <2> QED
    BY <2>1, <1>1, Zenon DEF Follows
<1>3. ViaString(via) \in Seq(Char) /\ Whole(ViaString(via), BetweenVias)
  BY ViaWhole, Zenon
<1>4. PICK t : t = ViaString(via) \o r
  OBVIOUS
<1>5. t = ViaString(via)
  <2>1. Same(ViaString(via) \o <<>>, ViaString(via))
    BY <1>3, SeqFacts, Zenon
  <2> QED
    BY <2>1, <1>1, <1>4, Zenon DEF Same
<1>6. Same(FirstVia(t).via, via) /\ Same(FirstVia(t).left, LeftOfVia(r))
  BY <1>2, <1>3, <1>4, <1>5, FirstViaRead, Zenon
<1>7. LeftOfVia(r) = <<>>
  BY <1>1, Zenon DEF LeftOfVia
<1> QED
  BY <1>5, <1>6, <1>7, Zenon

\* A Via with others behind it leaves the others.
LEMMA NextViaRead ==
  ASSUME NEW via, Sendable(via), NEW t \in Seq(Char), Whole(t, BetweenVias)
  PROVE  /\ Same(FirstVia(ViaString(via) \o (Sep \o t)).via, via)
         /\ Same(FirstVia(ViaString(via) \o (Sep \o t)).left, t)
<1>1. PICK r : r = Sep \o t
  OBVIOUS
<1>2. PICK s : s = ViaString(via) \o r
  OBVIOUS
<1>3. Sep \in Seq(Char) /\ Sep # <<>> /\ Sep[1] = "," /\ \A i \in 1..Len(Sep) : Sep[i] \in BetweenVias
  BY SepIs, Zenon DEF BetweenVias
<1>4. ViaString(via) \in Seq(Char) /\ Whole(ViaString(via), BetweenVias)
  BY ViaWhole, Zenon
<1>5. t # <<>> /\ t[1] \notin BetweenVias /\ t[Len(t)] \notin BetweenVias
  BY Zenon DEF Whole
<1>6. r \in Seq(Char) /\ r # <<>> /\ r[1] = ","
  <2>1. Sep \o t \in Seq(Char) /\ Sep \o t # <<>> /\ Same((Sep \o t)[1], Sep[1])
    BY <1>3, FrontOf, Zenon
  <2> QED
    BY <2>1, <1>1, <1>3, Zenon DEF Same
<1>7. Follows(r)
  BY <1>6, Zenon DEF Follows
<1>8. Whole(s, BetweenVias)
  <2>1. Whole(ViaString(via) \o (Sep \o t), BetweenVias)
    BY <1>3, <1>4, WholeTogether, Zenon
  <2> QED
    BY <2>1, <1>1, <1>2, Zenon
<1>9. Same(FirstVia(s).via, via) /\ Same(FirstVia(s).left, LeftOfVia(r))
  BY <1>2, <1>7, <1>8, FirstViaRead, Zenon
<1>10. Same(Trim(Sep \o t, BetweenVias), t)
  BY <1>3, <1>5, TrimFront, Zenon
<1>11. LeftOfVia(r) = t
  BY <1>1, <1>6, <1>10, Zenon DEF LeftOfVia, Same
<1> QED
  BY <1>1, <1>2, <1>9, <1>11, Zenon

\* The function that ParseVias defines.
ViaItems(f) ==
    f = [t \in Text |-> IF t = <<>> THEN <<>> ELSE <<FirstVia(t).via>> \o f[FirstVia(t).left]]

\* ParseVias reads Via after Via.
LEMMA ViasRead ==
  \E f : Items(f, FirstVias, ViasLeft) /\ \A s, v : ParseVias(s, v) = Reverse(f[s]) \o v
<1>1. PICK f : f = CHOOSE g : ViaItems(g)
  OBVIOUS
<1>2. ASSUME NEW g PROVE ViaItems(g) <=> Items(g, FirstVias, ViasLeft)
  <2>1. \A t \in Text : FirstVias[t] = FirstVia(t).via /\ ViasLeft[t] = FirstVia(t).left
    BY DEF FirstVias, ViasLeft
  <2>2. [t \in Text |-> IF t = <<>> THEN <<>> ELSE <<FirstVia(t).via>> \o g[FirstVia(t).left]]
         = [t \in Text |-> IF t = <<>> THEN <<>> ELSE <<FirstVias[t]>> \o g[ViasLeft[t]]]
    BY <2>1, Zenon
  <2> QED
    BY <2>2, Zenon DEF ViaItems, Items
<1>3. \E g : Items(g, FirstVias, ViasLeft)
  BY ViasShorten, ItemsExists
<1>4. ViaItems(f)
  BY <1>1, <1>2, <1>3, Zenon
<1>5. ASSUME NEW s, NEW v PROVE ParseVias(s, v) = Reverse(f[s]) \o v
  BY <1>1, Zenon DEF ParseVias, ViaItems
<1> QED
  BY <1>2, <1>4, <1>5, Zenon

\* The text of a field.
FieldText(items) == Joined([k \in DOMAIN items |-> ViaString(items[k])])

\* A field that a peer sends.
SendableField(items) ==
    /\ Len(items) \in Nat /\ DOMAIN items = 1..Len(items) /\ items = [i \in 1..Len(items) |-> items[i]]
    /\ \A i \in 1..Len(items) : Sendable(items[i])

\* The Vias of a field are put on top of those above it.
LEMMA FieldRead ==
  ASSUME NEW items, SendableField(items), NEW v
  PROVE  Same(ParseVias(FieldText(items), v), Reverse(items) \o v)
<1>1. PICK N : N = Len(items)
  OBVIOUS
<1>2. PICK X : X = [k \in DOMAIN items |-> ViaString(items[k])]
  OBVIOUS
<1>3. /\ N \in Nat /\ X = [i \in 1..N |-> ViaString(items[i])]
      /\ items = [i \in 1..N |-> items[i]]
      /\ \A i \in 1..N : Sendable(items[i])
  BY <1>1, <1>2, Zenon DEF SendableField
<1>4. ASSUME NEW i \in 1..N PROVE X[i] = ViaString(items[i]) /\ X[i] \in Seq(Char) /\ Whole(X[i], BetweenVias)
  <2>1. X[i] = ViaString(items[i]) /\ Sendable(items[i])
    BY <1>3, Zenon
  <2>2. ViaString(items[i]) \in Seq(Char) /\ Whole(ViaString(items[i]), BetweenVias)
    BY <2>1, ViaWhole, Zenon
  <2> QED
    BY <2>1, <2>2, Zenon
<1>5. TextList(Char, X) /\ Len(X) = N
  <2>1. PICK Q : Q = Seq(Char)
    OBVIOUS
  <2>2. \A i \in 1..N : ViaString(items[i]) \in Q
    BY <2>1, <1>4, Zenon
  <2>3. X \in Seq(Q) /\ Len(X) = N
    <3>1. N \in Nat /\ X = [i \in 1..N |-> ViaString(items[i])]
      BY <1>3, Zenon
    <3> QED
      BY <3>1, <2>2
  <2>4. Len(X) \in Nat /\ Sep \in Seq(Char)
    BY <2>3, <1>3, SepIs, Zenon
  <2> QED
    BY <2>1, <2>3, <2>4, Zenon DEF TextList
<1>6. PICK T : T = [k \in 1..(N + 1) |-> RestText(X, k)]
  OBVIOUS
<1>7. /\ T[N + 1] = <<>> /\ T[1] = Joined(X)
      /\ \A k \in 1..N : T[k] = RestText(X, k) /\ T[k + 1] = RestText(X, k + 1)
  <2>1. RestText(X, N + 1) = <<>> /\ RestText(X, 1) = Joined(X)
    BY <1>5, RestTexts, Zenon
  <2>2. N \in Nat
    BY <1>3
  <2>3. N + 1 \in 1..(N + 1) /\ 1 \in 1..(N + 1) /\ \A k \in 1..N : k \in 1..(N + 1) /\ k + 1 \in 1..(N + 1)
    BY <2>2
  <2> QED
    BY <2>1, <2>3, <1>6, Zenon
<1>8. ASSUME NEW k \in 1..N
      PROVE  /\ T[k] \in Seq(Char) /\ T[k] # <<>>
             /\ FirstVia(T[k]).via = items[k]
             /\ FirstVia(T[k]).left = T[k + 1]
  <2>1. T[k] = RestText(X, k) /\ T[k + 1] = RestText(X, k + 1)
    BY <1>7
  <2>2. \A j \in 1..N :
        /\ RestText(X, j) \in Seq(Char)
        /\ j = N => RestText(X, j) = X[j]
        /\ j # N => RestText(X, j) = X[j] \o (Sep \o RestText(X, j + 1))
    BY <1>5, RestTexts, Zenon
  <2>3. \A j \in 1..N : Whole(RestText(X, j), BetweenVias)
    BY <1>4, <1>5, RestWhole, Zenon
  <2>4. T[k] \in Seq(Char) /\ T[k] # <<>>
    BY <2>1, <2>2, <2>3, Zenon DEF Whole
  <2>5. CASE k = N
    <3>1. T[k] = ViaString(items[k]) /\ T[k + 1] = <<>>
      BY <2>1, <2>2, <2>5, <1>4, <1>7, Zenon
    <3>2. /\ Same(FirstVia(ViaString(items[k])).via, items[k])
          /\ Same(FirstVia(ViaString(items[k])).left, <<>>)
      BY <1>3, LastViaRead, Zenon
    <3> QED
      BY <2>4, <3>1, <3>2, Zenon DEF Same
  <2>6. CASE k # N
    <3>1. PICK t : t = RestText(X, k + 1)
      OBVIOUS
    <3>2. k + 1 \in 1..N
      <4>1. N \in Nat
        BY <1>3
      <4> QED
        BY <4>1, <2>6
    <3>3. t \in Seq(Char) /\ Whole(t, BetweenVias)
      BY <3>1, <3>2, <2>2, <2>3, Zenon
    <3>4. /\ Same(FirstVia(ViaString(items[k]) \o (Sep \o t)).via, items[k])
          /\ Same(FirstVia(ViaString(items[k]) \o (Sep \o t)).left, t)
      BY <3>3, <1>3, NextViaRead, Zenon
    <3>5. T[k] = ViaString(items[k]) \o (Sep \o t) /\ T[k + 1] = t
      BY <2>1, <2>2, <2>6, <3>1, <1>4, Zenon
    <3> QED
      BY <2>4, <3>4, <3>5, Zenon DEF Same
  <2> QED
    BY <2>5, <2>6
<1>9. \A k \in 1..N : FirstVias[T[k]] = items[k] /\ ViasLeft[T[k]] = T[k + 1]
  BY <1>8, Zenon DEF FirstVias, ViasLeft, Text
<1>10. Lists(T, N, ViasLeft)
  BY <1>7, <1>8, <1>9, Zenon DEF Lists, Text
<1>11. PICK f : Items(f, FirstVias, ViasLeft) /\ \A s, w : ParseVias(s, w) = Reverse(f[s]) \o w
  BY ViasRead, Zenon
<1>12. f[T[1]] = [i \in 1..N |-> FirstVias[T[i]]]
  <2>1. N \in Nat
    BY <1>3
  <2> QED
    BY <2>1, <1>10, <1>11, ItemsRead
<1>13. [i \in 1..N |-> FirstVias[T[i]]] = items
  BY <1>3, <1>9, Zenon
<1>14. FieldText(items) = T[1]
  BY <1>2, <1>7, Zenon DEF FieldText
<1>15. ParseVias(FieldText(items), v) = Reverse(f[FieldText(items)]) \o v
  BY <1>11, Zenon
<1> QED
  BY <1>12, <1>13, <1>14, <1>15, Zenon DEF Same

\* The elements of a sequence in reverse.
LEMMA ReverseParts ==
  ASSUME NEW S, NEW s \in Seq(S), NEW r, r = Reverse(s)
  PROVE  /\ r \in Seq(S) /\ Len(r) = Len(s)
         /\ \A i \in 1..Len(s) : r[i] = s[(Len(s) - i) + 1]
<1>1. Len(s) \in Nat /\ \A i \in 1..Len(s) : (Len(s) - i) + 1 \in 1..Len(s) /\ s[(Len(s) - i) + 1] \in S
  OBVIOUS
<1>2. r = [i \in 1..Len(s) |-> s[(Len(s) - i) + 1]]
  BY Zenon DEF Reverse
<1>3. PICK n : n = Len(s)
  OBVIOUS
<1>4. n \in Nat /\ r = [i \in 1..n |-> s[(n - i) + 1]] /\ \A i \in 1..n : s[(n - i) + 1] \in S
  BY <1>1, <1>2, <1>3, Zenon
<1>5. r \in Seq(S) /\ Len(r) = n /\ \A i \in 1..n : r[i] = s[(n - i) + 1]
  BY <1>4
<1> QED
  BY <1>3, <1>5, Zenon

\* Two sequences put together, in reverse.
LEMMA ReverseTogether ==
  ASSUME NEW S, NEW a \in Seq(S), NEW b \in Seq(S)
  PROVE  Same(Reverse(a \o b), Reverse(b) \o Reverse(a))
<1>1. PICK m : m = Len(a)
  OBVIOUS
<1>2. PICK n : n = Len(b)
  OBVIOUS
<1>3. PICK s : s = a \o b
  OBVIOUS
<1>4. Over(S, a, m) /\ Over(S, b, n)
  BY <1>1, <1>2 DEF Over
<1>5. PutTogether(S, s, a, m, b, n)
  BY <1>3, <1>4, Together, Zenon
<1>6. /\ s \in Seq(S) /\ Len(s) = m + n /\ m \in Nat /\ n \in Nat
      /\ \A j \in 1..m : s[j] = a[j]
      /\ \A j \in 1..n : s[m + j] = b[j]
  BY <1>4, <1>5, Zenon DEF PutTogether, Over
<1>7. PICK ra : ra = Reverse(a)
  OBVIOUS
<1>8. PICK rb : rb = Reverse(b)
  OBVIOUS
<1>9. PICK rs : rs = Reverse(s)
  OBVIOUS
<1>10. ra \in Seq(S) /\ Len(ra) = m /\ \A i \in 1..m : ra[i] = a[(m - i) + 1]
  BY <1>1, <1>7, ReverseParts
<1>11. rb \in Seq(S) /\ Len(rb) = n /\ \A i \in 1..n : rb[i] = b[(n - i) + 1]
  BY <1>2, <1>8, ReverseParts
<1>12. rs \in Seq(S) /\ Len(rs) = m + n /\ \A i \in 1..(m + n) : rs[i] = s[((m + n) - i) + 1]
  <2>1. PICK k : k = Len(s)
    OBVIOUS
  <2>2. s \in Seq(S) /\ k = m + n
    BY <2>1, <1>6, Zenon
  <2>3. rs \in Seq(S) /\ Len(rs) = k /\ \A i \in 1..k : rs[i] = s[(k - i) + 1]
    BY <2>1, <2>2, <1>9, ReverseParts
  <2> QED
    BY <2>2, <2>3, Zenon
<1>13. PICK x : x = rb \o ra
  OBVIOUS
<1>14. Over(S, ra, m) /\ Over(S, rb, n)
  BY <1>6, <1>10, <1>11, Zenon DEF Over
<1>15. PutTogether(S, x, rb, n, ra, m)
  BY <1>13, <1>14, Together, Zenon
<1>16. /\ x \in Seq(S) /\ Len(x) = n + m
       /\ \A j \in 1..n : x[j] = rb[j]
       /\ \A j \in 1..m : x[n + j] = ra[j]
  BY <1>15, Zenon DEF PutTogether
<1>17. ASSUME NEW i \in 1..(m + n) PROVE x[i] = rs[i]
  <2>1. CASE i <= n
    <3>1. PICK k : k = (n - i) + 1
      OBVIOUS
    <3>2. i \in 1..n /\ k \in 1..n /\ ((m + n) - i) + 1 = m + k
      BY <2>1, <3>1, <1>6
    <3>3. x[i] = b[k]
      BY <3>1, <3>2, <1>11, <1>16
    <3>4. rs[i] = b[k]
      BY <3>2, <1>6, <1>12
    <3> QED
      BY <3>3, <3>4
  <2>2. CASE i > n
    <3>1. PICK j : j = i - n
      OBVIOUS
    <3>2. PICK k : k = (m - j) + 1
      OBVIOUS
    <3>3. j \in 1..m /\ k \in 1..m /\ i = n + j /\ ((m + n) - i) + 1 = k
      BY <2>2, <3>1, <3>2, <1>6
    <3>4. x[i] = a[k]
      BY <3>2, <3>3, <1>10, <1>16
    <3>5. rs[i] = a[k]
      BY <3>3, <1>6, <1>12
    <3> QED
      BY <3>4, <3>5
  <2> QED
    BY <2>1, <2>2, <1>6
<1>18. x = rs
  <2>1. Len(x) = m + n /\ Len(rs) = m + n
    BY <1>6, <1>12, <1>16
  <2> QED
    BY <2>1, <1>12, <1>16, <1>17, SeqEqual
<1> QED
  BY <1>3, <1>7, <1>8, <1>9, <1>13, <1>18, Zenon DEF Same

\* In reverse twice, a sequence is what it was; in reverse, the first is the last.
LEMMA ReverseTwice ==
  ASSUME NEW S, NEW s \in Seq(S)
  PROVE  /\ Reverse(s) \in Seq(S) /\ Len(Reverse(s)) = Len(s)
         /\ Same(Reverse(Reverse(s)), s)
         /\ s # <<>> => Same(Last(Reverse(s)), s[1])
<1>1. PICK n : n = Len(s)
  OBVIOUS
<1>2. PICK r : r = Reverse(s)
  OBVIOUS
<1>3. PICK q : q = Reverse(r)
  OBVIOUS
<1>4. r \in Seq(S) /\ Len(r) = n /\ n \in Nat /\ \A i \in 1..n : r[i] = s[(n - i) + 1]
  BY <1>1, <1>2, ReverseParts
<1>5. q \in Seq(S) /\ Len(q) = n /\ \A i \in 1..n : q[i] = r[(n - i) + 1]
  BY <1>3, <1>4, ReverseParts
<1>6. ASSUME NEW i \in 1..n PROVE q[i] = s[i]
  <2>1. PICK j : j = (n - i) + 1
    OBVIOUS
  <2>2. j \in 1..n /\ (n - j) + 1 = i
    BY <2>1, <1>4
  <2> QED
    BY <2>1, <2>2, <1>4, <1>5
<1>7. q = s
  BY <1>1, <1>5, <1>6, SeqEqual
<1>8. ASSUME s # <<>> PROVE r[Len(r)] = s[1]
  <2>1. n # 0
    BY <1>1, <1>8, EmptySeq
  <2>2. n \in 1..n /\ (n - n) + 1 = 1
    BY <2>1, <1>4
  <2> QED
    BY <2>2, <1>4
<1> QED
  BY <1>1, <1>2, <1>3, <1>4, <1>7, <1>8, Zenon DEF Same, Last

\* What has been read after the first n fields.
NoVias == <<>>
Stacks(values, n, f) ==
    f = [i \in 0..n |-> IF i = 0 THEN NoVias ELSE ParseVias(values[i], f[i - 1])]

\* There is such a function.
LEMMA StacksExists ==
  ASSUME NEW values
  PROVE  \A n \in Nat : \E f : Stacks(values, n, f)
<1> DEFINE T == {n \in Nat : ~\E f : Stacks(values, n, f)}
<1> SUFFICES ASSUME T # {} PROVE FALSE
  OBVIOUS
<1>1. PICK n \in T : \A k \in T : n <= k
  BY Least
<1>2. n # 0
  <2>1. Stacks(values, 0, [i \in 0..0 |-> NoVias])
    BY DEF Stacks
  <2> QED
    BY <2>1
<1>3. PICK f : Stacks(values, n - 1, f)
  <2>1. n - 1 \in Nat /\ n - 1 \notin T
    BY <1>1, <1>2
  <2> QED
    BY <2>1
<1> DEFINE g == [i \in 0..n |-> IF i = n THEN ParseVias(values[n], f[n - 1]) ELSE f[i]]
<1>4. Stacks(values, n, g)
  BY <1>2, <1>3 DEF Stacks
<1> QED
  BY <1>4

\* f has what AllVias has read after each of the n fields.
StackSteps(values, n, f) ==
    /\ AllVias(values) = f[n]
    /\ f[0] = NoVias
    /\ \A i \in 1..n : f[i] = ParseVias(values[i], f[i - 1])

\* AllVias, field by field.
LEMMA AllViasSteps ==
  ASSUME NEW values, NEW N \in Nat, Len(values) = N
  PROVE  \E f : StackSteps(values, N, f)
<1>1. PICK f : f = CHOOSE g : Stacks(values, N, g)
  OBVIOUS
<1>2. Stacks(values, N, f)
  BY <1>1, StacksExists
<1>3. AllVias(values) = f[N]
  BY <1>1, Zenon DEF AllVias, Stacks, NoVias
<1>4. \A i \in 0..N : f[i] = IF i = 0 THEN NoVias ELSE ParseVias(values[i], f[i - 1])
  BY <1>2 DEF Stacks
<1>5. f[0] = NoVias
  BY <1>4
<1>6. ASSUME NEW i \in 1..N PROVE f[i] = ParseVias(values[i], f[i - 1])
  <2>1. i \in 0..N /\ i # 0
    OBVIOUS
  <2> QED
    BY <1>4, <2>1, Zenon
<1> QED
  BY <1>3, <1>5, <1>6, Zenon DEF StackSteps

\* Every Via is one that a field can hold.
AllSyntax(s) == \A i \in 1..Len(s) : ViaSyntax(s[i])

\* ... in both parts if it is so in the whole.
LEMMA SyntaxOfBoth ==
  ASSUME NEW S, NEW a \in Seq(S), NEW b \in Seq(S), AllSyntax(a \o b)
  PROVE  AllSyntax(a) /\ AllSyntax(b)
<1>1. PICK m : m = Len(a)
  OBVIOUS
<1>2. PICK n : n = Len(b)
  OBVIOUS
<1>3. PICK s : s = a \o b
  OBVIOUS
<1>4. Over(S, a, m) /\ Over(S, b, n)
  BY <1>1, <1>2 DEF Over
<1>5. PutTogether(S, s, a, m, b, n)
  BY <1>3, <1>4, Together, Zenon
<1>6. /\ Len(s) = m + n /\ m \in Nat /\ n \in Nat
      /\ \A j \in 1..m : s[j] = a[j]
      /\ \A j \in 1..n : s[m + j] = b[j]
  BY <1>4, <1>5, Zenon DEF PutTogether, Over
<1>7. \A i \in 1..Len(s) : ViaSyntax(s[i])
  BY <1>3, Zenon DEF AllSyntax
<1>8. ASSUME NEW j \in 1..m PROVE ViaSyntax(a[j])
  <2>1. j \in 1..Len(s)
    BY <1>6
  <2>2. s[j] = a[j]
    BY <1>6
  <2> QED
    BY <2>1, <2>2, <1>7, Zenon
<1>9. ASSUME NEW j \in 1..n PROVE ViaSyntax(b[j])
  <2>1. m + j \in 1..Len(s)
    BY <1>6
  <2>2. s[m + j] = b[j]
    BY <1>6
  <2> QED
    BY <2>1, <2>2, <1>7, Zenon
<1> QED
  BY <1>1, <1>2, <1>8, <1>9, Zenon DEF AllSyntax

\* A Via by its parts.
ViaParts == [SentProtocol : Text, SentBy : Text, RawParameter : Text]

\* A field whose Vias can be held is one that a peer sends.
LEMMA SendableFields ==
  ASSUME NEW s \in Seq(ViaParts), AllSyntax(s)
  PROVE  SendableField(s)
<1>1. Len(s) \in Nat /\ DOMAIN s = 1..Len(s) /\ s = [i \in 1..Len(s) |-> s[i]]
  OBVIOUS
<1>2. ASSUME NEW i \in 1..Len(s) PROVE Sendable(s[i])
  <2>1. PICK v : v = s[i]
    OBVIOUS
  <2>2. v \in ViaParts
    BY <2>1
  <2>3. /\ v.SentProtocol \in Text /\ v.SentBy \in Text /\ v.RawParameter \in Text
        /\ v = ViaRecord(v.SentProtocol, v.SentBy, v.RawParameter)
    BY <2>2 DEF ViaParts, ViaRecord
  <2>4. ViaSyntax(v)
    BY <2>1, Zenon DEF AllSyntax
  <2> QED
    BY <2>1, <2>3, <2>4, Zenon DEF Sendable, Text
<1> QED
  BY <1>1, <1>2, Zenon DEF SendableField

\* The Vias of all fields are read in the order they were sent.
LEMMA FieldsRead ==
  ASSUME NEW fields \in Seq(Seq(ViaParts)), AllSyntax(FlattenSeq(fields))
  PROVE  /\ FlattenSeq(fields) \in Seq(ViaParts)
         /\ Same(AllVias(ViaFields(fields)), Reverse(FlattenSeq(fields)))
<1>1. PICK N : N = Len(fields)
  OBVIOUS
<1>2. PICK R : R = Seq(ViaParts)
  OBVIOUS
<1>3. fields \in Seq(R) /\ N \in Nat /\ DOMAIN fields = 1..N /\ \A i \in 1..N : fields[i] \in R
  BY <1>1, <1>2
<1>4. PICK values : values = ViaFields(fields)
  OBVIOUS
<1>5. values = [i \in 1..N |-> FieldText(fields[i])]
  BY <1>3, <1>4, Zenon DEF ViaFields, FieldText
<1>6. Len(values) = N /\ \A i \in 1..N : values[i] = FieldText(fields[i])
  BY <1>3, <1>5
<1>6a. PICK g : StackSteps(values, N, g)
  BY <1>3, <1>6, AllViasSteps, Zenon
<1>7. /\ AllVias(values) = g[N]
      /\ g[0] = NoVias
      /\ \A i \in 1..N : g[i] = ParseVias(values[i], g[i - 1])
  BY <1>6a, Zenon DEF StackSteps
<1>8. CASE N = 0
  <2>1. fields = <<>>
    BY <1>1, <1>3, <1>8, EmptySeq
  <2>2. FlattenSeq(fields) = fields
    BY <1>1, <1>8, Zenon DEF FlattenSeq
  <2>3. <<>> \in Seq(ViaParts) /\ Reverse(<<>>) = <<>>
    BY DEF Reverse
  <2> QED
    BY <2>1, <2>2, <2>3, <1>4, <1>7, <1>8, Zenon DEF NoVias, Same
<1>9. CASE N # 0
  <2>0. N \in Nat \ {0}
    BY <1>3, <1>9
  <2>1. PICK f : /\ FlattenSeq(fields) = f[N]
                 /\ f[1] = fields[1]
                 /\ \A i \in 2..N : f[i] = f[i - 1] \o fields[i]
    BY <2>0, <1>1, FlattenSteps, Zenon
  <2> DEFINE G == {i \in 0..N : i = 0 \/ f[i] \in R}
  <2>2. \A i \in 0..N : i \in G
    <3>1. 0 \in G
      BY <1>3
    <3>2. ASSUME NEW i \in 1..N, i - 1 \in G PROVE i \in G
      <4>1. CASE i = 1
        BY <4>1, <1>3, <2>1
      <4>2. CASE i # 1
        <5>1. i \in 2..N /\ i \in 0..N
          BY <4>2, <1>3
        <5>2. f[i - 1] \in R /\ fields[i] \in R
          BY <3>2, <4>2, <1>3
        <5>3. f[i - 1] \o fields[i] \in R
          BY <5>2, <1>2, TogetherOver, Zenon
        <5>4. f[i] \in R
          BY <5>1, <5>3, <2>1, Zenon
        <5> QED
          BY <5>1, <5>4
      <4> QED
        BY <4>1, <4>2
    <3>3. \A i \in 1..N : i - 1 \in G => i \in G
      BY <3>2
    <3> HIDE DEF G
    <3> QED
      BY <1>3, <3>1, <3>3, StepByStep
  <2>3. ASSUME NEW i \in 1..N PROVE f[i] \in R
    <3>1. i \in 0..N /\ i # 0
      OBVIOUS
    <3> QED
      BY <3>1, <2>2
  <2> HIDE DEF G
  <2> DEFINE H == {i \in 0..N : i = 0 \/ AllSyntax(f[i])}
  <2>4. \A i \in 0..N : i \in H
    <3>1. N \in H
      BY <1>3, <2>1
    <3>2. ASSUME NEW i \in 1..N, i \in H PROVE i - 1 \in H
      <4>1. CASE i = 1
        BY <4>1, <1>3
      <4>2. CASE i # 1
        <5>1. i \in 2..N /\ i - 1 \in 0..N /\ i - 1 \in 1..N
          BY <4>2, <1>3
        <5>2. f[i - 1] \in Seq(ViaParts) /\ fields[i] \in Seq(ViaParts)
          BY <5>1, <2>3, <1>2, <1>3, Zenon
        <5>3. AllSyntax(f[i])
          BY <3>2
        <5>4. AllSyntax(f[i - 1] \o fields[i])
          BY <5>1, <5>3, <2>1, Zenon
        <5>5. AllSyntax(f[i - 1])
          BY <5>2, <5>4, SyntaxOfBoth, Zenon
        <5> QED
          BY <5>1, <5>5
      <4> QED
        BY <4>1, <4>2
    <3>3. \A i \in 1..N : i \in H => i - 1 \in H
      BY <3>2
    <3> HIDE DEF H
    <3> QED
      BY <1>3, <3>1, <3>3, StepByStepDown
  <2>5. ASSUME NEW i \in 1..N PROVE AllSyntax(f[i])
    <3>1. i \in 0..N /\ i # 0
      OBVIOUS
    <3> QED
      BY <3>1, <2>4
  <2> HIDE DEF H
  <2>6. ASSUME NEW i \in 1..N, NEW v PROVE ParseVias(values[i], v) = Reverse(fields[i]) \o v
    <3>1. AllSyntax(fields[i])
      <4>1. CASE i = 1
        <5>1. AllSyntax(f[1])
          BY <4>1, <2>5
        <5> QED
          BY <4>1, <5>1, <2>1, Zenon
      <4>2. CASE i # 1
        <5>1. i \in 2..N /\ i - 1 \in 1..N
          BY <4>2, <1>3
        <5>2. f[i - 1] \in Seq(ViaParts) /\ fields[i] \in Seq(ViaParts)
          BY <5>1, <2>3, <1>2, <1>3, Zenon
        <5>3. AllSyntax(f[i - 1] \o fields[i])
          BY <5>1, <2>1, <2>5, Zenon
        <5> QED
          BY <5>2, <5>3, SyntaxOfBoth, Zenon
      <4> QED
        BY <4>1, <4>2
    <3>2. fields[i] \in Seq(ViaParts)
      BY <1>2, <1>3
    <3>3. SendableField(fields[i])
      BY <3>1, <3>2, SendableFields, Zenon
    <3>4. Same(ParseVias(FieldText(fields[i]), v), Reverse(fields[i]) \o v)
      BY <3>3, FieldRead, Zenon
    <3> QED
      BY <3>4, <1>6, Zenon DEF Same
  <2> DEFINE K == {i \in 0..N : i = 0 \/ g[i] = Reverse(f[i])}
  <2>7. \A i \in 0..N : i \in K
    <3>1. 0 \in K
      BY <1>3
    <3>2. ASSUME NEW i \in 1..N, i - 1 \in K PROVE i \in K
      <4>0. g[i] = Reverse(fields[i]) \o g[i - 1]
        BY <1>7, <2>6, Zenon
      <4>1. CASE i = 1
        <5>1. i - 1 = 0 /\ i \in 0..N
          BY <4>1, <1>3
        <5>2. g[i] = Reverse(f[1]) \o <<>>
          BY <4>0, <4>1, <5>1, <1>7, <2>1, Zenon DEF NoVias
        <5>3. f[1] \in Seq(ViaParts)
          BY <4>1, <2>3, <1>2
        <5>4. Reverse(f[1]) \in Seq(ViaParts)
          BY <5>3, ReverseTwice, Zenon
        <5>5. Same(Reverse(f[1]) \o <<>>, Reverse(f[1]))
          BY <5>4, SeqFacts, Zenon
        <5>6. g[i] = Reverse(f[i])
          BY <4>1, <5>2, <5>5, Zenon DEF Same
        <5> QED
          BY <5>1, <5>6
      <4>2. CASE i # 1
        <5>1. i \in 2..N /\ i - 1 \in 1..N /\ i - 1 # 0 /\ i \in 0..N
          BY <4>2, <1>3
        <5>2. f[i - 1] \in Seq(ViaParts) /\ fields[i] \in Seq(ViaParts)
          BY <5>1, <2>3, <1>2, <1>3, Zenon
        <5>3. Same(Reverse(f[i - 1] \o fields[i]), Reverse(fields[i]) \o Reverse(f[i - 1]))
          BY <5>2, ReverseTogether, Zenon
        <5>4. g[i - 1] = Reverse(f[i - 1])
          BY <3>2, <5>1
        <5>5. g[i] = Reverse(f[i])
          BY <4>0, <5>1, <5>3, <5>4, <2>1, Zenon DEF Same
        <5> QED
          BY <5>1, <5>5
      <4> QED
        BY <4>1, <4>2
    <3>3. \A i \in 1..N : i - 1 \in K => i \in K
      BY <3>2
    <3> HIDE DEF K
    <3> QED
      BY <1>3, <3>1, <3>3, StepByStep
  <2>8. g[N] = Reverse(f[N]) /\ f[N] \in R
    <3>1. N \in 1..N /\ N \in 0..N /\ N # 0
      BY <2>0
    <3> QED
      BY <3>1, <2>3, <2>7
  <2> QED
    BY <2>1, <2>8, <1>2, <1>4, <1>7, Zenon DEF Same
<1> QED
  BY <1>8, <1>9

--------------------------------------------------------------------------------
\* The names, the URIs and the parameters of a list of addresses, and all Vias
\* of a message, are read as they were put together: for every list of every
\* length, over any number of fields (MessageSyntax.ListsKeepItems; header.go
\* 112-160, 290-408, 668-690).
THEOREM ListsAreKept == Spec => []ListsKeepItems
<1>1. TypeOK => AddressesKeepItems
  <2> SUFFICES ASSUME TypeOK, Sent("contacts"), \A i \in DOMAIN input : ItemSyntax(input[i])
               PROVE  ParseContacts(Joined([i \in DOMAIN input |-> ItemText(input[i])])) =
                          [i \in DOMAIN input |-> ContactOf(input[i])]
    BY Zenon DEF AddressesKeepItems, ContactOf
  <2>1. input \in Seq([display : Text, uri : Text, param : Text])
    BY DEF TypeOK, Sent, Elements
  <2>2. Len(input) \in Nat /\ DOMAIN input = 1..Len(input)
    BY <2>1
  <2>3. ASSUME NEW i \in 1..Len(input) PROVE Contact(input[i])
    <3>1. PICK it : it = input[i]
      OBVIOUS
    <3>2. it \in [display : Text, uri : Text, param : Text]
      <4>1. PICK R : R = [display : Text, uri : Text, param : Text]
        OBVIOUS
      <4>2. PICK s : s = input
        OBVIOUS
      <4>3. s \in Seq(R) /\ i \in 1..Len(s) /\ it = s[i]
        BY <4>1, <4>2, <2>1, <3>1, Zenon
      <4>4. it \in R
        BY <4>3
      <4> QED
        BY <4>1, <4>4, Zenon
    <3>3. it.display \in Text /\ it.uri \in Text /\ it.param \in Text
      BY <3>2
    <3>4. ItemSyntax(it)
      BY <2>2, <3>1, Zenon
    <3> QED
      BY <3>1, <3>3, <3>4, Zenon DEF Contact, Text
  <2>4. PICK items : items = input
    OBVIOUS
  <2>5. /\ Len(items) \in Nat /\ DOMAIN items = 1..Len(items)
        /\ \A i \in 1..Len(items) : Contact(items[i])
    BY <2>2, <2>3, <2>4, Zenon
  <2>6. Same(ParseContacts(Joined([i \in DOMAIN items |-> ItemText(items[i])])),
             [i \in DOMAIN items |-> ContactOf(items[i])])
    BY <2>5, ContactsKept, Zenon
  <2> QED
    BY <2>4, <2>6, Zenon DEF Same
<1>2. TypeOK => ViasKeepOrder
  <2>1. PICK sent : sent = FlattenSeq(input)
    OBVIOUS
  <2>2. PICK v : v = AllVias(ViaFields(input))
    OBVIOUS
  <2> SUFFICES ASSUME TypeOK, Sent("vias"), \A i \in DOMAIN sent : ViaSyntax(sent[i])
               PROVE  /\ v = Reverse(sent)
                      /\ sent # <<>> => TopMost(v) = sent[1]
                      /\ WriteVias(v) = [i \in DOMAIN sent |-> ViaString(sent[i])]
    BY <2>1, <2>2, Zenon DEF ViasKeepOrder
  <2>3. input \in Seq(Seq(ViaParts))
    BY DEF TypeOK, Sent, Elements, ViaParts
  <2>4. sent \in Seq(ViaParts)
    BY <2>1, <2>3, FlattenType
  <2>5. DOMAIN sent = 1..Len(sent)
    BY <2>4, SeqFacts, Zenon
  <2>6. AllSyntax(FlattenSeq(input))
    BY <2>1, <2>5, Zenon DEF AllSyntax
  <2>7. Same(AllVias(ViaFields(input)), Reverse(FlattenSeq(input)))
    BY <2>3, <2>6, FieldsRead, Zenon
  <2>8. v = Reverse(sent)
    BY <2>1, <2>2, <2>7, Zenon DEF Same
  <2>9. /\ Reverse(sent) \in Seq(ViaParts) /\ Len(Reverse(sent)) = Len(sent)
        /\ Same(Reverse(Reverse(sent)), sent)
        /\ sent # <<>> => Same(Last(Reverse(sent)), sent[1])
    BY <2>4, ReverseTwice, Zenon
  <2>10. sent # <<>> => TopMost(v) = sent[1]
    BY <2>8, <2>9, Zenon DEF TopMost, Same
  <2>11. DOMAIN v = DOMAIN sent
    <3>1. DOMAIN Reverse(sent) = 1..Len(Reverse(sent))
      BY <2>9, SeqFacts, Zenon
    <3> QED
      BY <3>1, <2>5, <2>8, <2>9, Zenon
  <2>12. Reverse(v) = sent
    BY <2>8, <2>9, Zenon DEF Same
  <2>13. WriteVias(v) = [i \in DOMAIN sent |-> ViaString(sent[i])]
    BY <2>11, <2>12, Zenon DEF WriteVias
  <2> QED
    BY <2>8, <2>10, <2>13
<1> QED
  BY <1>1, <1>2, InputTyped, PTL DEF ListsKeepItems

================================================================================

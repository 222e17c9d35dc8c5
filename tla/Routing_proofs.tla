----------------------------- MODULE Routing_proofs ----------------------------
(***************************************************************************)
(* A request goes where the bindings and the file of routes say, for every *)
(* file, every set of bindings and every number.                           *)
(***************************************************************************)
EXTENDS Routing, FiniteSetTheorems, TLAPS

--------------------------------------------------------------------------------
(***************************************************************************)
(* The trie finds the longest prefix for every set of digits, prefixes and *)
(* queries.                                                                *)
(***************************************************************************)
TrieInv == TypeOK /\ Reachable

\* Prefixes of keys and of queries.
LEMMA TakeFacts ==
  ASSUME NEW s \in Seq(Digits), NEW n \in 0..Len(s)
  PROVE  /\ Take(s, n) \in Seq(Digits)
         /\ Len(Take(s, n)) = n
         /\ \A m \in 0..n : Take(Take(s, n), m) = Take(s, m)
         /\ n = Len(s) => Take(s, n) = s
<1>1. Take(s, n) \in Seq(Digits) /\ Len(Take(s, n)) = n
  BY DEF Take
<1>2. ASSUME NEW m \in 0..n PROVE Take(Take(s, n), m) = Take(s, m)
  BY DEF Take
<1>3. n = Len(s) => Take(s, n) = s
  BY DEF Take
<1> QED
  BY <1>1, <1>2, <1>3

\* The empty trie is well formed.
LEMMA TrieInit == Init => TrieInv
<1> SUFFICES ASSUME Init PROVE TrieInv
  OBVIOUS
<1>1. panic \in BOOLEAN
  BY Zenon DEF Init
<1>2. TypeOK
  BY <1>1, KeysAssumption DEF Init, TypeOK
<1>3. ASSUME NEW k \in nodes, NEW n \in 0..Len(k) PROVE Take(k, n) \in nodes
  BY <1>3 DEF Init, Take
<1> QED
  BY <1>2, <1>3, FwdsAssumption DEF Init, TrieInv, Reachable

\* Add creates the whole path.
LEMMA TrieAdd ==
  ASSUME TrieInv, NEW k \in Keys, NEW f \in Fwds, Add(k, f)
  PROVE  TrieInv'
<1> USE KeysAssumption DEF TrieInv, TypeOK, Reachable, Add
<1>1. TypeOK'
  BY Zenon
<1>2. ASSUME NEW x \in nodes', NEW n \in 0..Len(x) PROVE Take(x, n) \in nodes'
  <2>1. CASE x \in nodes
    BY <2>1
  <2>2. CASE x \notin nodes
    <3>1. PICK m \in 0..Len(k) : x = Take(k, m)
      BY <1>2, <2>2
    <3>2. Len(x) = m /\ Take(x, n) = Take(k, n) /\ n \in 0..Len(k)
      BY <3>1, TakeFacts
    <3> QED
      BY <3>2
  <2> QED
    BY <2>1, <2>2
<1>3. k \in nodes'
  <2>1. k = Take(k, Len(k))
    BY TakeFacts
  <2> QED
    BY <2>1
<1>4. \A x \in Keys : fwd'[x] # NoFwd => x \in nodes'
  BY <1>3
<1> QED
  BY <1>1, <1>2, <1>4

\* Remove detaches only a leaf without a destination.
LEMMA TrieRemove ==
  ASSUME TrieInv, NEW k \in Keys, Remove(k)
  PROVE  TrieInv'
<1> USE KeysAssumption DEF TrieInv, TypeOK, Reachable
<1>1. CASE UNCHANGED <<nodes, fwd>>
  <2>1. panic' \in BOOLEAN
    BY Zenon DEF Remove, vars
  <2> QED
    BY <1>1, <2>1
<1>2. CASE ~UNCHANGED <<nodes, fwd>>
  <2>1. fwd' = [fwd EXCEPT ![k] = NoFwd]
    BY <1>2 DEF Remove, vars
  <2>2. nodes' = nodes \/ (k # <<>> /\ nodes' = Detach(k))
    BY <1>2 DEF Remove, vars
  <2>3. panic' \in BOOLEAN
    BY Zenon DEF Remove, vars
  <2>4. nodes' \subseteq nodes /\ <<>> \in nodes'
    BY <2>2 DEF Detach
  <2>5. TypeOK'
    BY <2>1, <2>3, <2>4
  <2>6. \A x \in Keys : fwd'[x] # NoFwd => x \in nodes'
    BY <2>1, <2>2 DEF Detach
  <2>7. ASSUME NEW x \in nodes', NEW n \in 0..Len(x) PROVE Take(x, n) \in nodes'
    <3>1. Take(x, n) \in nodes /\ x \in Seq(Digits)
      BY <2>4
    <3>2. CASE nodes' = nodes
      BY <3>1, <3>2
    <3>3. CASE nodes' # nodes /\ Take(x, n) = k
      <4>1. /\ nodes' = nodes \ {k}
            /\ \A y \in nodes : ~(Len(y) = Len(k) + 1 /\ Take(y, Len(k)) = k)
        BY <2>2, <3>3 DEF Detach
      <4>2. Len(k) = n /\ n # Len(x)
        BY <3>1, <3>3, <4>1, TakeFacts
      <4>3. n + 1 \in 0..Len(x)
        BY <3>1, <4>2
      <4>4. Take(x, n + 1) \in nodes
        BY <2>4, <4>3
      <4>5. Len(Take(x, n + 1)) = n + 1 /\ Take(Take(x, n + 1), n) = k
        BY <3>1, <3>3, <4>3, TakeFacts
      <4> QED
        BY <4>1, <4>2, <4>4, <4>5
    <3>4. CASE nodes' # nodes /\ Take(x, n) # k
      BY <2>2, <3>1, <3>4 DEF Detach
    <3> QED
      BY <3>2, <3>3, <3>4
  <2> QED
    BY <2>4, <2>5, <2>6, <2>7
<1> QED
  BY <1>1, <1>2

\* Every destination stays reachable from the root.
LEMMA TrieInvariance == Spec => []TrieInv
<1>1. TrieInv /\ [Next]_vars => TrieInv'
  <2> SUFFICES ASSUME TrieInv, [Next]_vars PROVE TrieInv'
    OBVIOUS
  <2>1. CASE UNCHANGED vars
    BY <2>1 DEF vars, TrieInv, TypeOK, Reachable
  <2>2. CASE Next
    BY <2>2, TrieAdd, TrieRemove DEF Next
  <2> QED
    BY <2>1, <2>2
<1> QED
  BY TrieInit, <1>1, PTL DEF Spec

\* The nodes with a destination that the walk meets are the registered prefixes.
LEMMA HitsAreMatches ==
  ASSUME TrieInv, NEW s \in Queries
  PROVE  Hits(s) = Matches(s)
<1> USE DEF TrieInv, TypeOK, Reachable
<1>1. s \in Seq(Digits)
  BY QueriesAssumption
<1>2. Hits(s) \subseteq Matches(s)
  BY <1>1 DEF Hits, Walk, Matches
<1>3. ASSUME NEW n \in Matches(s) PROVE n \in Hits(s)
  <2>1. n \in 0..Len(s) /\ Take(s, n) \in nodes /\ fwd[Take(s, n)] # NoFwd
    BY <1>3 DEF Matches
  <2>2. ASSUME NEW m \in 0..n PROVE Take(s, m) \in nodes
    <3>1. Len(Take(s, n)) = n /\ Take(Take(s, n), m) = Take(s, m)
      BY <1>1, <2>1, TakeFacts
    <3> QED
      BY <2>1, <3>1
  <2> QED
    BY <2>1, <2>2 DEF Hits, Walk
<1> QED
  BY <1>2, <1>3

\* A well-formed trie finds the longest prefix.
LEMMA WellFormedFinds == TrieInv => SearchIsLongestPrefix
<1> SUFFICES ASSUME TrieInv, NEW s \in Queries PROVE Search(s) = LongestPrefix(s)
  BY DEF SearchIsLongestPrefix
<1>1. Hits(s) = Matches(s)
  BY HitsAreMatches
<1> QED
  BY <1>1 DEF Search, LongestPrefix, Deepest

\* Search of the trie agrees with the longest registered prefix
\* (proxy_routing.go 70-95) after any sequence of Add and Remove.
THEOREM LongestPrefixFound == Spec => []SearchIsLongestPrefix
  BY TrieInvariance, WellFormedFinds, PTL

--------------------------------------------------------------------------------
(***************************************************************************)
(* Routing.                                                                *)
(***************************************************************************)

\* The route of a prefix is that of its last row so far.
LastRow(k, i) ==
    /\ i \in 1..line
    /\ file[i].prefix = k
    /\ \A j \in 1..line : file[j].prefix = k => j <= i

Loaded ==
    /\ file \in Files
    /\ line \in 0..Len(file)
    /\ \A j \in 1..line : file[j].fields = 3
    /\ \A k \in Keys :
         IF \E j \in 1..line : file[j].prefix = k
         THEN \E i \in 1..line : LastRow(k, i) /\ fwd[k] = file[i].fwd
         ELSE fwd[k] = NoFwd

RoutingInv ==
    /\ TrieInv
    /\ phase \in {"loading", "ready"} => Loaded
    /\ phase = "ready" => line = Len(file) \/ file[line + 1].fields # 3
    /\ binds \subseteq Bindings

--------------------------------------------------------------------------------
(***************************************************************************)
(* Numbers.                                                                *)
(***************************************************************************)

\* A set of numbers has a least element.
LEMMA Least ==
  ASSUME NEW T \in SUBSET Nat, T # {}
  PROVE  \E x \in T : \A y \in T : x <= y
<1> DEFINE R == {p \in Nat \X Nat : p[1] < p[2]}
<1>1. IsWellFoundedOn(R, Nat)
  BY NatLessThanWellFounded DEF OpToRel
<1> HIDE DEF R
<1>2. \E x \in T : \A y \in T : ~(<<y, x>> \in R)
  BY <1>1, WFMin, Zenon
<1>3. \A x, y \in Nat : <<y, x>> \notin R => x <= y
  BY DEF R
<1> QED
  BY <1>2, <1>3

\* A bounded one has a greatest element.
LEMMA Greatest ==
  ASSUME NEW L \in Nat, NEW T \in SUBSET (0..L), T # {}
  PROVE  \E x \in T : \A y \in T : y <= x
<1> DEFINE D == {n \in 0..L : L - n \in T}
<1>1. D \in SUBSET Nat
  OBVIOUS
<1>2. D # {}
  <2>1. PICK x \in T : TRUE
    OBVIOUS
  <2>2. L - x \in 0..L /\ L - (L - x) = x
    OBVIOUS
  <2> QED
    BY <2>1, <2>2
<1>3. PICK n \in D : \A k \in D : n <= k
  <2> HIDE DEF D
  <2> QED
    BY <1>1, <1>2, Least
<1>4. ASSUME NEW y \in T PROVE y <= L - n
  <2>1. L - y \in 0..L /\ L - (L - y) = y
    OBVIOUS
  <2>2. n <= L - y
    BY <1>3, <2>1
  <2> QED
    BY <2>2
<1> QED
  BY <1>3, <1>4

--------------------------------------------------------------------------------
(***************************************************************************)
(* The bindings.                                                           *)
(***************************************************************************)

\* The rows of a query can be put in order: the one with the smallest q last.
LEMMA SortedExists ==
  ASSUME NEW bs \in SUBSET Bindings
  PROVE  Sorted(bs) # {}
<1> DEFINE Unsortable(c) == IsFiniteSet(c) /\ Sorted(c) = {}
           T == {n \in Nat : \E c \in SUBSET Bindings : Unsortable(c) /\ Cardinality(c) = n}
<1>1. \A c \in SUBSET Bindings : IsFiniteSet(c) /\ Cardinality(c) \in Nat
  BY BindingsAssumption, FS_Subset, FS_CardinalityType
<1> SUFFICES ASSUME T # {} PROVE FALSE
  BY <1>1
<1>2. PICK n \in T : \A k \in T : n <= k
  <2>1. T \in SUBSET Nat
    OBVIOUS
  <2> HIDE DEF T
  <2> QED
    BY <2>1, Least
<1>3. PICK c \in SUBSET Bindings : Unsortable(c) /\ Cardinality(c) = n
  BY <1>2
<1>4. c # {}
  <2>1. [i \in 1..0 |-> 0] \in Sorted({})
    BY FS_EmptySet DEF Sorted
  <2> QED
    BY <1>3, <2>1
<1>5. PICK b \in c : \A x \in c : b.q <= x.q
  <2> DEFINE Q == {x.q : x \in c}
  <2>1. Q \in SUBSET Nat /\ Q # {}
    BY <1>4, BindingsAssumption
  <2>2. PICK v \in Q : \A w \in Q : v <= w
    <3> HIDE DEF Q
    <3> QED
      BY <2>1, Least
  <2> QED
    BY <2>2
<1>6. /\ Cardinality(c \ {b}) = n - 1
      /\ n - 1 \in Nat
      /\ c \ {b} \in SUBSET Bindings
  <2>1. IsFiniteSet(c) /\ Cardinality(c) = n /\ n \in Nat
    BY <1>1, <1>2, <1>3
  <2>2. Cardinality(c \ {b}) = n - 1
    BY <2>1, FS_RemoveElement
  <2>3. n # 0
    BY <1>4, <2>1, FS_EmptySet
  <2> QED
    BY <2>1, <2>2, <2>3
<1>7. n - 1 \notin T
  BY <1>2, <1>6
<1>8. PICK s : s \in Sorted(c \ {b})
  BY <1>1, <1>6, <1>7
<1> DEFINE g == [i \in 1..n |-> IF i = n THEN b ELSE s[i]]
<1>9. s \in [1..(n - 1) -> c \ {b}]
  BY <1>6, <1>8 DEF Sorted
<1>10. \A i \in 1..n : i # n => i \in 1..(n - 1)
  BY <1>6
<1>11. g \in [1..n -> c]
  BY <1>9, <1>10
<1>12. \A i, j \in 1..n : i # j => g[i] # g[j]
  BY <1>8, <1>9, <1>10 DEF Sorted
<1>13. ASSUME NEW i \in 1..n, NEW j \in 1..n, i < j PROVE g[i].q >= g[j].q
  <2>1. i # n /\ i \in 1..(n - 1) /\ s[i] \in c
    BY <1>9, <1>13
  <2>2. CASE j = n
    BY <1>5, <2>1, <2>2, BindingsAssumption
  <2>3. CASE j # n
    BY <1>8, <1>9, <1>10, <1>13, <2>1, <2>3 DEF Sorted
  <2> QED
    BY <2>2, <2>3
<1>14. g \in Sorted(c)
  BY <1>3, <1>11, <1>12, <1>13 DEF Sorted
<1> QED
  BY <1>3, <1>14

\* An ordering misses no row.
LEMMA SortedOnto ==
  ASSUME NEW bs \in SUBSET Bindings, NEW s \in Sorted(bs)
  PROVE  /\ Cardinality(bs) \in Nat
         /\ s \in [1..Cardinality(bs) -> bs]
         /\ \A b \in bs : \E i \in 1..Cardinality(bs) : s[i] = b
<1>1. IsFiniteSet(bs) /\ Cardinality(bs) \in Nat
  BY BindingsAssumption, FS_Subset, FS_CardinalityType
<1> DEFINE N == Cardinality(bs)
<1>2. s \in [1..N -> bs] /\ \A i, j \in 1..N : i # j => s[i] # s[j]
  BY DEF Sorted
<1>3. s \in Injection(1..N, bs)
  BY <1>2 DEF Injection, IsInjective
<1>4. Cardinality(1..N) = N
  BY <1>1, FS_Interval
<1>5. s \in Surjection(1..N, bs)
  BY <1>1, <1>3, <1>4, FS_Injection
<1> QED
  BY <1>1, <1>2, <1>5 DEF Surjection

\* The candidates are the usable rows of the highest q, in whatever order the
\* database returns rows of one q.
LEMMA CandidatesAreBest ==
  ASSUME NEW bs \in SUBSET Bindings, NEW s \in Sorted(bs)
  PROVE  LET U == {b \in bs : b.valid} IN
         /\ Candidates(s) = {u \in U : \A w \in U : w.q <= u.q}
         /\ Candidates(s) = {} <=> U = {}
<1> DEFINE N == Cardinality(bs)
           U == {b \in bs : b.valid}
           Top == {u \in U : \A w \in U : w.q <= u.q}
<1>1. PICK n \in Nat : n = N
  BY SortedOnto
<1>2. /\ s \in [1..n -> bs]
      /\ \A b \in bs : \E i \in 1..n : s[i] = b
  BY <1>1, SortedOnto
<1>3. \A i, j \in 1..n : i < j => s[j].q <= s[i].q
  <2>1. \A i \in 1..n : s[i].q \in Nat
    BY <1>2, BindingsAssumption
  <2> QED
    BY <1>1, <1>2, <2>1 DEF Sorted
<1>4. \A b \in bs : b.q \in Nat
  BY BindingsAssumption
<1> HIDE DEF N
<1>5. ASSUME NEW i \in 1..n, s[i].valid, \A m \in 1..i : ~Stops(s, m)
      PROVE  s[i] \in Top
  <2> SUFFICES ASSUME NEW w \in U PROVE w.q <= s[i].q
    BY <1>2, <1>5
  <2>1. PICK j \in 1..n : s[j] = w
    BY <1>2
  <2>2. CASE i <= j
    BY <1>2, <1>3, <1>4, <2>1, <2>2
  <2>3. CASE j < i
    <3>1. i \in 1..i /\ j \in 1..(i - 1)
      BY <2>3
    <3>2. ~(s[j].q > s[i].q)
      BY <1>5, <2>1, <3>1 DEF Stops
    <3> QED
      BY <1>2, <1>4, <2>1, <3>2
  <2> QED
    BY <2>2, <2>3
<1>6. ASSUME NEW i \in 1..n, s[i] \in Top, NEW m \in 1..i
      PROVE  ~Stops(s, m)
  <2> SUFFICES ASSUME NEW j \in 1..(m - 1), s[j].valid, s[j].q > s[m].q PROVE FALSE
    BY DEF Stops
  <2>1. j \in 1..n /\ m \in 1..n /\ s[j] \in U
    BY <1>2
  <2>2. s[j].q <= s[i].q
    BY <1>6, <2>1
  <2>3. s[i].q <= s[m].q
    BY <1>2, <1>3, <1>4, <2>1
  <2> QED
    BY <1>2, <1>4, <2>1, <2>2, <2>3
<1>7. Candidates(s) = Top
  <2>1. Candidates(s) \subseteq Top
    BY <1>2, <1>5 DEF Candidates
  <2>2. ASSUME NEW u \in Top PROVE u \in Candidates(s)
    <3>1. PICK i \in 1..n : s[i] = u
      BY <1>2
    <3>2. s[i].valid /\ \A m \in 1..i : ~Stops(s, m)
      BY <1>6, <3>1
    <3> QED
      BY <1>2, <3>1, <3>2 DEF Candidates
  <2> QED
    BY <2>1, <2>2
<1>8. ASSUME U # {} PROVE Candidates(s) # {}
  <2> DEFINE T == {i \in 1..n : s[i].valid}
  <2>1. T \in SUBSET Nat /\ T # {}
    BY <1>2, <1>8
  <2>2. PICK i \in T : \A j \in T : i <= j
    <3> HIDE DEF T
    <3> QED
      BY <2>1, Least
  <2>3. ASSUME NEW m \in 1..i PROVE ~Stops(s, m)
    <3> SUFFICES ASSUME NEW j \in 1..(m - 1), s[j].valid PROVE FALSE
      BY DEF Stops
    <3>1. j \in T /\ j < i
      OBVIOUS
    <3> QED
      BY <2>2, <3>1
  <2> QED
    BY <1>2, <2>2, <2>3 DEF Candidates
<1> QED
  BY <1>7, <1>8

--------------------------------------------------------------------------------
(***************************************************************************)
(* The file of routes.                                                     *)
(***************************************************************************)

\* A file is a sequence of rows.
LEMMA FileTypes ==
  ASSUME NEW fl \in Files
  PROVE  /\ Len(fl) \in Nat
         /\ DOMAIN fl = 1..Len(fl)
         /\ \A i \in 1..Len(fl) : fl[i].prefix \in Keys /\ fl[i].fwd \in Fwds
<1>1. PICK R : R = [fields : Nat, prefix : Keys, fwd : Fwds]
  OBVIOUS
<1>2. fl \in Seq(R)
  BY <1>1, FilesAssumption
<1>3. Len(fl) \in Nat /\ DOMAIN fl = 1..Len(fl) /\ \A i \in 1..Len(fl) : fl[i] \in R
  BY <1>2
<1> QED
  BY <1>1, <1>3

\* Once the file is loaded the trie finds, for a number, the destination of the
\* row that counts.
LEMMA SearchFollowsFile ==
  ASSUME RoutingInv, phase = "ready", NEW number \in Queries
  PROVE  IF Best(number) = {}
         THEN Search(number) = NoFwd
         ELSE Search(number) # NoFwd /\ {file[i].fwd : i \in Best(number)} = {Search(number)}
<1> DEFINE M == Matches(number)
<1>1. /\ number \in Seq(Digits)
      /\ Loaded /\ TrieInv
      /\ file \in Files
  BY QueriesAssumption DEF RoutingInv, Loaded
<1>2. Rows = 1..line
  <2>1. DOMAIN file = 1..Len(file) /\ Len(file) \in Nat /\ line \in 0..Len(file)
    BY <1>1, FileTypes DEF Loaded
  <2>2. 1..line \subseteq Rows
    BY <1>1, <2>1 DEF Rows, Loaded
  <2>3. ASSUME NEW i \in Rows PROVE i <= line
    <3>1. i \in 1..Len(file)
      BY <2>1 DEF Rows
    <3> SUFFICES ASSUME line < i PROVE FALSE
      BY <2>1, <3>1
    <3>2. line # Len(file) /\ line + 1 \in 1..i
      <4>1. \A L \in Nat : \A a \in 0..L : \A b \in 1..L : a < b => a # L /\ a + 1 \in 1..b
        OBVIOUS
      <4> QED
        BY <2>1, <3>1, <4>1
    <3> QED
      BY <3>2 DEF Rows, RoutingInv
  <2> QED
    BY <2>1, <2>2, <2>3 DEF Rows
<1>3. Hits(number) = M
  BY <1>1, HitsAreMatches
<1>4. \A i \in 1..line : file[i].prefix \in Keys /\ file[i].fwd # NoFwd
  <2>1. 1..line \subseteq 1..Len(file)
    BY <1>1, FileTypes DEF Loaded
  <2> QED
    BY <1>1, <2>1, FileTypes, FwdsAssumption
<1>5. \A n \in 0..Len(number) : Len(Take(number, n)) = n
  BY <1>1, TakeFacts
<1>6. ASSUME NEW i \in 1..line, NEW n \in 0..Len(number), file[i].prefix = Take(number, n)
      PROVE  n \in M /\ Len(file[i].prefix) = n
  <2>1. Take(number, n) \in Keys
    BY <1>4, <1>6
  <2>2. PICK l \in 1..line : fwd[Take(number, n)] = file[l].fwd
    BY <1>1, <1>6, <2>1 DEF Loaded
  <2> QED
    BY <1>4, <1>5, <1>6, <2>1, <2>2 DEF Matches
<1>7. CASE M = {}
  <2>1. Best(number) = {}
    BY <1>2, <1>6, <1>7 DEF Best
  <2> QED
    BY <1>3, <1>7, <2>1 DEF Search
<1>8. CASE M # {}
  <2>1. Len(number) \in Nat /\ M \in SUBSET (0..Len(number))
    BY <1>1 DEF Matches
  <2>2. \E x \in M : \A y \in M : y <= x
    <3> HIDE DEF M
    <3> QED
      BY <1>8, <2>1, Greatest
  <2>3. PICK x : x = Deepest(number)
    OBVIOUS
  <2>4. x \in M /\ \A y \in M : y <= x
    BY <1>3, <2>2, <2>3 DEF Deepest
  <2>5. PICK k : k = Take(number, x)
    OBVIOUS
  <2>6. x \in 0..Len(number) /\ k \in Keys /\ fwd[k] # NoFwd /\ Len(k) = x
    BY <1>5, <2>1, <2>4, <2>5 DEF Matches
  <2>7. Search(number) = fwd[k]
    BY <1>3, <1>8, <2>3, <2>5 DEF Search
  <2>8. PICK i \in 1..line : LastRow(k, i) /\ fwd[k] = file[i].fwd
    BY <1>1, <2>6 DEF Loaded
  <2>9. i \in Best(number)
    <3>1. file[i].prefix = k /\ Len(file[i].prefix) = x
      BY <2>6, <2>8 DEF LastRow
    <3>2. ASSUME NEW j \in 1..line, NEW n \in 0..Len(number), file[j].prefix = Take(number, n)
          PROVE  \/ Len(file[j].prefix) < Len(file[i].prefix)
                 \/ Len(file[j].prefix) = Len(file[i].prefix) /\ j <= i
      <4>1. n \in M /\ Len(file[j].prefix) = n /\ n <= x
        BY <1>6, <2>4, <3>2
      <4>2. CASE n = x
        BY <2>5, <2>8, <3>1, <3>2, <4>1, <4>2 DEF LastRow
      <4>3. CASE n # x
        BY <2>6, <3>1, <4>1, <4>3
      <4> QED
        BY <4>2, <4>3
    <3> QED
      BY <1>2, <2>5, <2>6, <3>1, <3>2 DEF Best
  <2>10. ASSUME NEW j \in Best(number) PROVE j = i
    <3>1. j \in 1..line /\ i \in 1..line
      BY <1>2 DEF Best
    <3>2. PICK n \in 0..Len(number) : file[j].prefix = Take(number, n)
      BY DEF Best
    <3>3. n \in M /\ Len(file[j].prefix) = n /\ n <= x
      BY <1>6, <2>4, <3>1, <3>2
    <3>4. Len(file[i].prefix) = x /\ file[i].prefix = k
      BY <2>6, <2>8 DEF LastRow
    <3>5. \/ Len(file[i].prefix) < Len(file[j].prefix)
          \/ Len(file[i].prefix) = Len(file[j].prefix) /\ i <= j
      BY <1>2, <2>5, <2>6, <3>1, <3>4 DEF Best
    <3>6. n = x /\ i <= j
      BY <2>6, <3>3, <3>4, <3>5
    <3>7. j <= i
      BY <2>5, <2>8, <3>1, <3>2, <3>6 DEF LastRow
    <3> QED
      BY <1>1, <3>1, <3>6, <3>7 DEF Loaded
  <2>11. Best(number) = {i}
    BY <2>9, <2>10
  <2> QED
    BY <2>6, <2>7, <2>8, <2>11
<1> QED
  BY <1>7, <1>8

--------------------------------------------------------------------------------
(***************************************************************************)
(* Invariance.                                                             *)
(***************************************************************************)

\* Nothing is loaded yet.
LEMMA RoutingInvInit == RoutingInit => RoutingInv
<1> SUFFICES ASSUME RoutingInit PROVE RoutingInv
  OBVIOUS
<1>1. TrieInv
  BY TrieInit DEF RoutingInit
<1>2. Loaded
  <2>1. Len(file) \in Nat
    BY FileTypes DEF RoutingInit
  <2> QED
    BY <2>1 DEF RoutingInit, Loaded, Init
<1> QED
  BY <1>1, <1>2 DEF RoutingInit, RoutingInv

\* A row replaces the route of its prefix and no other.
LEMMA LoadRowKeepsLoaded ==
  ASSUME RoutingInv, LoadRow
  PROVE  Loaded'
<1>1. /\ Loaded /\ TypeOK
      /\ file \in Files
      /\ file' = file /\ line' = line + 1
      /\ line \in 0..Len(file) /\ line < Len(file)
  BY DEF RoutingInv, LoadRow, ReadOK, Loaded, TrieInv
<1>2. Len(file) \in Nat /\ line \in Nat /\ line + 1 \in 1..Len(file)
  BY <1>1, FileTypes
<1> DEFINE r == file[line + 1]
<1>3. /\ r.fields = 3 /\ fwd' = [fwd EXCEPT ![r.prefix] = r.fwd]
      /\ r.prefix \in Keys
  BY <1>1, <1>2, FileTypes DEF LoadRow, Add
<1>4. \A j : j \in 1..(line + 1) <=> j \in 1..line \/ j = line + 1
  BY <1>2
<1>5. line' \in 0..Len(file') /\ \A j \in 1..line' : file'[j].fields = 3
  BY <1>1, <1>2, <1>3, <1>4 DEF Loaded
<1>6. ASSUME NEW k \in Keys
      PROVE  IF \E j \in 1..line' : file'[j].prefix = k
             THEN \E i \in 1..line' : LastRow(k, i)' /\ fwd'[k] = file'[i].fwd
             ELSE fwd'[k] = NoFwd
  <2>1. CASE k = r.prefix
    <3>1. fwd'[k] = r.fwd
      BY <1>1, <1>3, <2>1 DEF TypeOK
    <3>2. PICK l : l = line + 1
      OBVIOUS
    <3>3. l \in 1..line' /\ \A j \in 1..line' : j <= l
      BY <1>1, <1>2, <3>2
    <3>4. LastRow(k, l)'
      BY <1>1, <2>1, <3>2, <3>3 DEF LastRow
    <3> QED
      BY <1>1, <2>1, <3>1, <3>2, <3>3, <3>4
  <2>2. CASE k # r.prefix
    <3>1. fwd'[k] = fwd[k]
      BY <1>1, <1>3, <2>2 DEF TypeOK
    <3>2. ASSUME NEW i \in 1..line, LastRow(k, i) PROVE LastRow(k, i)'
      BY <1>1, <1>4, <2>2, <3>2 DEF LastRow
    <3>3. (\E j \in 1..line' : file'[j].prefix = k) <=> \E j \in 1..line : file[j].prefix = k
      BY <1>1, <1>4, <2>2
    <3>4. \A i \in 1..line : i \in 1..line'
      BY <1>1, <1>4
    <3> QED
      BY <1>1, <3>1, <3>2, <3>3, <3>4 DEF Loaded
  <2> QED
    BY <2>1, <2>2
<1> QED
  BY <1>1, <1>5, <1>6 DEF Loaded

\* Every step keeps the table in agreement with the rows read.
LEMMA RoutingInvStep ==
  ASSUME RoutingInv, [RoutingNext]_<<vars, routing>>
  PROVE  RoutingInv'
<1>1. CASE LoadRow
  <2>1. Add(file[line + 1].prefix, file[line + 1].fwd)
    BY <1>1 DEF LoadRow
  <2>2. file[line + 1].prefix \in Keys /\ file[line + 1].fwd \in Fwds
    <3>1. file \in Files /\ line \in 0..Len(file) /\ line < Len(file)
      BY <1>1 DEF LoadRow, ReadOK, RoutingInv, Loaded
    <3>2. line + 1 \in 1..Len(file)
      BY <3>1, FileTypes
    <3> QED
      BY <3>1, <3>2, FileTypes
  <2>3. TrieInv'
    BY <2>1, <2>2, TrieAdd DEF RoutingInv
  <2> QED
    BY <1>1, <2>3, LoadRowKeepsLoaded DEF RoutingInv, LoadRow
<1>2. ASSUME UNCHANGED <<vars, file, line>> PROVE TrieInv' /\ (Loaded => Loaded')
  <2>1. TrieInv'
    BY <1>2, Zenon DEF RoutingInv, vars, TrieInv, TypeOK, Reachable
  <2>2. Loaded => Loaded'
    BY <1>2 DEF vars, Loaded, LastRow
  <2> QED
    BY <2>1, <2>2
<1>3. CASE LoadEnds
  <2>1. line = Len(file) \/ file[line + 1].fields # 3
    BY <1>3, FileTypes DEF LoadEnds, ReadOK, RoutingInv, Loaded
  <2> QED
    BY <1>2, <1>3, <2>1 DEF LoadEnds, RoutingInv
<1>4. CASE LoadRefuses
  BY <1>2, <1>4 DEF LoadRefuses, RoutingInv
<1>5. CASE Change
  <2>1. TrieInv'
    BY <1>5, TrieAdd, TrieRemove DEF Change, Next, RoutingInv
  <2> QED
    BY <1>5, <2>1 DEF Change, RoutingInv
<1>6. CASE Rebind
  BY <1>2, <1>6 DEF Rebind, RoutingInv
<1>7. CASE UNCHANGED <<vars, routing>>
  BY <1>2, <1>7 DEF routing, RoutingInv
<1> QED
  BY <1>1, <1>3, <1>4, <1>5, <1>6, <1>7 DEF RoutingNext

\* The table agrees with the rows that were read, throughout.
LEMMA RoutingInvariance == RoutingSpec => []RoutingInv
  BY RoutingInvInit, RoutingInvStep, PTL DEF RoutingSpec

--------------------------------------------------------------------------------
\* Loading the file and changing the table later keeps longest-prefix matching
\* (proxy_routing.go 32-95, 142-159).
THEOREM LoadedTableSearches == RoutingSpec => []SearchIsLongestPrefix
<1>1. RoutingInv => SearchIsLongestPrefix
  BY WellFormedFinds DEF RoutingInv
<1> QED
  BY RoutingInvariance, <1>1, PTL

\* For every file, every finite set of bindings and every number, route
\* (proxy_request_controller.go 399-447) returns a usable binding of the highest
\* q, and without one the destination of the row of the file that counts.
THEOREM RequestsFollowFile == RoutingSpec => []RouteFollowsFile
<1>1. RoutingInv => RouteFollowsFile
  <2> SUFFICES ASSUME RoutingInv, phase = "ready", NEW number \in Queries
               PROVE  route(number) =
                        IF Usable # {}
                        THEN {b.bind : b \in {u \in Usable : \A w \in Usable : w.q <= u.q}}
                        ELSE IF Best(number) = {} THEN {NoRoute}
                             ELSE {file[i].fwd : i \in Best(number)}
    BY DEF RouteFollowsFile
  <2> DEFINE Top == {u \in Usable : \A w \in Usable : w.q <= u.q}
             Found == IF Search(number) = NoFwd THEN NoRoute ELSE Search(number)
             Dest(s) == IF Candidates(s) # {} THEN {b.bind : b \in Candidates(s)} ELSE {Found}
  <2>1. binds \in SUBSET Bindings
    BY DEF RoutingInv
  <2>2. \A s \in Sorted(binds) : Candidates(s) = Top /\ (Candidates(s) = {} <=> Usable = {})
    BY <2>1, CandidatesAreBest DEF Usable
  <2>3. Sorted(binds) # {}
    BY <2>1, SortedExists
  <2>4. route(number) = UNION {Dest(s) : s \in Sorted(binds)}
    BY DEF route
  <2>5. CASE Usable # {}
    <3>1. \A s \in Sorted(binds) : Dest(s) = {b.bind : b \in Top}
      BY <2>2, <2>5
    <3> HIDE DEF Dest, Top
    <3>2. route(number) = {b.bind : b \in Top}
      BY <2>3, <2>4, <3>1
    <3> QED
      BY <2>5, <3>2 DEF Top
  <2>6. CASE Usable = {}
    <3>1. \A s \in Sorted(binds) : Dest(s) = {Found}
      BY <2>2, <2>6
    <3>2. route(number) = {Found}
      <4> HIDE DEF Dest, Found
      <4> QED
        BY <2>3, <2>4, <3>1
    <3> QED
      BY <2>6, <3>2, SearchFollowsFile
  <2> QED
    BY <2>5, <2>6
<1> QED
  BY RoutingInvariance, <1>1, PTL
================================================================================

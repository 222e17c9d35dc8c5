--------------------------- MODULE Registration_proofs -------------------------
(***************************************************************************)
(* Proof that the goroutines and the database of Registration implement    *)
(* the atomic Registrar.  The operations of a transaction are computed     *)
(* before it commits; the commit is the atomic step of Registrar because   *)
(* the rows cannot change in between: TransactionSeesTable.                *)
(***************************************************************************)
EXTENDS Registration, WellFoundedInduction, TLAPS

States == {"idle", "begin", "seq", "ops", "commit", "done"}

Types ==
    /\ now \in Nat
    /\ pc \in [Regs -> States]
    /\ req \in [Regs -> Requests \cup {None}]
    /\ when \in [Regs -> Nat]
    /\ DOMAIN work = Regs
    /\ DOMAIN answer = Regs

\* A goroutine without a request is idle, one without an answer not done, one
\* that does not read has no lock.
Progress(r) ==
    /\ pc[r] = "idle" <=> req[r] = None
    /\ pc[r] # "done" => answer[r] = None
    /\ r \in shared => pc[r] \in {"seq", "ops", "commit"}
    /\ pc[r] = "commit" => when[r] \in 0..now

IInv ==
    /\ Types
    /\ \A r \in Regs : Progress(r)
    /\ TransactionSeesTable

--------------------------------------------------------------------------------

\* A set of numbers has a least element.
LEMMA Least ==
  ASSUME NEW T \in SUBSET Nat, T # {}
  PROVE  \E x \in T : \A y \in T : x <= y
<1> DEFINE R == {p \in Nat \X Nat : p[1] < p[2]}
<1>1. IsWellFoundedOn(R, Nat)
  BY NatLessThanWellFounded DEF OpToRel
<1> HIDE DEF R
<1>2. \E x \in T : \A y \in T : ~(<<y, x>> \in R)
  BY <1>1, WFMin, Zenon
<1>3. \A x, y \in Nat : <<y, x>> \notin R => x <= y
  BY DEF R
<1> QED
  BY <1>2, <1>3

\* Applied one after the other: the rows after each operation of a request.
After(rs, m, t, n, f) ==
    f = [i \in 0..n |-> IF i = 0 THEN rs ELSE Operation(f[i - 1], m, m.contacts[i], t)]

\* There is such a table after every number of operations.
LEMMA AfterExists ==
  ASSUME NEW rs, NEW m, NEW t
  PROVE  \A n \in Nat : \E f : After(rs, m, t, n, f)
<1> DEFINE T == {n \in Nat : ~\E f : After(rs, m, t, n, f)}
<1> SUFFICES ASSUME T # {} PROVE FALSE
  OBVIOUS
<1>1. PICK n \in T : \A k \in T : n <= k
  BY Least
<1>2. n # 0
  <2>1. After(rs, m, t, 0, [i \in 0..0 |-> rs])
    BY DEF After
  <2> QED
    BY <2>1
<1>3. PICK f : After(rs, m, t, n - 1, f)
  <2>1. n - 1 \in Nat /\ n - 1 \notin T
    BY <1>1, <1>2
  <2> QED
    BY <2>1
<1> DEFINE g == [i \in 0..n |-> IF i = n THEN Operation(f[n - 1], m, m.contacts[n], t) ELSE f[i]]
<1>4. After(rs, m, t, n, g)
  BY <1>2, <1>3 DEF After
<1> QED
  BY <1>4

\* A table with one row per contact.
OneRow(rs) == \A x, y \in rs : x.bind = y.bind => x = y

\* One operation keeps it: an update takes the old row out.
LEMMA OperationOneRow ==
  ASSUME NEW rs, NEW m, NEW c, NEW t, OneRow(rs)
  PROVE  OneRow(Operation(rs, m, c, t))
<1> DEFINE old == {x \in rs : x.bind # c.bind}
           new == [bind |-> c.bind, q |-> c.q, at |-> t + ExpectExpires(m, c)]
<1>1. new.bind = c.bind
  OBVIOUS
<1>2. Operation(rs, m, c, t) \in {{}, old, old \cup {new}}
  BY DEF Operation
<1> HIDE DEF new
<1>3. OneRow({}) /\ OneRow(old)
  BY DEF OneRow
<1>4. OneRow(old \cup {new})
  BY <1>1 DEF OneRow
<1> QED
  BY <1>2, <1>3, <1>4

\* All of them keep it: of the operations that do not, there would be a first.
LEMMA OperationsOneRow ==
  ASSUME NEW rs, NEW m \in Requests, NEW t, OneRow(rs)
  PROVE  OneRow(Operations(rs, m, t))
<1>1. PICK N \in Nat : N = Len(m.contacts)
  BY RequestsAssumption
<1> DEFINE f == CHOOSE g : After(rs, m, t, N, g)
           T == {i \in 0..N : ~OneRow(f[i])}
<1>2. After(rs, m, t, N, f)
  BY AfterExists, <1>1
<1>3. Operations(rs, m, t) = f[N]
  BY <1>1 DEF Operations, After
<1> HIDE DEF f
<1>4. \A i \in 0..N : f[i] = IF i = 0 THEN rs ELSE Operation(f[i - 1], m, m.contacts[i], t)
  BY <1>2 DEF After
<1> SUFFICES ASSUME T # {} PROVE FALSE
  BY <1>1, <1>3
<1>5. PICK n \in T : \A k \in T : n <= k
  <2>1. T \in SUBSET Nat
    OBVIOUS
  <2> HIDE DEF T
  <2> QED
    BY <2>1, Least
<1>6. n # 0
  BY <1>1, <1>4
<1>7. n - 1 \in 0..N /\ n - 1 \notin T
  BY <1>1, <1>5, <1>6
<1> QED
  BY <1>4, <1>5, <1>6, <1>7, OperationOneRow
\* Init establishes the invariant: nobody has begun.
LEMMA InitInv == Init => IInv
  BY DEF Init, IInv, Types, States, Progress, TransactionSeesTable, SeesTable

\* A step of one goroutine keeps the types and the progress of all.
LEMMA TypesStep ==
  ASSUME IInv, [Next]_vars
  PROVE  Types' /\ \A r \in Regs : Progress(r)'
<1> USE DEF IInv, Types, States, Progress
<1>0. None \notin Requests
  BY RequestsAssumption
<1>1. ASSUME NEW g \in Regs, NEW m \in Requests, Register(g, m)
      PROVE  Types' /\ \A r \in Regs : Progress(r)'
  <2>1. Types'
    BY <1>1 DEF Register, Answer
  <2>2. ASSUME NEW r \in Regs PROVE Progress(r)'
    BY <1>0, <1>1 DEF Register, Answer
  <2> QED
    BY <2>1, <2>2
<1>2. ASSUME NEW g \in Regs, CheckSeq(g)
      PROVE  Types' /\ \A r \in Regs : Progress(r)'
  <2>1. Types'
    BY <1>2 DEF CheckSeq, Fail, Answer, Release
  <2>2. ASSUME NEW r \in Regs PROVE Progress(r)'
    BY <1>0, <1>2 DEF CheckSeq, Fail, Answer, Release
  <2> QED
    BY <2>1, <2>2
<1>3. ASSUME NEW g \in Regs, ReplaceSeq(g)
      PROVE  Types' /\ \A r \in Regs : Progress(r)'
  <2>1. Types'
    BY <1>3 DEF ReplaceSeq, Fail, Answer, Release
  <2>2. ASSUME NEW r \in Regs PROVE Progress(r)'
    BY <1>0, <1>3 DEF ReplaceSeq, Fail, Answer, Release
  <2> QED
    BY <2>1, <2>2
<1>4. ASSUME NEW g \in Regs, Operate(g)
      PROVE  Types' /\ \A r \in Regs : Progress(r)'
  <2>1. Types'
    BY <1>4 DEF Operate, Fail, Answer, Release
  <2>2. ASSUME NEW r \in Regs PROVE Progress(r)'
    BY <1>0, <1>4 DEF Operate, Fail, Answer, Release
  <2> QED
    BY <2>1, <2>2
<1>5. ASSUME NEW g \in Regs, Commit(g)
      PROVE  Types' /\ \A r \in Regs : Progress(r)'
  <2>1. Types'
    BY <1>5 DEF Commit, Fail, Answer, Release
  <2>2. ASSUME NEW r \in Regs PROVE Progress(r)'
    BY <1>0, <1>5 DEF Commit, Fail, Answer, Release
  <2> QED
    BY <2>1, <2>2
<1>6. CASE Tick
  BY <1>6 DEF Tick
<1>7. CASE UNCHANGED vars
  BY <1>7 DEF vars
<1>8. QED
  BY <1>1, <1>2, <1>3, <1>4, <1>5, <1>6, <1>7 DEF Next, Step

\* What a transaction sees stays true: the rows change in Commit only, when no
\* other transaction has a lock.
LEMMA SeesTableStep ==
  ASSUME IInv, [Next]_vars
  PROVE  TransactionSeesTable'
<1> USE RequestsAssumption DEF IInv, Types, States, Progress, TransactionSeesTable, SeesTable
<1>1. ASSUME NEW g \in Regs, NEW m \in Requests, Register(g, m)
      PROVE  TransactionSeesTable'
  BY <1>1 DEF Register, Answer
<1>2. ASSUME NEW g \in Regs, CheckSeq(g)
      PROVE  TransactionSeesTable'
  BY <1>2 DEF CheckSeq, Fail, Answer, Release
<1>3. ASSUME NEW g \in Regs, ReplaceSeq(g)
      PROVE  TransactionSeesTable'
  BY <1>3 DEF ReplaceSeq, Fail, Answer, Release
<1>4. ASSUME NEW g \in Regs, Operate(g)
      PROVE  TransactionSeesTable'
  BY <1>4 DEF Operate, Fail, Answer, Release
<1>5. ASSUME NEW g \in Regs, Commit(g)
      PROVE  TransactionSeesTable'
  BY <1>5 DEF Commit, Fail, Answer, Release
<1>6. CASE Tick
  BY <1>6 DEF Tick
<1>7. CASE UNCHANGED vars
  BY <1>7 DEF vars
<1>8. QED
  BY <1>1, <1>2, <1>3, <1>4, <1>5, <1>6, <1>7 DEF Next, Step

\* The invariant holds throughout.
LEMMA Invariance == Spec => []IInv
<1>1. IInv /\ [Next]_vars => IInv'
  BY TypesStep, SeesTableStep DEF IInv
<1>2. QED
  BY InitInv, <1>1, PTL DEF Spec

\* Snapshot isolation of a REGISTER, for any number of goroutines and requests:
\* what its transaction has read stays true until it commits.
THEOREM TransactionsIsolated == Spec => []TransactionSeesTable
  BY Invariance, PTL DEF IInv

\* A contact has one row for any number of goroutines, requests and contacts
\* (proxy_registration.go 207-216): a commit writes what its operations made of
\* the rows that are there, and none of them leaves a second row.
THEOREM BindingsUnique == Spec => []OneRowPerBinding
<1>1. Init => OneRowPerBinding
  BY DEF Init, OneRowPerBinding
<1>2. ASSUME IInv, OneRowPerBinding, [Next]_vars
      PROVE  OneRowPerBinding'
  <2>1. CASE UNCHANGED rows
    BY <1>2, <2>1 DEF OneRowPerBinding
  <2>2. CASE ~UNCHANGED rows
    <3>1. PICK g \in Regs : Commit(g) /\ rows' = work[g]
      BY <1>2, <2>2 DEF Next, Step, Register, CheckSeq, ReplaceSeq, Operate, Commit, Tick, vars
    <3>2. pc[g] = "commit" /\ req[g] \in Requests
      BY <1>2, <3>1 DEF Commit, IInv, Types, Progress
    <3>3. rows' = Operations(rows, req[g], when[g])
      BY <1>2, <3>1, <3>2 DEF IInv, TransactionSeesTable, SeesTable
    <3>4. OneRow(rows)
      BY <1>2 DEF OneRowPerBinding, OneRow
    <3> QED
      BY <3>2, <3>3, <3>4, OperationsOneRow DEF OneRowPerBinding, OneRow
  <2> QED
    BY <2>1, <2>2
<1> QED
  BY <1>1, <1>2, Invariance, PTL DEF Spec

--------------------------------------------------------------------------------
\* The statuses with which a request is refused.
LEMMA RefusalCodes ==
  ASSUME NEW m \in Requests, FirstRefusal(m) # 0
  PROVE  FirstRefusal(m) \in {400, 423}
<1>. DEFINE bad == {i \in DOMAIN m.contacts : Refusal(m, m.contacts[i]) # 0}
<1>1. FirstRefusal(m) =
        IF bad = {} THEN 0
        ELSE Refusal(m, m.contacts[CHOOSE i \in bad : \A j \in bad : i <= j])
  BY DEF FirstRefusal
<1>2. \A c : Refusal(m, c) \in {0, 400, 423}
  BY DEF Refusal
<1>3. QED
  BY <1>1, <1>2

\* A step of the registrar is a step of the abstract one or invisible in it.
LEMMA StepImplements ==
  ASSUME IInv, [Next]_vars
  PROVE  [Abstract!Next]_(Abstract!vars)
<1> USE RequestsAssumption DEF IInv, Types, States, Progress
<1>1. ASSUME NEW g \in Regs, NEW m \in Requests, Register(g, m)
      PROVE  Abstract!Submit(g, m)
  BY <1>1, RefusalCodes DEF Register, Answer, Abstract!Submit, Abstract!Refusal
<1>2. ASSUME NEW g \in Regs, CheckSeq(g)
      PROVE  Abstract!Refuse(g) \/ UNCHANGED Abstract!vars
  BY <1>2 DEF CheckSeq, Fail, Answer, Abstract!Refuse, Abstract!Refusal, Abstract!vars
<1>3. ASSUME NEW g \in Regs, ReplaceSeq(g)
      PROVE  Abstract!Refuse(g) \/ UNCHANGED Abstract!vars
  BY <1>3 DEF ReplaceSeq, Fail, Answer, Abstract!Refuse, Abstract!Refusal, Abstract!vars
<1>4. ASSUME NEW g \in Regs, Operate(g)
      PROVE  Abstract!Refuse(g) \/ UNCHANGED Abstract!vars
  BY <1>4 DEF Operate, Fail, Answer, Abstract!Refuse, Abstract!Refusal, Abstract!vars
<1>5. ASSUME NEW g \in Regs, Commit(g)
      PROVE  Abstract!Refuse(g) \/ Abstract!Accept(g, when[g])
  BY <1>5 DEF Commit, Fail, Answer, TransactionSeesTable, SeesTable,
              Abstract!Refuse, Abstract!Refusal, Abstract!Accept
<1>6. CASE Tick
  BY <1>6 DEF Tick, Abstract!Tick, Abstract!Next
<1>7. CASE UNCHANGED vars
  BY <1>7 DEF vars, Abstract!vars
<1>8. ASSUME NEW g \in Regs, Commit(g)
      PROVE  when[g] \in 0..now
  BY <1>8 DEF Commit
<1>9. QED
  BY <1>1, <1>2, <1>3, <1>4, <1>5, <1>6, <1>7, <1>8 DEF Next, Step, Abstract!Next

\* The registrar implements its atomic specification for any number of
\* goroutines, any requests and any clock.
THEOREM RegistrationImplementsRegistrar == Spec => ImplementsRegistrar
<1>1. Init => Abstract!Init
  BY DEF Init, Abstract!Init
<1>2. QED
  BY <1>1, Invariance, StepImplements, PTL DEF Spec, ImplementsRegistrar, Abstract!Spec
================================================================================

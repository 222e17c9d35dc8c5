------------------------------ MODULE Registration -----------------------------
(***************************************************************************)
(* The registrar of src/proxy_registration.go: REGISTER requests for one   *)
(* address of record, each handled by a goroutine of its own that reads    *)
(* the Contact header fields into operations and issues them in one        *)
(* transaction of the SQLite database.  All queries name the address of    *)
(* record, so one is enough.                                               *)
(*                                                                         *)
(* SQLite itself is external.  A transaction works on what it saw at its   *)
(* first statement; it holds a shared lock from then on, the one reserved  *)
(* lock from its first write on, and can commit once nobody else holds a   *)
(* shared lock.  A statement that meets a lock may wait or fail (busy);    *)
(* any other statement may fail, too.  The one error the code ignores,     *)
(* that of the DELETE of an update, is assumed to show again in the INSERT *)
(* behind it, which writes the same table.                                 *)
(***************************************************************************)
EXTENDS Integers, Sequences, FiniteSets

CONSTANTS
    Regs,                          \* REGISTER goroutines
    Requests,                      \* the requests they may handle
    MinimumRegisterExpiresValue,
    MaxTime,                       \* bound of the clock
    None

Absent == -1                       \* an expires that is not there

\* A request: contacts (star, bind, q in hundredths, expires), the Expires
\* header field, Call-ID and CSeq.
ASSUME RequestsAssumption ==
    /\ None \notin Regs \cup Requests
    /\ \A m \in Requests : Len(m.contacts) \in Nat
    /\ \A m \in Requests : \A i \in DOMAIN m.contacts :
          m.contacts[i].q \in Int /\ m.contacts[i].expires \in Int

VARIABLES
    rows,      \* table register: bind, q, at (expired_at)
    seq,       \* table register_seq: Call-ID and CSeq, or None
    now,
    pc, req,   \* where each goroutine is, and its request
    work,      \* what its transaction sees of the rows
    when,      \* the now of issueTransaction
    answer,    \* the result: status and contacts, or None
    shared,    \* goroutines with a shared lock
    reserved   \* the one with the reserved lock, or None

vars == <<rows, seq, now, pc, req, work, when, answer, shared, reserved>>

Init ==
    /\ rows = {}
    /\ seq = None
    /\ now = 0
    /\ pc = [r \in Regs |-> "idle"]
    /\ req = [r \in Regs |-> None]
    /\ work = [r \in Regs |-> {}]
    /\ when = [r \in Regs |-> 0]
    /\ answer = [r \in Regs |-> None]
    /\ shared = {}
    /\ reserved = None

--------------------------------------------------------------------------------
(***************************************************************************)
(* From Contact header fields to operations.                               *)
(***************************************************************************)

\* Atoi of a missing Expires is 0.
HeaderExpires(m) == IF m.expires = Absent THEN 0 ELSE m.expires

ExpectExpires(m, c) ==
    CASE m.expires # Absent                       -> m.expires
      [] m.expires = Absent /\ c.expires # Absent -> c.expires
      [] OTHER                                    -> MinimumRegisterExpiresValue

IsDelete(m, c) == c.expires = 0 \/ (m.expires = 0 /\ c.expires = Absent)

\* determOperation: the status it refuses a contact with, or 0.
Refusal(m, c) ==
    CASE c.star                               -> IF HeaderExpires(m) # 0 THEN 400 ELSE 0
      [] ~c.star /\ (c.q > 1 \/ c.q < 0)      -> 400
      [] /\ ~c.star /\ c.q \in {0, 1} /\ ~IsDelete(m, c)
         /\ ExpectExpires(m, c) < MinimumRegisterExpiresValue -> 423
      [] OTHER                                -> 0

\* registration: the first refusal counts.
FirstRefusal(m) ==
    LET bad == {i \in DOMAIN m.contacts : Refusal(m, m.contacts[i]) # 0} IN
    IF bad = {} THEN 0
    ELSE Refusal(m, m.contacts[CHOOSE i \in bad : \A j \in bad : i <= j])

\* A bug: an update only inserts.
OperationInsertsOnly(rs, m, c, t) ==
    CASE c.star         -> {}
      [] IsDelete(m, c) -> {x \in rs : x.bind # c.bind}
      [] OTHER -> rs \cup {[bind |-> c.bind, q |-> c.q, at |-> t + ExpectExpires(m, c)]}

\* One REGISTRATION_DELALL, REGISTRATION_DEL or REGISTRATION_UPDATE.
Operation(rs, m, c, t) ==
    CASE c.star         -> {}
      [] IsDelete(m, c) -> {x \in rs : x.bind # c.bind}
      [] OTHER -> {x \in rs : x.bind # c.bind}
                   \cup {[bind |-> c.bind, q |-> c.q, at |-> t + ExpectExpires(m, c)]}

\* The operations of a request in order.
Operations(rs, m, t) ==
    LET after[i \in 0..Len(m.contacts)] ==
          IF i = 0 THEN rs ELSE Operation(after[i - 1], m, m.contacts[i], t)
    IN  after[Len(m.contacts)]

\* queryBinding.
Current(rs, t) == {x \in rs : x.at >= t}

--------------------------------------------------------------------------------
(***************************************************************************)
(* issueTransaction.                                                       *)
(***************************************************************************)
Answer(r, status, contacts) ==
    /\ answer' = [answer EXCEPT ![r] = [status |-> status, contacts |-> contacts]]
    /\ pc' = [pc EXCEPT ![r] = "done"]

\* Rollback, or the end of a transaction: the locks are released.
Release(r) ==
    /\ shared' = shared \ {r}
    /\ reserved' = IF reserved = r THEN None ELSE reserved

\* A bug: a statement that fails is tried until it succeeds.
FailRetries(r) == FALSE

\* A statement failed: Rollback, and registration makes a 400 of the error.
Fail(r) ==
    /\ Answer(r, 400, {})
    /\ Release(r)

\* registration: parse, and refuse without touching the database.
Register(r, m) ==
    /\ pc[r] = "idle"
    /\ req' = [req EXCEPT ![r] = m]
    /\ IF FirstRefusal(m) # 0
       THEN Answer(r, FirstRefusal(m), {})
       ELSE pc' = [pc EXCEPT ![r] = "begin"] /\ UNCHANGED answer
    /\ UNCHANGED <<rows, seq, now, work, when, shared, reserved>>

\* len(operations) > 1, the same Call-ID, and a CSeq that is not older than
\* the stored one.
CSeqRefused(m) ==
    seq # None /\ Len(m.contacts) > 0 /\ seq.callId = m.callId /\ seq.cseq <= m.cseq

\* The SELECT on register_seq and the check.  The Scan's error is ignored: a
\* SELECT that meets a commit that waits for its readers skips the check.
CheckSeq(r) ==
    /\ pc[r] = "begin"
    /\ \/ /\ CSeqRefused(req[r])
          /\ Fail(r)
          /\ UNCHANGED work
       \/ /\ ~CSeqRefused(req[r])
          /\ shared' = shared \cup {r}
          /\ work' = [work EXCEPT ![r] = rows]
          /\ pc' = [pc EXCEPT ![r] = "seq"]
          /\ UNCHANGED <<answer, reserved>>
       \/ /\ \E o \in Regs : reserved = o /\ pc[o] = "commit"
          /\ pc' = [pc EXCEPT ![r] = "seq"]
          /\ UNCHANGED <<answer, work, shared, reserved>>
    /\ UNCHANGED <<rows, seq, now, req, when>>

\* The row of register_seq: Call-ID and CSeq.
SeqRow(m) == [callId |-> m.callId, cseq |-> m.cseq]

\* DELETE and INSERT on register_seq: the transaction becomes the one writer,
\* or one of them fails, as it does while there is another writer.
ReplaceSeq(r) ==
    /\ pc[r] = "seq"
    /\ \/ /\ reserved = None
          /\ reserved' = r
          /\ shared' = shared \cup {r}
          /\ work' = [work EXCEPT ![r] = IF r \in shared THEN @ ELSE rows]
          /\ pc' = [pc EXCEPT ![r] = "ops"]
          /\ UNCHANGED answer
       \/ /\ Fail(r)
          /\ UNCHANGED work
    /\ UNCHANGED <<rows, seq, now, req, when>>

\* The loop over the operations; its last one is the query.  Whichever of its
\* statements fails, the rollback takes back what those before it did.
Operate(r) ==
    /\ pc[r] = "ops"
    /\ \/ /\ when' = [when EXCEPT ![r] = now]
          /\ work' = [work EXCEPT ![r] = Operations(@, req[r], now)]
          /\ pc' = [pc EXCEPT ![r] = "commit"]
          /\ UNCHANGED <<answer, shared, reserved>>
       \/ /\ Fail(r)
          /\ UNCHANGED <<when, work>>
    /\ UNCHANGED <<rows, seq, now, req>>

\* A bug: the error of Commit is not looked at.
CommitUnchecked(r) ==
    /\ pc[r] = "commit"
    /\ IF shared \subseteq {r}
       THEN rows' = work[r] /\ seq' = SeqRow(req[r])
       ELSE UNCHANGED <<rows, seq>>
    /\ Answer(r, 200, Current(work[r], when[r]))
    /\ Release(r)
    /\ UNCHANGED <<now, req, work, when>>

\* A bug: a transaction commits while another one reads.
CommitUnlocked(r) ==
    /\ pc[r] = "commit"
    /\ rows' = work[r]
    /\ seq' = SeqRow(req[r])
    /\ Answer(r, 200, Current(work[r], when[r]))
    /\ Release(r)
    /\ UNCHANGED <<now, req, work, when>>

\* Commit, possible once no other transaction reads; it may fail then, too.
Commit(r) ==
    /\ pc[r] = "commit"
    /\ \/ /\ shared \subseteq {r}
          /\ rows' = work[r]
          /\ seq' = SeqRow(req[r])
          /\ Answer(r, 200, Current(work[r], when[r]))
          /\ Release(r)
       \/ /\ Fail(r)
          /\ UNCHANGED <<rows, seq>>
    /\ UNCHANGED <<now, req, work, when>>

Tick ==
    /\ now < MaxTime
    /\ now' = now + 1
    /\ UNCHANGED <<rows, seq, pc, req, work, when, answer, shared, reserved>>

Step(r) == CheckSeq(r) \/ ReplaceSeq(r) \/ Operate(r) \/ Commit(r)

Next ==
    \/ \E r \in Regs, m \in Requests : Register(r, m)
    \/ \E r \in Regs : Step(r)
    \/ Tick

Spec == Init /\ [][Next]_vars

\* Runnable goroutines run.
FairSpec == Spec /\ \A r \in Regs : WF_vars(Step(r))

--------------------------------------------------------------------------------
(***************************************************************************)
(* Properties.                                                             *)
(***************************************************************************)

\* What a transaction has seen of the table stays true until it commits: its
\* operations are applied to the rows that are there when it does, and from its
\* first write on it is the only writer (proxy_registration.go 165-236).
SeesTable(r) ==
    /\ pc[r] = "seq" /\ r \in shared => work[r] = rows
    /\ pc[r] = "ops"    => r \in shared /\ reserved = r /\ work[r] = rows
    /\ pc[r] = "commit" => /\ r \in shared /\ reserved = r
                           /\ work[r] = Operations(rows, req[r], when[r])

TransactionSeesTable == \A r \in Regs : SeesTable(r)

Abstract == INSTANCE Registrar WITH rows <- rows, now <- now, req <- req, answer <- answer

\* The goroutines and the database together are the atomic registrar: a REGISTER
\* that is answered 200 changed the bindings by exactly its operations, applied
\* to the bindings at its commit, and lists them as they are then; any other
\* leaves no trace; nothing is lost to a concurrent one (proxy_registration.go
\* 147-241).
ImplementsRegistrar == Abstract!Spec

\* A contact has one row, however often it is registered again
\* (proxy_registration.go 207-216).
OneRowPerBinding == \A x, y \in rows : x.bind = y.bind => x = y

\* Every REGISTER is answered: two transactions, each with the lock the other
\* needs, never wait for each other for good (proxy_registration.go 179-237).
RegisterIsAnswered == \A r \in Regs : (pc[r] = "begin") ~> (pc[r] = "done")

================================================================================

---------------------------- MODULE ResponseContexts ---------------------------
(***************************************************************************)
(* ResponseCtxs of src/proxy_core.go: which client transactions the proxy  *)
(* opened for a server transaction.  Two maps, stToCt and ctToSt, guarded  *)
(* by one mutex, so that Add and Remove are atomic.  Remove tells its      *)
(* caller whether it took the last client transaction away: that caller,   *)
(* and no other, owes the server transaction an answer.                    *)
(***************************************************************************)
EXTENDS Naturals

CONSTANTS
    StKeys,   \* server transaction keys
    CtKeys,   \* client transaction keys (a fresh branch each)
    NoSt      \* "not found"

ASSUME NoStAssumption == NoSt \notin StKeys

VARIABLES
    entries,   \* server transactions that have an entry in stToCt
    stToCt,    \* the entry of each; empty where there is none
    ctToSt,    \* NoSt where there is no entry
    used,      \* branches generated so far (GenerateBranchParam is random)
    opened,    \* history: times an entry of stToCt was created
    reported   \* history: times Remove returned removeServerTransaction

ctxVars == <<entries, stToCt, ctToSt, used, opened, reported>>

\* The types of the two maps (ResponseCtxs, proxy_core.go 79-83).
CtxTypeOK ==
    /\ entries \subseteq StKeys
    /\ stToCt \in [StKeys -> SUBSET CtKeys]
    /\ ctToSt \in [CtKeys -> StKeys \cup {NoSt}]
    /\ used \subseteq CtKeys
    /\ opened \in [StKeys -> Nat]
    /\ reported \in [StKeys -> Nat]

CtxInit ==
    /\ entries = {}
    /\ stToCt = [st \in StKeys |-> {}]
    /\ ctToSt = [ct \in CtKeys |-> NoSt]
    /\ used = {}
    /\ opened = [st \in StKeys |-> 0]
    /\ reported = [st \in StKeys |-> 0]

\* ResponseCtxs.Add, called once for every new client transaction.
Add(st, ct) ==
    /\ entries' = entries \cup {st}
    /\ stToCt' = [stToCt EXCEPT ![st] = @ \cup {ct}]
    /\ ctToSt' = [ctToSt EXCEPT ![ct] = st]
    /\ used' = used \cup {ct}
    /\ opened' = [opened EXCEPT ![st] = IF st \in entries THEN @ ELSE @ + 1]
    /\ UNCHANGED reported

\* removeServerTransaction, the result of Remove(ct).
LastChild(ct) == ctToSt[ct] # NoSt /\ stToCt[ctToSt[ct]] \ {ct} = {}

\* A bug: the entry of ctToSt stays behind.
RemoveFromParentOnly(ct) ==
    IF ctToSt[ct] = NoSt
    THEN UNCHANGED ctxVars
    ELSE LET st == ctToSt[ct] IN
         /\ stToCt' = [stToCt EXCEPT ![st] = @ \ {ct}]
         /\ entries' = IF LastChild(ct) THEN entries \ {st} ELSE entries
         /\ reported' = [reported EXCEPT ![st] = IF LastChild(ct) THEN @ + 1 ELSE @]
         /\ UNCHANGED <<ctToSt, used, opened>>

\* ResponseCtxs.Remove: not found, or removed from both maps.
Remove(ct) ==
    IF ctToSt[ct] = NoSt
    THEN UNCHANGED ctxVars
    ELSE LET st == ctToSt[ct] IN
         /\ ctToSt' = [ctToSt EXCEPT ![ct] = NoSt]
         /\ stToCt' = [stToCt EXCEPT ![st] = @ \ {ct}]
         /\ entries' = IF LastChild(ct) THEN entries \ {st} ELSE entries
         /\ reported' = [reported EXCEPT ![st] = IF LastChild(ct) THEN @ + 1 ELSE @]
         /\ UNCHANGED <<used, opened>>

CtxNext ==
    \/ \E st \in StKeys, ct \in CtKeys \ used : Add(st, ct)
    \/ \E ct \in CtKeys : Remove(ct)

CtxSpec == CtxInit /\ [][CtxNext]_ctxVars

--------------------------------------------------------------------------------
\* The two maps are inverse to each other and no entry is empty: GetStFromCt
\* and GetCtFromSt agree (proxy_core.go 85-137).
MapsInverse ==
    /\ \A ct \in CtKeys, st \in StKeys : ct \in stToCt[st] <=> ctToSt[ct] = st
    /\ \A st \in StKeys : st \in entries <=> stToCt[st] # {}
    /\ \A ct \in CtKeys : ctToSt[ct] # NoSt => ct \in used

\* However many goroutines race to remove its client transactions, every
\* context that was opened is reported finished exactly once, and never while
\* it is open (proxy_core.go 114-137).
ReportedExactlyOnce ==
    \A st \in StKeys :
        opened[st] = reported[st] + (IF st \in entries THEN 1 ELSE 0)

================================================================================

------------------------------- MODULE PrefixTrie ------------------------------
(***************************************************************************)
(* The routing table of src/proxy_routing.go: a trie of prefixes.  A node  *)
(* is the path that leads to it; parent and children are the shorter and   *)
(* the longer paths.  Add creates the missing nodes on its path; Remove    *)
(* clears a destination and detaches the node if it is a leaf.             *)
(***************************************************************************)
EXTENDS Naturals, Sequences

CONSTANTS
    Digits,   \* runes
    Keys,     \* prefixes that are added, with all their own prefixes
    Queries,  \* numbers that are looked up
    Fwds,     \* destinations
    NoFwd     \* nil

VARIABLES
    nodes,    \* paths of the nodes that hang on the root
    fwd,      \* the fwd field of each
    panic     \* a nil node was dereferenced

vars == <<nodes, fwd, panic>>

\* The first n runes of s.
Take(s, n) == [i \in 1..n |-> s[i]]

ASSUME KeysAssumption ==
    /\ Keys \subseteq Seq(Digits)
    /\ <<>> \in Keys
    /\ \A k \in Keys : \A n \in 0..Len(k) : Take(k, n) \in Keys
ASSUME QueriesAssumption == Queries \subseteq Seq(Digits)
ASSUME FwdsAssumption == NoFwd \notin Fwds

\* The types of the trie (PrefixTrie, proxy_routing.go 25-111).
TypeOK ==
    /\ nodes \subseteq Keys
    /\ fwd \in [Keys -> Fwds \cup {NoFwd}]
    /\ panic \in BOOLEAN

Init ==
    /\ nodes = {<<>>}
    /\ fwd = [k \in Keys |-> NoFwd]
    /\ panic = FALSE

--------------------------------------------------------------------------------
\* search goes down while there is a child.
Walk(s) == {n \in 0..Len(s) : \A m \in 0..n : Take(s, m) \in nodes}

\* SearchToTop goes up while fwd is nil.
Hits(s) == {n \in Walk(s) : fwd[Take(s, n)] # NoFwd}

\* The length of the path of the node that Search returns.
Deepest(s) == CHOOSE n \in Hits(s) : \A m \in Hits(s) : m <= n

\* The destination Search finds.
Search(s) == IF Hits(s) = {} THEN NoFwd ELSE fwd[Take(s, Deepest(s))]

\* A bug: a child that is already there is replaced.
AddFreshPath(k, f) ==
    /\ ~panic
    /\ nodes' = {n \in nodes : ~(Len(n) > 0 /\ Len(k) > 0 /\ n[1] = k[1])}
                  \cup {Take(k, n) : n \in 0..Len(k)}
    /\ fwd' = [fwd EXCEPT ![k] = f]
    /\ UNCHANGED panic

\* Add: the nodes of the path, and the destination.
Add(k, f) ==
    /\ ~panic
    /\ nodes' = nodes \cup {Take(k, n) : n \in 0..Len(k)}
    /\ fwd' = [fwd EXCEPT ![k] = f]
    /\ UNCHANGED panic

\* The node is detached from its parent if it has no children.
Detach(k) ==
    IF \E n \in nodes : Len(n) = Len(k) + 1 /\ Take(n, Len(k)) = k
    THEN nodes
    ELSE nodes \ {k}

\* Remove: search returns nil, or a shorter prefix, or the node of k.  The
\* root has no parent to be detached from.
Remove(k) ==
    /\ ~panic
    /\ \/ /\ Hits(k) = {}
          /\ panic' = TRUE
          /\ UNCHANGED <<nodes, fwd>>
       \/ /\ Hits(k) # {}
          /\ Deepest(k) # Len(k)
          /\ UNCHANGED vars
       \/ /\ Hits(k) # {}
          /\ Deepest(k) = Len(k)
          /\ fwd' = [fwd EXCEPT ![k] = NoFwd]
          /\ IF k = <<>>
             THEN panic' = (Detach(k) # nodes) /\ UNCHANGED nodes
             ELSE nodes' = Detach(k) /\ UNCHANGED panic

Next ==
    \/ \E k \in Keys, f \in Fwds : Add(k, f)
    \/ \E k \in Keys : Remove(k)

Spec == Init /\ [][Next]_vars

--------------------------------------------------------------------------------
\* Every destination can be reached from the root.
Reachable ==
    /\ <<>> \in nodes
    /\ \A k \in nodes : \A n \in 0..Len(k) : Take(k, n) \in nodes
    /\ \A k \in Keys : fwd[k] # NoFwd => k \in nodes

\* The reference: the lengths of the registered prefixes of s, and the
\* destination of the longest one.
Matches(s) == {n \in 0..Len(s) : Take(s, n) \in Keys /\ fwd[Take(s, n)] # NoFwd}

LongestPrefix(s) ==
    IF Matches(s) = {}
    THEN NoFwd
    ELSE fwd[Take(s, CHOOSE n \in Matches(s) : \A m \in Matches(s) : m <= n)]

\* Search returns the destination of the longest registered prefix, whatever
\* was added and removed before (proxy_routing.go 32-95).
SearchIsLongestPrefix == \A s \in Queries : Search(s) = LongestPrefix(s)

================================================================================

--------------------------------- MODULE Routing -------------------------------
(***************************************************************************)
(* Where the proxy sends a request: the file of routes is loaded into the  *)
(* trie (src/proxy_routing.go), and route (src/proxy_request_controller.go)*)
(* prefers the bindings that the registrar has for the request URI.        *)
(*                                                                         *)
(* A row of the file is its number of fields, prefix and destination.  The *)
(* CSV reader of Go is external: it takes the number of fields from the    *)
(* first row and fails on a row with another one.                          *)
(***************************************************************************)
EXTENDS PrefixTrie, FiniteSets

CONSTANTS
    Files,      \* files of routes: sequences of rows
    Bindings,   \* rows of the table register: bind, q, and whether bind is a URI
    NoRoute     \* route found nothing

ASSUME FilesAssumption == Files \subseteq Seq([fields : Nat, prefix : Keys, fwd : Fwds])

\* The registrar lets no negative q into its table.
ASSUME BindingsAssumption ==
    /\ IsFiniteSet(Bindings)
    /\ \A b \in Bindings : b.q \in Nat /\ b.valid \in BOOLEAN

VARIABLES
    file,       \* the file of routes
    line,       \* rows read
    phase,      \* "loading", "ready", "changed" by Add or Remove, "failed"
    binds       \* the bindings of the request URI that have not expired

routing == <<file, line, phase, binds>>

RoutingInit ==
    /\ Init
    /\ file \in Files
    /\ line = 0
    /\ phase = "loading"
    /\ binds = {}

--------------------------------------------------------------------------------
\* reader.Read returns a row that is as long as the first one, otherwise an error.
ReadOK == line < Len(file) /\ file[line + 1].fields = file[1].fields

\* loadTranslater: one row.
LoadRow ==
    /\ phase = "loading" /\ ReadOK
    /\ file[line + 1].fields = 3
    /\ Add(file[line + 1].prefix, file[line + 1].fwd)
    /\ line' = line + 1
    /\ UNCHANGED <<file, phase, binds>>

\* The first error of the reader ends the loop, and the program starts.
LoadEnds ==
    /\ phase = "loading" /\ ~ReadOK
    /\ phase' = "ready"
    /\ UNCHANGED <<vars, file, line, binds>>

\* A row that is no route: main returns.
LoadRefuses ==
    /\ phase = "loading" /\ ReadOK
    /\ file[line + 1].fields # 3
    /\ phase' = "failed"
    /\ UNCHANGED <<vars, file, line, binds>>

\* The operations of the table, later: the file does not count any more.
Change ==
    /\ phase \in {"ready", "changed"} /\ binds = {}
    /\ phase' = "changed"
    /\ Next
    /\ file' = <<>> /\ line' = 0
    /\ UNCHANGED binds

\* External: the registrar changes what is bound.
Rebind ==
    /\ phase = "ready"
    /\ \E b \in SUBSET Bindings : b # binds /\ binds' = b
    /\ UNCHANGED <<vars, file, line, phase>>

RoutingNext == LoadRow \/ LoadEnds \/ LoadRefuses \/ Change \/ Rebind

RoutingSpec == RoutingInit /\ [][RoutingNext]_<<vars, routing>>

--------------------------------------------------------------------------------
(***************************************************************************)
(* route.                                                                  *)
(***************************************************************************)
\* queryBinding: ORDER BY q DESC, in any order where q is the same.
Sorted(bs) ==
    {s \in [1..Cardinality(bs) -> bs] :
        /\ \A i, j \in DOMAIN s : i # j => s[i] # s[j]
        /\ \A i, j \in DOMAIN s : i < j => s[i].q >= s[j].q}

\* A bug: lastQvalue follows rows that are not candidates, too.
StopsAtAny(s, i) == \E j \in 1..(i - 1) : s[j].q > s[i].q

\* The loop stops at a row with a smaller q than the last candidate.
Stops(s, i) == \E j \in 1..(i - 1) : s[j].valid /\ s[j].q > s[i].q

Candidates(s) == {s[i] : i \in {k \in DOMAIN s : s[k].valid /\ \A m \in 1..k : ~Stops(s, m)}}

\* The destinations that route may return for a number.
route(number) ==
    UNION {IF Candidates(s) # {}
           THEN {b.bind : b \in Candidates(s)}
           ELSE {IF Search(number) = NoFwd THEN NoRoute ELSE Search(number)} : s \in Sorted(binds)}

--------------------------------------------------------------------------------
\* The routes of the file: its rows up to the first of another length.
Rows == {i \in DOMAIN file : \A j \in 1..i : file[j].fields = 3}

\* The last row for a prefix of the number counts, the longest prefix first.
Best(number) ==
    {i \in Rows :
        /\ \E n \in 0..Len(number) : file[i].prefix = Take(number, n)
        /\ \A j \in Rows :
             (\E n \in 0..Len(number) : file[j].prefix = Take(number, n))
               => \/ Len(file[j].prefix) < Len(file[i].prefix)
                  \/ Len(file[j].prefix) = Len(file[i].prefix) /\ j <= i}

Usable == {b \in binds : b.valid}

\* A request goes to a binding of the highest q that can be used, and without
\* one to the destination that the file of routes, read from its last row to
\* its first, has for the longest prefix of the number: neither an unreadable
\* binding nor the order of the rows leads it astray (proxy_request_controller.go
\* 399-447, proxy_routing.go 142-159).
RouteFollowsFile ==
    phase = "ready" => \A number \in Queries :
        route(number) =
            IF Usable # {}
            THEN {b.bind : b \in {u \in Usable : \A w \in Usable : w.q <= u.q}}
            ELSE IF Best(number) = {} THEN {NoRoute} ELSE {file[i].fwd : i \in Best(number)}
================================================================================

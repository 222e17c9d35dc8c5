------------------------------- MODULE MCRouting -------------------------------
(***************************************************************************)
(* Model checking of Routing: all prefixes and queries over a few digits,  *)
(* up to a length; all files of two routes, and files with rows of another *)
(* length.                                                                 *)
(***************************************************************************)
EXTENDS Routing

CONSTANTS KeyLen, QueryLen

Words(n)  == UNION {[1..m -> Digits] : m \in 0..n}
MCKeys    == Words(KeyLen)
MCQueries == Words(QueryLen)

Row(n, k, f) == [fields |-> n, prefix |-> k, fwd |-> f]

d == CHOOSE x \in Digits : TRUE
f == CHOOSE x \in Fwds : TRUE
g == CHOOSE x \in Fwds : x # f

MCFiles ==
    {<<Row(3, k, f), Row(3, m, g)>> : k, m \in Keys}
    \cup {<<>>, <<Row(2, <<>>, f), Row(3, <<>>, g)>>,
          <<Row(3, <<d>>, f), Row(3, <<>>, f), Row(2, <<>>, g), Row(3, <<d, d>>, g)>>,
          <<Row(3, <<d>>, f), Row(3, <<d, d>>, g), Row(3, <<d>>, g)>>}

MCBindings ==
    {[bind |-> "a", q |-> 1, valid |-> TRUE], [bind |-> "b", q |-> 1, valid |-> FALSE],
     [bind |-> "c", q |-> 0, valid |-> TRUE], [bind |-> "d", q |-> 0, valid |-> TRUE]}
================================================================================

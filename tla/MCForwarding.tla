------------------------------ MODULE MCForwarding -----------------------------
(***************************************************************************)
(* Model checking of Forwarding: two proxies, each of which sends an       *)
(* INVITE to the callee or, in a circle, to the other.                     *)
(***************************************************************************)
EXTENDS Forwarding, TLC

CONSTANTS p1, p2

MCProxies == {p1, p2}
MCNextHop == (p1 :> {p2, Uas}) @@ (p2 :> {p1, Uas})
================================================================================

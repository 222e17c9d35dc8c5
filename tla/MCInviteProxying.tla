---------------------------- MODULE MCInviteProxying ---------------------------
(***************************************************************************)
(* Model checking of InviteProxying: the scenarios of the runs, and the    *)
(* symmetry of packets and branches.                                       *)
(***************************************************************************)
EXTENDS InviteProxying, TLC

Answers   == [codes |-> {"ringing", "ok", "refused"}, cancels |-> FALSE]
Failures  == [codes |-> {"trying", "fail"}, cancels |-> FALSE]
Cancelled == [codes |-> {"ringing", "ok", "fail"}, cancels |-> TRUE]
Redirect  == [codes |-> {"moved", "fail"}, cancels |-> FALSE]

MCAnswers  == {Answers, Failures}
MCRaces    == {Cancelled, Redirect}
MCTimerC   == {[codes |-> {"ringing", "fail"}, cancels |-> FALSE]}
MCCrossing == {[codes |-> {"ringing", "ok"}, cancels |-> TRUE]}

Symmetry == Permutations(Packets) \cup Permutations(CtKeys)
================================================================================

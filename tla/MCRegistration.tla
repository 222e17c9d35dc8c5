----------------------------- MODULE MCRegistration ----------------------------
(***************************************************************************)
(* Model checking of Registration: the requests.                           *)
(***************************************************************************)
EXTENDS Registration

Contact(star, bind, q, expires) ==
    [star |-> star, bind |-> bind, q |-> q, expires |-> expires]

Request(contacts, expires, callId, cseq) ==
    [contacts |-> contacts, expires |-> expires, callId |-> callId, cseq |-> cseq]

\* Two bindings at once, a refresh that moves one and deletes the other, the
\* deletion of all, a query, and requests that are refused.
MCRequests == {
    Request(<<Contact(FALSE, "a", 0, Absent), Contact(FALSE, "b", 1, 2)>>, Absent, "x", 1),
    Request(<<Contact(FALSE, "a", 1, Absent), Contact(FALSE, "b", 0, 0)>>, 3, "y", 1),
    Request(<<Contact(TRUE, "*", 0, Absent)>>, 0, "x", 2),
    Request(<<>>, Absent, "y", 2),
    Request(<<Contact(FALSE, "a", 0, 1)>>, Absent, "y", 3) }

================================================================================

-------------------------------- MODULE Registrar ------------------------------
(***************************************************************************)
(* What the registrar of src/proxy_registration.go promises to its users:  *)
(* a REGISTER is refused and changes nothing, or all of its operations are *)
(* applied to the bindings in one step and the answer lists the result.    *)
(* How the operations change bindings is a parameter.                      *)
(***************************************************************************)
EXTENDS Integers

CONSTANTS
    Regs,              \* REGISTER requests under way
    Requests,          \* what they may contain
    None,
    Operations(_, _, _),  \* the bindings after a request at a time
    Current(_, _)         \* the bindings that are valid at a time

VARIABLES
    rows,      \* the bindings
    now,
    req,       \* the request of each
    answer     \* its answer, or None

vars == <<rows, now, req, answer>>

Init ==
    /\ rows = {}
    /\ now = 0
    /\ req = [r \in Regs |-> None]
    /\ answer = [r \in Regs |-> None]

Refusal(r, a) == \E status \in {400, 423} : a = [answer EXCEPT ![r] = [status |-> status, contacts |-> {}]]

\* A request arrives; what is wrong with it may be seen at once.
Submit(r, m) ==
    /\ req[r] = None
    /\ req' = [req EXCEPT ![r] = m]
    /\ answer' = answer \/ Refusal(r, answer')
    /\ UNCHANGED <<rows, now>>

Refuse(r) ==
    /\ req[r] # None /\ answer[r] = None
    /\ Refusal(r, answer')
    /\ UNCHANGED <<rows, now, req>>

\* The time of the request is some time before the answer.
Accept(r, t) ==
    /\ req[r] # None /\ answer[r] = None
    /\ rows' = Operations(rows, req[r], t)
    /\ answer' = [answer EXCEPT ![r] = [status |-> 200, contacts |-> Current(rows', t)]]
    /\ UNCHANGED <<now, req>>

Tick == now' = now + 1 /\ UNCHANGED <<rows, req, answer>>

Next ==
    \/ \E r \in Regs : \/ \E m \in Requests : Submit(r, m)
                       \/ Refuse(r)
                       \/ \E t \in 0..now : Accept(r, t)
    \/ Tick

Spec == Init /\ [][Next]_vars
================================================================================

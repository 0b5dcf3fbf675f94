-------------------------- MODULE OrderLifecycle --------------------------
(***************************************************************************)
(* What the gateway promises the clients of the order manager.  A client   *)
(* asks once for each operation on an order: to create it, and to modify   *)
(* or cancel it while it is open.  The gateway answers each request at     *)
(* most once, and the status of an order only goes forward: what is        *)
(* finished stays finished, and as what it was finished.                   *)
(*                                                                         *)
(* Connections, sessions, messages and the exchange are not seen here.     *)
(***************************************************************************)

CONSTANTS Orders, Operations

Actions == Orders \X Operations

VARIABLES
    status,      \* of each order
    requested,   \* actions that clients have asked for
    answers      \* of each action: Responses so far

vars == <<status, requested, answers>>

Finished == {"COMPLETED", "CANCELED", "REJECTED"}

Init ==
    /\ status = [o \in Orders |-> "none"]
    /\ requested = {}
    /\ answers = [a \in Actions |-> 0]

\* One message to the exchange asks for an operation on some orders.
Ask(op, orders) ==
    /\ (orders \X {op}) \intersect requested = {}
    /\ requested' = requested \union (orders \X {op})
    /\ IF op = "create"
       THEN /\ \A o \in orders : status[o] = "none"
            /\ status' = [o \in Orders |-> IF o \in orders THEN "sent" ELSE status[o]]
       ELSE /\ \A o \in orders : status[o] \in {"sent", "WORKING"}
            /\ UNCHANGED status
    /\ UNCHANGED answers

\* How the status of an order may go on.
Forward(old, new) ==
    \/ old = new
    \/ old = "sent" /\ new \in {"WORKING"} \union Finished
    \/ old = "WORKING" /\ new \in Finished

\* The gateway learns of some orders, and answers some requests.
Tell ==
    /\ \E told \in SUBSET requested :
        /\ \A a \in told : answers[a] = 0
        /\ answers' = [a \in Actions |-> IF a \in told THEN 1 ELSE answers[a]]
    /\ status' \in [Orders -> {"none", "sent", "WORKING"} \union Finished]
    /\ \A o \in Orders : Forward(status[o], status'[o])
    /\ UNCHANGED requested

Next ==
    \/ \E op \in Operations, orders \in SUBSET Orders : Ask(op, orders)
    \/ Tell

Spec == Init /\ [][Next]_vars

=============================================================================

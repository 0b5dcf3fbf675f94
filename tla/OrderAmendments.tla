------------------------- MODULE OrderAmendments -------------------------
(***************************************************************************)
(* The amendments of one order.  A ModifyOrder may leave the quantity or   *)
(* the price open (NaN); the request to the exchange always has both, the  *)
(* open one filled in with what the order manager holds, which is what the *)
(* last order update said.  The values are the numbers of the requests     *)
(* that chose them, 0 those of the creation.                               *)
(***************************************************************************)
EXTENDS Integers, Sequences

CONSTANT MaxAmendments   \* bound: requests to modify the order
CONSTANT MaxLost         \* bound: connections lost

ASSUME AmendmentsAssumption == {MaxAmendments, MaxLost} \subseteq Nat

Amendable == {"quantity", "price"}
NaN == -1

VARIABLES
    ready,       \* DropCopy is READY: the open orders were downloaded
    order,       \* the order of the order manager
    working,     \* the order at the exchange
    requested,   \* requests on their way
    updates,     \* updates of the ORDERS channel on their way
    chosen,      \* requests so far
    intended,    \* history: the order if requests had left open what clients did
    overlapped,  \* history: a request was made before the update of the one before it
    losses       \* connections lost so far

amendVars == <<ready, order, working, requested, updates, chosen, intended, overlapped, losses>>

AmendInit ==
    /\ ready = TRUE
    /\ order = [f \in Amendable |-> 0]
    /\ working = [f \in Amendable |-> 0]
    /\ requested = <<>>
    /\ updates = <<>>
    /\ chosen = 0
    /\ intended = [f \in Amendable |-> 0]
    /\ overlapped = FALSE
    /\ losses = 0

-----------------------------------------------------------------------------

NewValuesUnfilled(modify) == modify

NewValuesByQuantity(modify) ==
    [f \in Amendable |-> IF modify["quantity"] = NaN THEN order[f] ELSE modify[f]]

\* new_sz and new_px of batch_amend_orders.
NewValues(modify) ==
    [f \in Amendable |-> IF modify[f] = NaN THEN order[f] ELSE modify[f]]

\* A client modifies the quantity, the price or both.
RequestAmend(fields) ==
    LET modify == [f \in Amendable |-> IF f \in fields THEN chosen + 1 ELSE NaN] IN
    /\ ready
    /\ chosen < MaxAmendments
    /\ chosen' = chosen + 1
    /\ requested' = Append(requested, [modify |-> modify, values |-> NewValues(modify)])
    /\ overlapped' = (overlapped \/ requested # <<>> \/ updates # <<>>)
    /\ UNCHANGED <<ready, order, working, updates, intended, losses>>

\* The exchange amends the order and says so on the ORDERS channel.
Amend ==
    /\ requested # <<>>
    /\ working' = Head(requested).values
    /\ intended' =
        [f \in Amendable |->
            IF Head(requested).modify[f] = NaN THEN intended[f] ELSE Head(requested).modify[f]]
    /\ updates' = Append(updates, working')
    /\ requested' = Tail(requested)
    /\ UNCHANGED <<ready, order, chosen, overlapped, losses>>

\* The exchange refuses the amendment.
RefuseAmend ==
    /\ requested # <<>>
    /\ requested' = Tail(requested)
    /\ UNCHANGED <<ready, order, working, updates, chosen, intended, overlapped, losses>>

\* The order update has the quantity and the price of the exchange.
OrdersUpdate ==
    /\ updates # <<>>
    /\ order' = Head(updates)
    /\ updates' = Tail(updates)
    /\ UNCHANGED <<ready, working, requested, chosen, intended, overlapped, losses>>

\* The websocket is lost; requests that arrived may have been served.
ConnectionLost ==
    /\ losses < MaxLost
    /\ ready' = FALSE
    /\ requested' = <<>>
    /\ updates' = <<>>
    /\ losses' = losses + 1
    /\ UNCHANGED <<order, working, chosen, intended, overlapped>>

\* The next session has downloaded the open orders.
OpenOrders ==
    /\ ~ready
    /\ ready' = TRUE
    /\ order' = working
    /\ UNCHANGED <<working, requested, updates, chosen, intended, overlapped, losses>>

AmendNext ==
    \/ \E fields \in (SUBSET Amendable) \ {{}} : RequestAmend(fields)
    \/ Amend
    \/ RefuseAmend
    \/ OrdersUpdate
    \/ ConnectionLost
    \/ OpenOrders

AmendSpec == AmendInit /\ [][AmendNext]_amendVars

-----------------------------------------------------------------------------
(* Properties. *)

\* Type invariant: the exchange is always asked for numbers.
AmendTypeOK ==
    /\ ready \in BOOLEAN
    /\ overlapped \in BOOLEAN
    /\ order \in [Amendable -> Nat]
    /\ working \in [Amendable -> Nat]
    /\ intended \in [Amendable -> Nat]
    /\ requested \in Seq([modify : [Amendable -> Nat \union {NaN}], values : [Amendable -> Nat]])
    /\ updates \in Seq([Amendable -> Nat])
    /\ chosen \in 0 .. MaxAmendments
    /\ losses \in 0 .. MaxLost

\* A request changes what the client asked for and nothing else, over refused requests
\* and lost connections, as long as each is made after the update of the one before it:
\* otherwise it undoes that one, because it is filled in with what was before it.
OnlyWhatIsAsked ==
    ~overlapped => working = intended

=============================================================================

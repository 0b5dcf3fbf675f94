---------------------------- MODULE OrderFlow ----------------------------
(***************************************************************************)
(* How order actions and what becomes of orders pass through the gateway.  *)
(* DropCopy sends create, modify, cancel and cancel-all requests over the  *)
(* private websocket and turns acknowledgements and the messages of the    *)
(* orders channel into Responses and OrderUpdates for the order manager;   *)
(* after a lost connection it subscribes the channel again and OrderEntry  *)
(* then asks for the open orders over HTTP, whose answer may overtake the  *)
(* messages of the channel or be overtaken by them.                        *)
(*                                                                         *)
(* The exchange is modelled with the program: it takes the requests of a   *)
(* connection in order and may refuse any of them.  The stages of the      *)
(* download that are not about orders are left to AccountDownload.         *)
(***************************************************************************)
EXTENDS Integers, SequencesExt

CONSTANTS
    Orders,          \* the orders clients may create
    MaxRequests,     \* bound: no more requests when so many were made of orders
    MaxDisconnects   \* bound: websocket connections lost

ASSUME OrdersAssumption == IsFiniteSet(Orders)
ASSUME RequestsAssumption == MaxRequests \in Nat /\ MaxDisconnects \in Nat

Operations == {"create", "modify", "cancel", "cancel all"}

\* Every order has each operation asked for once at most.
Actions == Orders \X Operations

VARIABLES
    stage,       \* DropCopy: off, on (logged in), subscribing (its ORDERS channel),
                 \* snapshot (waits for the open orders) or ready
    asked,       \* Request::open_orders was requested and not sent
    http,        \* its HTTP request: none, sent, or taken (by the exchange)
    snapshot,    \* what the exchange has put in the answer
    response,    \* has_response() of it
    obtained,    \* history: the open orders of this session were obtained
    exchange,    \* of each order: its state at the exchange
    amending,    \* orders whose amendment was accepted and is not done
    subscribed,  \* the exchange sends the ORDERS channel
    up,          \* requests on their way to the exchange
    down,        \* messages on their way to DropCopy
    status,      \* of each order: its status in the order manager
    external,    \* orders whose external_order_id the order manager has
    requested,   \* history: what was asked of which order
    lost,        \* history: of these, those whose messages were lost
    result,      \* history: what the exchange made of them
    answers,     \* history: Responses to them
    verdict,     \* history: the request_status of the last one
    here,        \* history: orders that finished while subscribed was TRUE
    disconnects  \* connections lost so far

vars == <<stage, asked, http, snapshot, response, obtained, exchange, amending,
          subscribed, up, down, status, external, requested, lost, result,
          answers, verdict, here, disconnects>>

downloadVars == <<asked, http, snapshot, response, obtained>>
exchangeVars == <<exchange, amending, subscribed, result, here>>
managerVars == <<status, external, answers, verdict>>

Init ==
    /\ stage = "off"
    /\ asked = FALSE
    /\ http = "none"
    /\ snapshot = [o \in Orders |-> "none"]
    /\ response = FALSE
    /\ obtained = FALSE
    /\ exchange = [o \in Orders |-> "none"]
    /\ amending = {}
    /\ subscribed = FALSE
    /\ up = <<>>
    /\ down = <<>>
    /\ status = [o \in Orders |-> "none"]
    /\ external = {}
    /\ requested = {}
    /\ lost = {}
    /\ result = [a \in Actions |-> "none"]
    /\ answers = [a \in Actions |-> 0]
    /\ verdict = [a \in Actions |-> "none"]
    /\ here = {}
    /\ disconnects = 0

-----------------------------------------------------------------------------
(* The order manager: orders it knows, and what it makes of an OrderUpdate. *)

Open == {o \in Orders : status[o] \in {"sent", "WORKING"}}

\* map.cpp: a state of the exchange as an OrderStatus.  Partially filled, which is WORKING
\* like live, is left out with the quantities.
OrderStatusVerbatim(state) == state

OrderStatus(state) ==
    CASE state = "live" -> "WORKING"
      [] state = "filled" -> "COMPLETED"
      [] state = "canceled" -> "CANCELED"

Rank(s) == CASE s \in {"none", "sent"} -> 0 [] s = "WORKING" -> 1 [] OTHER -> 2

UpdatedAlways(old, new) == new

\* Updates of an order that are older than its last one are ignored.
Updated(old, new) == IF Rank(new) >= Rank(old) THEN new ELSE old

-----------------------------------------------------------------------------
(* DropCopy sends requests. *)

\* The message of a request for some orders, in one batch.
Submit(op, orders) ==
    /\ stage # "off"
    /\ Cardinality(requested) < MaxRequests
    /\ orders \X {op} \intersect requested = {}
    /\ requested' = requested \union (orders \X {op})
    /\ up' = Append(up, [op |-> op, orders |-> orders])
    /\ UNCHANGED <<stage, downloadVars, exchangeVars, down, external, answers,
                   verdict, lost, disconnects>>

CreateOrder(o) ==
    /\ status[o] = "none"
    /\ status' = [status EXCEPT ![o] = "sent"]
    /\ Submit("create", {o})

\* An order is named by its external_order_id, or its client_order_id without one.
ModifyOrder(o) ==
    /\ o \in Open
    /\ Submit("modify", {o})
    /\ UNCHANGED status

CancelOrder(o) ==
    /\ o \in Open
    /\ Submit("cancel", {o})
    /\ UNCHANGED status

\* Orders without an external_order_id are skipped; nothing is sent when none is left.
CancelAllOrders ==
    /\ Open \intersect external # {}
    /\ Submit("cancel all", Open \intersect external)
    /\ UNCHANGED status

-----------------------------------------------------------------------------
(* The exchange. *)

Ack(m, refused, data) ==
    [kind |-> "ack", op |-> m.op, orders |-> m.orders, refused |-> refused, data |-> data]

Push(o, state, amend) ==
    [kind |-> "push", order |-> o, state |-> state, amend |-> amend]

\* What the ORDERS channel may send when some orders get a state: their messages in
\* some order.
Pushes(orders, state) ==
    IF subscribed THEN SetToSeqs({Push(o, state, "none") : o \in orders}) ELSE {<<>>}

Request == Head(up)

\* The answer to the request comes before or after what the channel sends of it.
Reply(refused, pushes) ==
    /\ up' = Tail(up)
    /\ LET ack == <<Ack(Request, refused, TRUE)>> IN
        \E messages \in pushes :
            down' \in {down \o ack \o messages, down \o messages \o ack}
    /\ result' = [a \in Actions |->
            IF a \notin Request.orders \X {Request.op} THEN result[a]
            ELSE IF a[1] \in refused THEN "refused" ELSE "accepted"]

exchangeUnchanged ==
    UNCHANGED <<stage, downloadVars, managerVars, requested, lost, disconnects>>

TakeSubscribe ==
    /\ up # <<>> /\ Request.op = "subscribe"
    /\ up' = Tail(up)
    /\ subscribed' = TRUE
    /\ down' = Append(down, [kind |-> "subscribed"])
    /\ UNCHANGED <<exchange, amending, result, here>>
    /\ exchangeUnchanged

TakeCreate ==
    /\ up # <<>> /\ Request.op = "create"
    /\ exchange' = [o \in Orders |-> IF o \in Request.orders THEN "live" ELSE exchange[o]]
    /\ Reply({}, Pushes(Request.orders, "live"))
    /\ UNCHANGED <<amending, subscribed, here>>
    /\ exchangeUnchanged

TakeModify ==
    /\ up # <<>> /\ Request.op = "modify"
    /\ \A o \in Request.orders : exchange[o] = "live"
    /\ amending' = amending \union Request.orders
    /\ Reply({}, {<<>>})
    /\ UNCHANGED <<exchange, subscribed, here>>
    /\ exchangeUnchanged

\* Of a batch, the live orders are cancelled and the others refused.
TakeCancel ==
    /\ up # <<>> /\ Request.op \in {"cancel", "cancel all"}
    /\ LET live == {o \in Request.orders : exchange[o] = "live"} IN
        /\ exchange' = [o \in Orders |-> IF o \in live THEN "canceled" ELSE exchange[o]]
        /\ Reply(Request.orders \ live, Pushes(live, "canceled"))
        /\ here' = IF subscribed THEN here \union live ELSE here
    /\ UNCHANGED <<amending, subscribed>>
    /\ exchangeUnchanged

Refuse ==
    /\ up # <<>> /\ Request.op # "subscribe"
    /\ Reply(Request.orders, {<<>>})
    /\ UNCHANGED <<exchange, amending, subscribed, here>>
    /\ exchangeUnchanged

\* The API key may not trade: the answer has a code and no data.
Forbid ==
    /\ up # <<>> /\ Request.op # "subscribe"
    /\ up' = Tail(up)
    /\ down' = Append(down, Ack(Request, Request.orders, FALSE))
    /\ result' = [a \in Actions |->
            IF a \in Request.orders \X {Request.op} THEN "forbidden" ELSE result[a]]
    /\ UNCHANGED <<exchange, amending, subscribed, here>>
    /\ exchangeUnchanged

Fill(o) ==
    /\ exchange[o] = "live"
    /\ exchange' = [exchange EXCEPT ![o] = "filled"]
    /\ \E messages \in Pushes({o}, "filled") : down' = down \o messages
    /\ here' = IF subscribed THEN here \union {o} ELSE here
    /\ UNCHANGED <<amending, subscribed, result, up>>
    /\ exchangeUnchanged

\* An accepted amendment is done, or fails after all; the ORDERS channel says which.
Amended(o, amend) ==
    /\ o \in amending
    /\ amend = "done" => exchange[o] = "live"
    /\ amending' = amending \ {o}
    /\ down' = IF subscribed THEN Append(down, Push(o, exchange[o], amend)) ELSE down
    /\ result' = IF amend = "done" THEN result
                 ELSE [result EXCEPT ![<<o, "modify">>] = "refused"]
    /\ lost' = IF subscribed THEN lost ELSE lost \union {<<o, "modify">>}
    /\ UNCHANGED <<stage, downloadVars, exchange, subscribed, here, up, managerVars,
                   requested, disconnects>>

-----------------------------------------------------------------------------
(* The stages of DropCopy's download that are about orders. *)

StagesSnapshotFirst == <<"on", "snapshot", "subscribing", "ready">>

Stages == <<"on", "subscribing", "snapshot", "ready">>

StageAfter(s) == Stages[1 + CHOOSE n \in DOMAIN Stages : Stages[n] = s]

\* SUBSCRIBE_ORDERS subscribes the channel, GET_OPEN_ORDERS makes the request.
Enter(s) ==
    /\ stage' = s
    /\ up' = IF s = "subscribing" THEN Append(up, [op |-> "subscribe", orders |-> {}]) ELSE up
    /\ asked' = (asked \/ s = "snapshot")
    /\ response' = (response /\ s # "snapshot")
    /\ obtained' = (obtained /\ s # "snapshot")
    /\ UNCHANGED <<http, snapshot>>

-----------------------------------------------------------------------------
(* DropCopy receives.  A Response answers an action of an order. *)

Respond(actions, requestStatus) ==
    /\ answers' = [a \in Actions |-> answers[a] + IF a \in actions THEN 1 ELSE 0]
    /\ verdict' = [a \in Actions |-> IF a \in actions THEN requestStatus ELSE verdict[a]]

\* The status of all the items of an acknowledgement comes from the code of the batch.
RequestStatusOfItems(m) == IF m.data /\ m.refused # {} THEN "REJECTED" ELSE "ACCEPTED"

RequestStatus(m) == IF m.refused # {} THEN "REJECTED" ELSE "ACCEPTED"

\* The orders an acknowledgement makes Responses for: every order for a create request,
\* even without data; what was refused for an amendment, the rest being left to the
\* ORDERS channel; every item for a cancellation.
AcknowledgedEveryAmendment(m) ==
    IF m.data \/ m.op = "create" THEN m.orders ELSE {}

AcknowledgedWithData(m) ==
    CASE ~m.data -> {}
      [] m.op = "modify" -> m.refused
      [] OTHER -> m.orders

Acknowledged(m) ==
    CASE m.op = "create" -> m.orders
      [] m.op = "modify" -> IF m.data THEN m.refused ELSE {}
      [] OTHER -> IF m.data THEN m.orders ELSE {}

ReceiveAck(m) ==
    /\ Respond(Acknowledged(m) \X {m.op}, RequestStatus(m))
    /\ external' = external \union (Acknowledged(m) \ m.refused)
    /\ status' = [o \in Orders |->
            IF m.op = "create" /\ o \in Acknowledged(m) /\ RequestStatus(m) = "REJECTED"
            THEN Updated(status[o], "REJECTED")
            ELSE status[o]]
    /\ UNCHANGED <<stage, downloadVars, up>>

ReceivePush(m) ==
    /\ Respond(IF m.amend = "failed" THEN {<<m.order, "modify">>} ELSE {}, "REJECTED")
    /\ external' = external \union {m.order}
    /\ status' = [status EXCEPT ![m.order] = Updated(@, OrderStatus(m.state))]
    /\ UNCHANGED <<stage, downloadVars, up>>

ReceiveSubscribed ==
    /\ stage = "subscribing"
    /\ Enter(StageAfter(stage))
    /\ UNCHANGED managerVars

Receive ==
    /\ down # <<>>
    /\ down' = Tail(down)
    /\ LET m == Head(down) IN
        \/ m.kind = "ack" /\ ReceiveAck(m)
        \/ m.kind = "push" /\ ReceivePush(m)
        \/ m.kind = "subscribed" /\ ReceiveSubscribed
    /\ UNCHANGED <<exchangeVars, requested, lost, disconnects>>

\* The stages before SUBSCRIBE_ORDERS are passed.
Downloaded ==
    /\ stage = "on"
    /\ Enter(StageAfter(stage))
    /\ UNCHANGED <<exchangeVars, down, managerVars, requested, lost, disconnects>>

\* check_request_queue: the open orders were answered.
DropCopyTimer ==
    /\ stage = "snapshot"
    /\ response
    /\ Enter(StageAfter(stage))
    /\ UNCHANGED <<exchangeVars, down, managerVars, requested, lost, disconnects>>

LoggedIn ==
    /\ stage = "off"
    /\ stage' = "on"
    /\ UNCHANGED <<downloadVars, exchangeVars, up, down, managerVars, requested, lost, disconnects>>

\* The connection is lost with everything on its way.
Disconnected ==
    /\ stage # "off"
    /\ disconnects < MaxDisconnects
    /\ stage' = "off"
    /\ subscribed' = FALSE
    /\ up' = <<>>
    /\ down' = <<>>
    /\ here' = {}
    /\ lost' = lost \union {a \in requested : answers[a] = 0}
    /\ disconnects' = disconnects + 1
    /\ UNCHANGED <<downloadVars, exchange, amending, result, managerVars, requested>>

-----------------------------------------------------------------------------
(* OrderEntry obtains the open orders.  Its HTTP requests outlive the websocket. *)

othersUnchanged ==
    UNCHANGED <<stage, exchangeVars, up, down, external, answers, verdict, requested, lost, disconnects>>

GetOpenOrders ==
    /\ asked /\ http = "none"
    /\ asked' = FALSE
    /\ http' = "sent"
    /\ UNCHANGED <<snapshot, response, obtained, status>>
    /\ othersUnchanged

TakeOpenOrders ==
    /\ http = "sent"
    /\ http' = "taken"
    /\ snapshot' = exchange
    /\ UNCHANGED <<asked, response, obtained, status>>
    /\ othersUnchanged

\* The request is committed whether it was answered or not; an answer to an earlier
\* session's request is no response to a later one.
Commit(success) ==
    /\ http' = "none"
    /\ response' = (response \/ ~asked)
    /\ obtained' = (obtained \/ (success /\ ~asked))
    /\ snapshot' = [o \in Orders |-> "none"]
    /\ UNCHANGED asked

OpenOrdersAck ==
    /\ http = "taken"
    /\ status' = [o \in Orders |->
            IF snapshot[o] = "live" THEN Updated(status[o], OrderStatus("live")) ELSE status[o]]
    /\ external' = external \union {o \in Orders : snapshot[o] = "live"}
    /\ Commit(TRUE)
    /\ UNCHANGED <<stage, exchangeVars, up, down, answers, verdict, requested, lost, disconnects>>

OpenOrdersError ==
    /\ http # "none"
    /\ Commit(FALSE)
    /\ UNCHANGED status
    /\ othersUnchanged

-----------------------------------------------------------------------------

Next ==
    \/ \E o \in Orders :
        CreateOrder(o) \/ ModifyOrder(o) \/ CancelOrder(o) \/ Fill(o)
    \/ CancelAllOrders
    \/ TakeSubscribe \/ TakeCreate \/ TakeModify \/ TakeCancel \/ Refuse \/ Forbid
    \/ \E o \in Orders, amend \in {"done", "failed"} : Amended(o, amend)
    \/ Receive
    \/ LoggedIn \/ Downloaded \/ DropCopyTimer \/ Disconnected
    \/ GetOpenOrders \/ TakeOpenOrders \/ OpenOrdersAck \/ OpenOrdersError

Spec == Init /\ [][Next]_vars

-----------------------------------------------------------------------------
(* Properties. *)

RequestMessage == [op : Operations \union {"subscribe"}, orders : SUBSET Orders]

ExchangeStates == {"none", "live", "filled", "canceled"}

ExchangeMessage ==
    [kind : {"ack"}, op : Operations, orders : SUBSET Orders, refused : SUBSET Orders, data : BOOLEAN]
    \union [kind : {"push"}, order : Orders, state : ExchangeStates, amend : {"none", "done", "failed"}]
    \union [kind : {"subscribed"}]

\* Type invariant of DropCopy, of OrderEntry's request, of the exchange and of what is
\* on its way.
TypeOK ==
    /\ stage \in {"off", "on", "subscribing", "snapshot", "ready"}
    /\ asked \in BOOLEAN
    /\ response \in BOOLEAN
    /\ obtained \in BOOLEAN
    /\ subscribed \in BOOLEAN
    /\ http \in {"none", "sent", "taken"}
    /\ snapshot \in [Orders -> ExchangeStates]
    /\ exchange \in [Orders -> ExchangeStates]
    /\ amending \subseteq Orders
    /\ up \in Seq(RequestMessage)
    /\ down \in Seq(ExchangeMessage)
    /\ status \in [Orders -> {"none", "sent", "WORKING", "COMPLETED", "CANCELED", "REJECTED"}]
    /\ external \subseteq Orders
    /\ requested \subseteq Actions
    /\ lost \subseteq requested
    /\ result \in [Actions -> {"none", "accepted", "refused", "forbidden"}]
    /\ answers \in [Actions -> Nat]
    /\ verdict \in [Actions -> {"none", "ACCEPTED", "REJECTED"}]
    /\ here \subseteq Orders
    /\ disconnects \in Nat

\* Nothing is on its way.
Quiet == up = <<>> /\ down = <<>>

\* When the stream is READY, has obtained the open orders and has received everything,
\* the order manager has every live order working and every order that finished on
\* this subscription finished the same way: the channel is subscribed before the open
\* orders are asked for, so nothing falls between the two, however late the answer.
InSync ==
    stage = "ready" /\ obtained /\ Quiet =>
        \A o \in Orders :
            /\ exchange[o] = "live" => status[o] = "WORKING"
            /\ o \in here => status[o] = OrderStatus(exchange[o])

\* When everything was received, every create and cancel request whose messages were
\* not lost has its Response, and so has every amendment that was refused; only a
\* create request has one when the key may not trade (CHANGELOG.md, #631).
AllAnswered ==
    Quiet => \A a \in requested \ lost :
        \/ answers[a] = 1
        \/ a[2] = "modify" /\ result[a] = "accepted"
        \/ a[2] # "create" /\ result[a] = "forbidden"

\* A Response tells what the exchange did, except that all the cancellations of a batch
\* are rejected when one of them is.
Truthful ==
    \A a \in Actions :
        /\ verdict[a] = "ACCEPTED" => result[a] = "accepted"
        /\ verdict[a] = "REJECTED" =>
            \/ result[a] \in {"refused", "forbidden"}
            \/ a[2] = "cancel all" /\ \E o \in Orders : result[<<o, "cancel all">>] = "refused"

\* The gateway keeps what OrderLifecycle promises: over acknowledgements, order updates and
\* snapshots that overtake one another, also those of an earlier session, an order that is
\* finished stays so, and no request is answered twice: an amendment that fails late is not
\* answered by its acknowledgement too.
Lifecycle == INSTANCE OrderLifecycle
LifecycleSpec == Lifecycle!Spec

\* index.rst, Comments: CancelAllOrders is "implemented by sending batch cancel
\* requests for all known non-finished orders".
CancelsEveryOrder ==
    [][CancelAllOrders => \A o \in Open : <<o, "cancel all">> \in requested']_vars

=============================================================================

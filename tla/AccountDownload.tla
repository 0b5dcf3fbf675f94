------------------------- MODULE AccountDownload -------------------------
(***************************************************************************)
(* How the gateway brings one account up to date after its private         *)
(* websocket connects: DropCopy logs in and walks through the stages of    *)
(* its download, OrderEntry sends the HTTP requests those stages ask for,  *)
(* and the account's Request group is the mailbox between the two.  Both   *)
(* connections may be lost at any moment, independently of each other, and *)
(* neither a lost websocket nor a lost HTTP connection empties the mailbox.*)
(*                                                                         *)
(* Everything runs on one event loop: an action is one callback, or what   *)
(* one stream does in one Timer.  core::Download2, core::limit::Request,   *)
(* the two connections and the order manager are libraries; the README     *)
(* says what is assumed of them.                                           *)
(***************************************************************************)
EXTENDS Integers, FiniteSets

CONSTANTS
    Orders,          \* the orders of the account the order manager starts with
    TradesLookback,  \* download.trades_lookback is not zero
    RetryLogon,      \* experimental.retry_logon
    Asserts,         \* assert() is compiled in
    MaxDisconnects   \* bound: connections lost, over both connections

ASSUME OrdersAssumption == IsFiniteSet(Orders)
ASSUME FlagsAssumption == {TradesLookback, RetryLogon, Asserts} \subseteq BOOLEAN
ASSUME BoundAssumption == MaxDisconnects \in Nat

(***************************************************************************)
(* DropCopy::State.  A request of the Request group has the name of the    *)
(* stage that waits for it; the order of these numbers is also the order   *)
(* in which OrderEntry looks at the group.                                 *)
(***************************************************************************)
UNDEFINED == 0
SUBSCRIBE_ACCOUNT == 1
GET_ACCOUNT == 2
SUBSCRIBE_BALANCE == 3
GET_BALANCES == 4
SUBSCRIBE_POSITIONS == 5
GET_POSITIONS == 6
SUBSCRIBE_ORDERS == 7
GET_OPEN_ORDERS == 8
GET_STALE_ORDERS == 9
GET_TRADES == 10
DONE == 11

State == UNDEFINED .. DONE
Channels == {SUBSCRIBE_ACCOUNT, SUBSCRIBE_BALANCE, SUBSCRIBE_POSITIONS, SUBSCRIBE_ORDERS}
Requests == {GET_ACCOUNT, GET_BALANCES, GET_POSITIONS, GET_OPEN_ORDERS, GET_STALE_ORDERS, GET_TRADES}

\* The requests no session may do without.
Required == {GET_ACCOUNT, GET_BALANCES, GET_POSITIONS, GET_OPEN_ORDERS}
                \union (IF TradesLookback THEN {GET_TRADES} ELSE {})

VARIABLES
    process,     \* "running", or why the process has stopped
    status,      \* DropCopy::connection_status_
    state,       \* DropCopy::download_.state()
    awaiting,    \* channels subscribed on this websocket and not acknowledged
    rest,        \* OrderEntry::ready()
    pending,     \* requests asked for and not sent
    inflight,    \* requests sent and not committed
    response,    \* requests whose has_response() holds
    details,     \* Request::details_stale_orders
    counter,     \* OrderEntry::download_stale_orders_counter_
    unanswered,  \* HTTP requests OrderEntry has no answer to yet, of each kind
    oms,         \* orders find_order() finds
    fresh,       \* history: requests sent while this session waited for them
    disconnects  \* connections lost so far

vars == <<process, status, state, awaiting, rest, pending, inflight, response,
          details, counter, unanswered, oms, fresh, disconnects>>

dropCopyVars == <<status, state, awaiting>>
requestVars == <<pending, response>>
orderEntryVars == <<inflight, counter, unanswered>>

Init ==
    /\ process = "running"
    /\ status = "DISCONNECTED"
    /\ state = UNDEFINED
    /\ awaiting = {}
    /\ rest = FALSE
    /\ pending = {}
    /\ inflight = {}
    /\ response = {}
    /\ details = {}
    /\ counter = 0
    /\ unanswered = [k \in Requests |-> 0]
    /\ oms = Orders
    /\ fresh = {}
    /\ disconnects = 0

Stop(reason) ==
    /\ process' = reason
    /\ UNCHANGED <<status, state, awaiting, rest, pending, inflight, response,
                   details, counter, unanswered, oms, fresh, disconnects>>

-----------------------------------------------------------------------------
(* core::limit::Request: request() withdraws the answer to an earlier request; *)
(* commit() ends the one in flight, and what it answers counts unless the      *)
(* request was made again meanwhile.                                           *)

Request(k) ==
    /\ pending' = pending \union {k}
    /\ response' = response \ {k}

Commit(k) ==
    /\ inflight' = inflight \ {k}
    /\ response' = IF k \in pending THEN response ELSE response \union {k}

\* Request::ready(): a request of the group is sent only when no other is in flight.
GroupReadyIgnoresStale(i) == i \ {GET_STALE_ORDERS} = {}

GroupReady(i) == i = {}

-----------------------------------------------------------------------------
(* DropCopy::download.  GET_STALE_ORDERS is skipped when no order is stale  *)
(* and GET_TRADES when there is no lookback; DONE publishes READY.          *)

Skipped(s, stale) ==
    \/ s = GET_STALE_ORDERS /\ stale = {}
    \/ s = GET_TRADES /\ ~TradesLookback

EnterAwaitsEveryStage(s, acked) ==
    /\ state' = s
    /\ status' = IF s = DONE THEN "READY" ELSE "DOWNLOADING"
    /\ awaiting' = (awaiting \ acked) \union {s}
    /\ IF s \in Requests THEN Request(s) ELSE UNCHANGED requestVars

Enter(s, acked) ==
    /\ state' = s
    /\ status' = IF s = DONE THEN "READY" ELSE "DOWNLOADING"
    /\ awaiting' = (awaiting \ acked) \union (Channels \intersect {s})
    /\ IF s \in Requests THEN Request(s) ELSE UNCHANGED requestVars

\* core::Download2: the next stage that is not skipped.
Proceed(acked, stale) ==
    \E s \in State :
        /\ s > state
        /\ ~Skipped(s, stale)
        /\ \A t \in State : state < t /\ t < s => Skipped(t, stale)
        /\ Enter(s, acked)

\* A websocket that has become Ready: the login is sent.
WebsocketReady ==
    /\ process = "running"
    /\ status = "DISCONNECTED"
    /\ status' = "LOGIN_SENT"
    /\ UNCHANGED <<process, state, awaiting, rest, requestVars, orderEntryVars,
                   details, oms, fresh, disconnects>>

\* The exchange accepted the login: download_.begin().
Login ==
    /\ process = "running"
    /\ status = "LOGIN_SENT"
    /\ Proceed({}, details)
    /\ UNCHANGED <<process, rest, orderEntryVars, details, oms, fresh, disconnects>>

\* The exchange acknowledged a subscription: download_.check() of its stage.
Subscribed(channel) ==
    /\ process = "running"
    /\ channel \in awaiting
    /\ IF state = channel
       THEN /\ Proceed({channel}, details)
            /\ UNCHANGED <<process, rest, orderEntryVars, details, oms, fresh, disconnects>>
       ELSE Stop("fatal: check")

\* The websocket is lost; the Request group keeps what it holds.
LoseWebsocket ==
    /\ status' = "DISCONNECTED"
    /\ state' = UNDEFINED
    /\ awaiting' = {}
    /\ fresh' = {}
    /\ disconnects' = disconnects + 1
    /\ UNCHANGED <<process, rest, requestVars, orderEntryVars, details, oms>>

WebsocketDisconnected ==
    /\ process = "running"
    /\ status # "DISCONNECTED"
    /\ disconnects < MaxDisconnects
    /\ LoseWebsocket

\* An error message, on a rejected login for instance, ends the session or the process.
Error ==
    /\ process = "running"
    /\ status # "DISCONNECTED"
    /\ disconnects < MaxDisconnects
    /\ IF RetryLogon THEN LoseWebsocket ELSE Stop("error")

-----------------------------------------------------------------------------
(* DropCopy's part of a Timer, check_request_queue, while its websocket is up. *)

CheckAfterDownload ==
    /\ state = GET_OPEN_ORDERS
    /\ GET_OPEN_ORDERS \in response
    /\ \E stale \in SUBSET oms : details' = details \union stale
    /\ Proceed({}, details)
    /\ UNCHANGED process

\* get_all_stale_orders reports any of the orders the manager knows.
CheckOpenOrders ==
    /\ state = GET_OPEN_ORDERS
    /\ GET_OPEN_ORDERS \in response
    /\ \E stale \in SUBSET oms :
        /\ details' = details \union stale
        /\ Proceed({}, details')
    /\ UNCHANGED process

CheckStaleOrders ==
    /\ state = GET_STALE_ORDERS
    /\ GET_STALE_ORDERS \in response
    /\ IF details # {}
       THEN /\ process' = "fatal: stale orders"
            /\ UNCHANGED <<dropCopyVars, requestVars>>
       ELSE /\ Proceed({}, details)
            /\ UNCHANGED process
    /\ UNCHANGED details

CheckDownloadUnanswered ==
    /\ state \in Requests \ {GET_OPEN_ORDERS, GET_STALE_ORDERS}
    /\ Proceed({}, details)
    /\ UNCHANGED <<process, details>>

CheckDownload ==
    /\ state \in Requests \ {GET_OPEN_ORDERS, GET_STALE_ORDERS}
    /\ state \in response
    /\ Proceed({}, details)
    /\ UNCHANGED <<process, details>>

\* Before the login is answered the stage is UNDEFINED, which the code asserts against.
CheckUndefined ==
    /\ state = UNDEFINED
    /\ Asserts
    /\ process' = "assert"
    /\ UNCHANGED <<dropCopyVars, requestVars, details>>

DropCopyTimer ==
    /\ process = "running"
    /\ status # "DISCONNECTED"
    /\ CheckUndefined \/ CheckDownload \/ CheckOpenOrders \/ CheckStaleOrders
    /\ UNCHANGED <<rest, orderEntryVars, oms, fresh, disconnects>>

-----------------------------------------------------------------------------
(* OrderEntry. *)

QueryStaleOrdersAgain ==
    LET found == Cardinality(details \intersect oms) IN
    /\ counter' = counter + found
    /\ unanswered' = [unanswered EXCEPT ![GET_STALE_ORDERS] = @ + found]
    /\ UNCHANGED details

\* Every stale order the order manager still knows is queried; all are forgotten.
QueryStaleOrders ==
    LET found == Cardinality(details \intersect oms) IN
    /\ counter' = counter + found
    /\ unanswered' = [unanswered EXCEPT ![GET_STALE_ORDERS] = @ + found]
    /\ details' = {}

SendOne(k) ==
    /\ unanswered' = [unanswered EXCEPT ![k] = @ + 1]
    /\ UNCHANGED <<details, counter>>

\* OrderEntry's part of a Timer: the first pending request is sent if the group
\* is ready and the rate limiter, shared by all streams, lets it.
CheckPending(k) ==
    /\ process = "running"
    /\ rest
    /\ GroupReady(inflight)
    /\ k \in pending
    /\ \A j \in pending : k =< j
    /\ pending' = pending \ {k}
    /\ inflight' = inflight \union {k}
    /\ IF k = GET_STALE_ORDERS THEN QueryStaleOrders ELSE SendOne(k)
    /\ fresh' = fresh \union ({k} \intersect {state})
    /\ UNCHANGED <<process, dropCopyVars, rest, response, oms, disconnects>>

\* The answer to a request of another kind than GET_STALE_ORDERS, be it a success,
\* an error of the exchange or a network error.
Answer(k) ==
    /\ process = "running"
    /\ k # GET_STALE_ORDERS
    /\ unanswered[k] > 0
    /\ unanswered' = [unanswered EXCEPT ![k] = @ - 1]
    /\ Commit(k)
    /\ UNCHANGED <<process, dropCopyVars, rest, pending, details, counter, oms, fresh, disconnects>>

AnswerStaleOrderOffByOne ==
    /\ process = "running"
    /\ unanswered[GET_STALE_ORDERS] > 0
    /\ unanswered' = [unanswered EXCEPT ![GET_STALE_ORDERS] = @ - 1]
    /\ counter' = counter - 1
    /\ IF counter = 0
       THEN Commit(GET_STALE_ORDERS)
       ELSE UNCHANGED <<inflight, response>>
    /\ UNCHANGED <<process, dropCopyVars, rest, pending, details, oms, fresh, disconnects>>

\* The answer to the query of one stale order; the last one commits the request.
AnswerStaleOrder ==
    /\ process = "running"
    /\ unanswered[GET_STALE_ORDERS] > 0
    /\ IF counter = 0
       THEN Stop("fatal: counter")
       ELSE /\ unanswered' = [unanswered EXCEPT ![GET_STALE_ORDERS] = @ - 1]
            /\ counter' = counter - 1
            /\ IF counter = 1
               THEN Commit(GET_STALE_ORDERS)
               ELSE UNCHANGED <<inflight, response>>
            /\ UNCHANGED <<process, dropCopyVars, rest, pending, details, oms, fresh, disconnects>>

\* A redirection ends the process.
Redirected(k) ==
    /\ process = "running"
    /\ unanswered[k] > 0
    /\ Stop("redirected")

RestConnected ==
    /\ process = "running"
    /\ ~rest
    /\ rest' = TRUE
    /\ UNCHANGED <<process, dropCopyVars, requestVars, orderEntryVars, details, oms, fresh, disconnects>>

\* What is in flight will be answered with a network error.
RestDisconnected ==
    /\ process = "running"
    /\ rest
    /\ disconnects < MaxDisconnects
    /\ rest' = FALSE
    /\ disconnects' = disconnects + 1
    /\ UNCHANGED <<process, dropCopyVars, requestVars, orderEntryVars, details, oms, fresh>>

\* The order manager forgets an order.
Purge(order) ==
    /\ process = "running"
    /\ order \in oms
    /\ oms' = oms \ {order}
    /\ UNCHANGED <<process, dropCopyVars, rest, requestVars, orderEntryVars, details, fresh, disconnects>>

-----------------------------------------------------------------------------

DropCopyNext ==
    \/ WebsocketReady
    \/ Login
    \/ \E channel \in Channels : Subscribed(channel)
    \/ WebsocketDisconnected
    \/ Error
    \/ DropCopyTimer

OrderEntryNext ==
    \/ \E k \in Requests : CheckPending(k)
    \/ \E k \in Requests : Answer(k)
    \/ AnswerStaleOrder
    \/ \E k \in Requests : Redirected(k)
    \/ RestConnected
    \/ RestDisconnected

Next ==
    \/ DropCopyNext
    \/ OrderEntryNext
    \/ \E order \in Orders : Purge(order)

Spec == Init /\ [][Next]_vars

(***************************************************************************)
(* The libraries reconnect, the exchange answers every login, subscription *)
(* and request (or the HTTP client times the request out), the event loop  *)
(* keeps calling Timer and the rate limiter refills.                       *)
(***************************************************************************)
Fairness ==
    /\ WF_vars(WebsocketReady)
    /\ WF_vars(Login)
    /\ \A channel \in Channels : WF_vars(Subscribed(channel))
    /\ WF_vars(DropCopyTimer)
    /\ \A k \in Requests : WF_vars(CheckPending(k))
    /\ \A k \in Requests : WF_vars(Answer(k))
    /\ WF_vars(AnswerStaleOrder)
    /\ WF_vars(RestConnected)

FairSpec == Spec /\ Fairness

-----------------------------------------------------------------------------
(* Properties. *)

Processes == {"running", "error", "redirected", "assert",
              "fatal: check", "fatal: stale orders", "fatal: counter"}

\* Type invariant of DropCopy, OrderEntry and the Request group.
TypeOK ==
    /\ process \in Processes
    /\ status \in {"DISCONNECTED", "LOGIN_SENT", "DOWNLOADING", "READY"}
    /\ state \in State
    /\ awaiting \subseteq Channels
    /\ rest \in BOOLEAN
    /\ pending \subseteq Requests
    /\ inflight \subseteq Requests
    /\ response \subseteq Requests
    /\ details \subseteq Orders
    /\ counter \in Nat
    /\ unanswered \in [Requests -> Nat]
    /\ oms \subseteq Orders
    /\ fresh \subseteq Requests
    /\ disconnects \in Nat

\* None of the log::fatal("Unexpected") that guard this protocol is ever reached:
\* an acknowledgement for another stage than the present one, stale orders left
\* over when their queries have been answered (drop_copy.cpp:924), an answer to a
\* stale order's query that nobody counted (order_entry.cpp:502).
NoFatal == process \notin {"fatal: check", "fatal: stale orders", "fatal: counter"}

\* The Request group has at most one request in flight, over all sessions: the
\* HTTP answers outstanding are the one answer to it or, for the stale orders,
\* exactly as many as OrderEntry counts.
OneRequestInFlight ==
    /\ Cardinality(inflight) =< 1
    /\ unanswered[GET_STALE_ORDERS] = counter
    /\ \A k \in Requests : unanswered[k] > 0 => k \in inflight

\* The download never goes past GET_STALE_ORDERS while stale orders it has noted
\* were not queried ("note! *before* updating download", drop_copy.cpp:918), and
\* orders noted by a session that was cut off are still asked for.
NoStaleOrderForgotten ==
    /\ state \in {GET_TRADES, DONE} => details = {}
    /\ details # {} => GET_STALE_ORDERS \in pending

\* In a debug build the assert(false) of check_request_queue (drop_copy.cpp:891)
\* holds: DropCopy never looks at the Request group while its stage is UNDEFINED.
NeverUndefined == process # "assert"

\* Every snapshot READY stands for was asked for and answered on the present
\* connection: the download implements DownloadSession.
Session == INSTANCE DownloadSession WITH got <- Required \intersect fresh \intersect response

SessionSpec == Session!Spec

\* The account becomes READY and stays READY once the connections are stable,
\* unless the process ends or the order manager has forgotten an order.
EventuallyReady == <>[](status = "READY" \/ process # "running" \/ oms # Orders)

=============================================================================

---------------------- MODULE AccountDownloadProofs ----------------------
(***************************************************************************)
(* Theorems about AccountDownload, for any set of orders, any settings and *)
(* any number of lost connections.                                         *)
(***************************************************************************)
EXTENDS AccountDownload, TLAPS, FiniteSetTheorems

USE DEF UNDEFINED, SUBSCRIBE_ACCOUNT, GET_ACCOUNT, SUBSCRIBE_BALANCE, GET_BALANCES,
        SUBSCRIBE_POSITIONS, GET_POSITIONS, SUBSCRIBE_ORDERS, GET_OPEN_ORDERS,
        GET_STALE_ORDERS, GET_TRADES, DONE

-----------------------------------------------------------------------------
(* The inductive invariant. *)

\* What DropCopy publishes and awaits is determined by its stage.
StageInv ==
    /\ status \in {"DISCONNECTED", "LOGIN_SENT"} <=> state = UNDEFINED
    /\ status = "READY" <=> state = DONE
    /\ awaiting = Channels \intersect {state}

\* One request is in flight at most, and the answers outstanding are its own.
FlightInv ==
    /\ \A j, k \in inflight : j = k
    /\ \A k \in Requests \ {GET_STALE_ORDERS} :
        unanswered[k] = IF k \in inflight THEN 1 ELSE 0
    /\ unanswered[GET_STALE_ORDERS] = counter
    /\ counter > 0 => GET_STALE_ORDERS \in inflight

\* A request asked for again has no answer; stale orders noted are asked for.
MailboxInv ==
    /\ response \intersect pending = {}
    /\ details # {} => GET_STALE_ORDERS \in pending
    /\ state \in {GET_TRADES, DONE} => details = {}

\* The stages behind were answered on this connection, the one at hand is at
\* least asked for, the ones ahead were not sent.
SessionInv ==
    /\ \A k \in Required : k < state => k \in fresh /\ k \in response
    /\ \A k \in fresh : k =< state
    /\ state \in Requests => state \in pending \/ state \in fresh

IInv ==
    /\ TypeOK
    /\ NoFatal
    /\ StageInv
    /\ FlightInv
    /\ MailboxInv
    /\ SessionInv

LEMMA InitIInv == Init => IInv
<1> SUFFICES ASSUME Init PROVE IInv
  OBVIOUS
<1>1. TypeOK
  <2>1. rest \in BOOLEAN
    BY DEF Init
  <2>2. unanswered \in [Requests -> Nat]
    BY DEF Init
  <2> QED
    BY <2>1, <2>2 DEF Init, TypeOK, Processes, State
<1>2. NoFatal
  BY DEF Init, NoFatal
<1>3. StageInv
  BY DEF Init, StageInv, Channels
<1>4. FlightInv
  BY DEF Init, FlightInv, Requests
<1>5. MailboxInv /\ SessionInv
  BY DEF Init, MailboxInv, SessionInv, Required, Requests
<1> QED
  BY <1>1, <1>2, <1>3, <1>4, <1>5 DEF IInv

-----------------------------------------------------------------------------
(* The steps of DropCopy. *)

\* Going on to the next stage keeps the invariant, provided that the request of
\* the present stage has been answered, that no stale order is left behind, and
\* that stale orders are noted in GET_OPEN_ORDERS only.
LEMMA ProceedIInv ==
  ASSUME IInv,
         NEW acked, awaiting \subseteq acked,
         Proceed(acked, details'),
         details' \subseteq Orders,
         details' = details \/ state = GET_OPEN_ORDERS,
         state \in Requests => state \in response,
         state = GET_STALE_ORDERS => details' = {},
         UNCHANGED <<process, rest, orderEntryVars, oms, fresh, disconnects>>
  PROVE  IInv'
<1> USE DEF orderEntryVars
<1>1. PICK s \in State :
        /\ s > state
        /\ ~Skipped(s, details')
        /\ \A t \in State : state < t /\ t < s => Skipped(t, details')
        /\ Enter(s, acked)
  BY DEF Proceed
<1>2. state' = s /\ awaiting' = Channels \intersect {s}
  BY <1>1 DEF Enter
<1>3. /\ s \in Requests => Request(s)
      /\ s \notin Requests => UNCHANGED requestVars
  BY <1>1 DEF Enter
<1>4. /\ pending' = pending \union (Requests \intersect {s})
      /\ response' = response \ (Requests \intersect {s})
  <2>1. CASE s \in Requests
    BY <1>3, <2>1 DEF Request
  <2>2. CASE s \notin Requests
    BY <1>3, <2>2 DEF requestVars
  <2> QED BY <2>1, <2>2
<1>5. state \in State /\ state < s /\ s # UNDEFINED
  BY <1>1 DEF IInv, TypeOK, State
<1>6. \/ s = DONE /\ status' = "READY"
      \/ s # DONE /\ status' = "DOWNLOADING"
  BY <1>1 DEF Enter
<1>7. TypeOK'
  BY <1>2, <1>4, <1>6 DEF IInv, TypeOK, Channels
<1>8. NoFatal' /\ FlightInv'
  BY DEF IInv, NoFatal, FlightInv
<1>9. StageInv'
  BY <1>2, <1>5, <1>6 DEF StageInv
<1>10. MailboxInv'
  <2>1. response' \intersect pending' = {}
    BY <1>4 DEF IInv, MailboxInv
  <2>2. details' # {} => GET_STALE_ORDERS \in pending'
    <3>1. CASE details' = details
      BY <3>1, <1>4 DEF IInv, MailboxInv
    <3>2. CASE state = GET_OPEN_ORDERS
      <4> SUFFICES ASSUME details' # {} PROVE GET_STALE_ORDERS \in pending'
        OBVIOUS
      <4>1. GET_STALE_ORDERS \in State /\ ~Skipped(GET_STALE_ORDERS, details')
        BY DEF Skipped, State
      <4>2. s = GET_STALE_ORDERS
        BY <1>1, <3>2, <4>1 DEF State
      <4> QED BY <4>2, <1>4 DEF Requests
    <3> QED BY <3>1, <3>2
  <2>3. s \in {GET_TRADES, DONE} => details' = {}
    <3> SUFFICES ASSUME s \in {GET_TRADES, DONE} PROVE details' = {}
      OBVIOUS
    <3>1. CASE state < GET_STALE_ORDERS
      <4>1. Skipped(GET_STALE_ORDERS, details')
        BY <1>1, <3>1 DEF State
      <4> QED BY <4>1 DEF Skipped
    <3>2. CASE state = GET_STALE_ORDERS
      BY <3>2
    <3>3. CASE state > GET_STALE_ORDERS
      <4>1. state = GET_TRADES
        BY <1>5, <3>3 DEF State
      <4> QED BY <4>1 DEF IInv, MailboxInv
    <3> QED BY <1>5, <3>1, <3>2, <3>3 DEF State
  <2> QED BY <2>1, <2>2, <2>3, <1>2 DEF MailboxInv
<1>11. SessionInv'
  <2>1. ASSUME NEW k \in Required, k < s PROVE k \in fresh /\ k \in response'
    <3>1. k \in Requests /\ k \in State /\ ~Skipped(k, details')
      BY DEF Required, Requests, State, Skipped
    <3>2. k =< state
      BY <1>1, <1>5, <2>1, <3>1 DEF State
    <3>3. k \in fresh /\ k \in response
      <4>1. CASE k < state
        BY <4>1 DEF IInv, SessionInv
      <4>2. CASE k = state
        BY <4>2, <3>1 DEF IInv, SessionInv, MailboxInv
      <4> QED BY <3>1, <3>2, <4>1, <4>2, <1>5 DEF State
    <3> QED BY <3>3, <1>4, <2>1 DEF State
  <2>2. \A k \in fresh : k =< s
    BY <1>5 DEF IInv, TypeOK, SessionInv, Requests, State
  <2>3. s \in Requests => s \in pending'
    BY <1>4
  <2> QED BY <2>1, <2>2, <2>3, <1>2 DEF SessionInv
<1> QED
  BY <1>7, <1>8, <1>9, <1>10, <1>11 DEF IInv

\* A process that stops for a reason that is not a log::fatal of the protocol.
LEMMA StopIInv ==
  ASSUME IInv, NEW reason \in {"error", "redirected", "assert"},
         process' = reason,
         UNCHANGED <<status, state, awaiting, rest, pending, inflight, response,
                     details, counter, unanswered, oms, fresh, disconnects>>
  PROVE  IInv'
<1>1. TypeOK'
  BY DEF IInv, TypeOK, Processes
<1>2. NoFatal'
  BY DEF NoFatal
<1>3. StageInv' /\ FlightInv'
  BY DEF IInv, StageInv, FlightInv
<1>4. MailboxInv' /\ SessionInv'
  BY DEF IInv, MailboxInv, SessionInv
<1> QED
  BY <1>1, <1>2, <1>3, <1>4 DEF IInv

\* A lost websocket leaves the invariant, above all the Request group's part of it.
LEMMA LoseWebsocketIInv ==
  ASSUME IInv, LoseWebsocket
  PROVE  IInv'
<1> USE DEF LoseWebsocket, requestVars, orderEntryVars
<1>1. TypeOK'
  BY DEF IInv, TypeOK, State
<1>2. NoFatal'
  BY DEF IInv, NoFatal
<1>3. StageInv'
  BY DEF StageInv, Channels
<1>4. FlightInv'
  BY DEF IInv, FlightInv
<1>5. MailboxInv'
  BY DEF IInv, MailboxInv
<1>6. SessionInv'
  BY DEF SessionInv, Required, Requests
<1> QED
  BY <1>1, <1>2, <1>3, <1>4, <1>5, <1>6 DEF IInv

LEMMA DropCopyIInv == IInv /\ DropCopyNext => IInv'
<1> SUFFICES ASSUME IInv, DropCopyNext PROVE IInv'
  OBVIOUS
<1>1. CASE WebsocketReady
  <2> USE <1>1 DEF WebsocketReady, requestVars, orderEntryVars
  <2>1. TypeOK'
    BY DEF IInv, TypeOK
  <2>2. NoFatal' /\ StageInv' /\ FlightInv'
    BY DEF IInv, NoFatal, StageInv, FlightInv
  <2>3. MailboxInv' /\ SessionInv'
    BY DEF IInv, MailboxInv, SessionInv
  <2> QED
    BY <2>1, <2>2, <2>3 DEF IInv
<1>2. CASE Login
  <2>1. state = UNDEFINED /\ awaiting = {}
    BY <1>2 DEF Login, IInv, StageInv, Channels
  <2>2. details' = details /\ details' \subseteq Orders
    BY <1>2 DEF Login, IInv, TypeOK
  <2>3. Proceed({}, details')
    BY <1>2, <2>2 DEF Login
  <2>4. UNCHANGED <<process, rest, orderEntryVars, oms, fresh, disconnects>>
    BY <1>2 DEF Login
  <2> QED
    BY <2>1, <2>2, <2>3, <2>4, ProceedIInv DEF Requests
<1>3. ASSUME NEW channel \in Channels, Subscribed(channel) PROVE IInv'
  <2>1. state = channel /\ awaiting = {channel}
    BY <1>3 DEF Subscribed, IInv, StageInv
  <2>2. details' = details /\ details' \subseteq Orders
    BY <1>3, <2>1 DEF Subscribed, IInv, TypeOK
  <2>3. Proceed({channel}, details')
    BY <1>3, <2>1, <2>2 DEF Subscribed
  <2>4. UNCHANGED <<process, rest, orderEntryVars, oms, fresh, disconnects>>
    BY <1>3, <2>1 DEF Subscribed
  <2>5. state \notin Requests /\ state # GET_STALE_ORDERS
    BY <2>1 DEF Channels, Requests
  <2> QED
    BY <2>1, <2>2, <2>3, <2>4, <2>5, ProceedIInv
<1>4. CASE WebsocketDisconnected
  BY <1>4, LoseWebsocketIInv DEF WebsocketDisconnected
<1>5. CASE Error
  <2>1. CASE RetryLogon
    BY <1>5, <2>1, LoseWebsocketIInv DEF Error
  <2>2. CASE ~RetryLogon
    BY <1>5, <2>2, StopIInv DEF Error, Stop
  <2> QED
    BY <2>1, <2>2
<1>6. CASE DropCopyTimer
  <2>1. UNCHANGED <<rest, orderEntryVars, oms, fresh, disconnects>>
    BY <1>6 DEF DropCopyTimer
  <2>2. awaiting \subseteq Channels \intersect {state}
    BY DEF IInv, StageInv
  <2>3. CASE CheckUndefined
    BY <2>1, <2>3, StopIInv DEF CheckUndefined, dropCopyVars, requestVars, orderEntryVars
  <2>4. CASE CheckDownload
    <3>1. state \in response /\ state # GET_STALE_ORDERS /\ awaiting = {}
      BY <2>2, <2>4 DEF CheckDownload, Requests, Channels
    <3>2. details' = details /\ details' \subseteq Orders /\ process' = process
      BY <2>4 DEF CheckDownload, IInv, TypeOK
    <3>3. Proceed({}, details')
      BY <2>4, <3>2 DEF CheckDownload
    <3> QED
      BY <2>1, <3>1, <3>2, <3>3, ProceedIInv
  <2>5. CASE CheckOpenOrders
    <3>1. state = GET_OPEN_ORDERS /\ state \in response /\ awaiting = {}
      BY <2>2, <2>5 DEF CheckOpenOrders, Channels
    <3>2. details' \subseteq Orders /\ process' = process
      BY <2>5 DEF CheckOpenOrders, IInv, TypeOK
    <3>3. Proceed({}, details')
      BY <2>5 DEF CheckOpenOrders
    <3> QED
      BY <2>1, <3>1, <3>2, <3>3, ProceedIInv
  <2>6. CASE CheckStaleOrders
    <3>1. state = GET_STALE_ORDERS /\ GET_STALE_ORDERS \in response
      BY <2>6 DEF CheckStaleOrders
    <3>2. awaiting = {} /\ details = {}
      BY <2>2, <3>1 DEF Channels, IInv, MailboxInv
    <3>3. details' = details /\ details' \subseteq Orders /\ process' = process
      BY <2>6, <3>2 DEF CheckStaleOrders, IInv, TypeOK
    <3>4. Proceed({}, details')
      BY <2>6, <3>2, <3>3 DEF CheckStaleOrders
    <3> QED
      BY <2>1, <3>1, <3>2, <3>3, <3>4, ProceedIInv
  <2> QED
    BY <1>6, <2>3, <2>4, <2>5, <2>6 DEF DropCopyTimer
<1> QED
  BY <1>1, <1>2, <1>3, <1>4, <1>5, <1>6 DEF DropCopyNext

-----------------------------------------------------------------------------
(* The steps of OrderEntry and of the order manager. *)

\* The stale orders found are finitely many.
LEMMA FoundIsNat == details \subseteq Orders => Cardinality(details \intersect oms) \in Nat
<1> SUFFICES ASSUME details \subseteq Orders
             PROVE  Cardinality(details \intersect oms) \in Nat
  OBVIOUS
<1>1. IsFiniteSet(details \intersect oms)
  BY OrdersAssumption, FS_Subset
<1> QED
  BY <1>1, FS_CardinalityType

LEMMA CheckPendingIInv ==
  ASSUME IInv, NEW k \in Requests, CheckPending(k)
  PROVE  IInv'
<1> DEFINE found == Cardinality(details \intersect oms)
<1>1. /\ k \in pending
      /\ pending' = pending \ {k}
      /\ inflight = {}
      /\ inflight' = {k}
      /\ fresh' = fresh \union ({k} \intersect {state})
      /\ UNCHANGED <<process, status, state, awaiting, rest, response, oms, disconnects>>
  BY DEF CheckPending, GroupReady, dropCopyVars
<1>2. /\ unanswered \in [Requests -> Nat]
      /\ counter = 0
      /\ \A j \in Requests : unanswered[j] = 0
  BY <1>1 DEF IInv, TypeOK, FlightInv
<1>3. /\ details' \subseteq details
      /\ k = GET_STALE_ORDERS => details' = {}
      /\ k # GET_STALE_ORDERS => details' = details
  BY DEF CheckPending, QueryStaleOrders, SendOne
<1>4. /\ counter' \in Nat
      /\ unanswered' \in [Requests -> Nat]
      /\ FlightInv'
  <2>1. CASE k = GET_STALE_ORDERS
    <3>1. found \in Nat
      BY FoundIsNat DEF IInv, TypeOK
    <3>2. /\ counter' = counter + found
          /\ unanswered' = [unanswered EXCEPT ![GET_STALE_ORDERS] = @ + found]
      BY <2>1 DEF CheckPending, QueryStaleOrders
    <3> HIDE DEF found
    <3>3. /\ counter' = found
          /\ unanswered' = [unanswered EXCEPT ![GET_STALE_ORDERS] = found]
      <4>1. unanswered[GET_STALE_ORDERS] + found = found /\ counter + found = found
        BY <1>2, <3>1 DEF Requests
      <4> QED
        BY <3>2, <4>1
    <3>4. /\ counter' \in Nat
          /\ unanswered' \in [Requests -> Nat]
      BY <1>2, <3>1, <3>3
    <3>5. unanswered'[GET_STALE_ORDERS] = counter'
      BY <1>2, <3>3 DEF Requests
    <3>6. \A j \in Requests \ {GET_STALE_ORDERS} : unanswered'[j] = 0 /\ j \notin inflight'
      BY <1>1, <1>2, <2>1, <3>3
    <3>7. GET_STALE_ORDERS \in inflight' /\ \A i, j \in inflight' : i = j
      BY <1>1, <2>1
    <3> QED
      BY <3>4, <3>5, <3>6, <3>7 DEF FlightInv
  <2>2. CASE k # GET_STALE_ORDERS
    <3>1. /\ counter' = counter
          /\ unanswered' = [unanswered EXCEPT ![k] = @ + 1]
      BY <2>2 DEF CheckPending, SendOne
    <3> QED
      BY <1>1, <1>2, <2>2, <3>1 DEF FlightInv, Requests
  <2> QED
    BY <2>1, <2>2
<1>5. TypeOK'
  BY <1>1, <1>3, <1>4 DEF IInv, TypeOK
<1>6. NoFatal' /\ StageInv'
  BY <1>1 DEF IInv, NoFatal, StageInv
<1>7. MailboxInv'
  BY <1>1, <1>3 DEF IInv, MailboxInv
<1>8. SessionInv'
  <2>1. \A j \in fresh' : j =< state
    BY <1>1 DEF IInv, TypeOK, SessionInv, State
  <2> QED
    BY <1>1, <2>1 DEF IInv, SessionInv
<1> QED
  BY <1>4, <1>5, <1>6, <1>7, <1>8 DEF IInv

\* The answer that ends the request in flight: no other answer is outstanding then.
LEMMA CommitIInv ==
  ASSUME IInv, NEW k \in Requests, Commit(k),
         counter' \in Nat,
         unanswered' \in [Requests -> Nat],
         FlightInv',
         UNCHANGED <<process, dropCopyVars, rest, pending, details, oms, fresh, disconnects>>
  PROVE  IInv'
<1> USE DEF dropCopyVars
<1>1. inflight' = inflight \ {k}
  BY DEF Commit
<1>2. response \subseteq response' /\ response' \subseteq response \union ({k} \ pending)
  BY DEF Commit
<1>3. TypeOK'
  BY <1>1, <1>2 DEF IInv, TypeOK
<1>4. NoFatal' /\ StageInv'
  BY DEF IInv, NoFatal, StageInv
<1>5. MailboxInv'
  BY <1>2 DEF IInv, MailboxInv
<1>6. SessionInv'
  BY <1>2 DEF IInv, SessionInv
<1> QED
  BY <1>3, <1>4, <1>5, <1>6 DEF IInv

LEMMA AnswerIInv ==
  ASSUME IInv, NEW k \in Requests, Answer(k)
  PROVE  IInv'
<1>1. /\ k # GET_STALE_ORDERS
      /\ unanswered[k] > 0
      /\ unanswered' = [unanswered EXCEPT ![k] = @ - 1]
      /\ counter' = counter
      /\ inflight' = inflight \ {k}
  BY DEF Answer, Commit
<1>2. unanswered \in [Requests -> Nat] /\ counter \in Nat
  BY DEF IInv, TypeOK
<1>3. inflight = {k} /\ unanswered[k] = 1
  BY <1>1 DEF IInv, FlightInv
<1>4. unanswered' \in [Requests -> Nat]
  BY <1>1, <1>2, <1>3
<1>5. FlightInv'
  BY <1>1, <1>2, <1>3 DEF IInv, FlightInv, Requests
<1> QED
  BY <1>1, <1>2, <1>4, <1>5, CommitIInv DEF Answer

LEMMA AnswerStaleOrderIInv ==
  ASSUME IInv, AnswerStaleOrder
  PROVE  IInv'
<1>1. unanswered \in [Requests -> Nat] /\ counter \in Nat /\ GET_STALE_ORDERS \in Requests
  BY DEF IInv, TypeOK, Requests
<1>2. counter > 0 /\ counter # 0 /\ unanswered[GET_STALE_ORDERS] = counter
  <2>1. unanswered[GET_STALE_ORDERS] > 0
    BY DEF AnswerStaleOrder
  <2> QED
    BY <1>1, <2>1 DEF IInv, FlightInv
<1>3. inflight = {GET_STALE_ORDERS}
  BY <1>2 DEF IInv, FlightInv
<1>4. /\ unanswered' = [unanswered EXCEPT ![GET_STALE_ORDERS] = @ - 1]
      /\ counter' = counter - 1
      /\ IF counter = 1
         THEN Commit(GET_STALE_ORDERS)
         ELSE UNCHANGED <<inflight, response>>
      /\ UNCHANGED <<process, dropCopyVars, rest, pending, details, oms, fresh, disconnects>>
  BY <1>2 DEF AnswerStaleOrder
<1>5. counter' \in Nat /\ unanswered' \in [Requests -> Nat]
  BY <1>1, <1>2, <1>4
<1>6. CASE counter = 1
  <2>1. Commit(GET_STALE_ORDERS) /\ inflight' = {}
    BY <1>3, <1>4, <1>6 DEF Commit
  <2>2. FlightInv'
    BY <1>1, <1>2, <1>3, <1>4, <1>6, <2>1 DEF IInv, FlightInv
  <2> QED
    BY <1>1, <1>4, <1>5, <2>1, <2>2, CommitIInv
<1>7. CASE counter # 1
  <2> USE DEF dropCopyVars
  <2>1. UNCHANGED <<inflight, response>>
    BY <1>4, <1>7
  <2>2. TypeOK'
    BY <1>4, <1>5, <2>1 DEF IInv, TypeOK
  <2>3. FlightInv'
    BY <1>1, <1>2, <1>3, <1>4, <1>7, <2>1 DEF IInv, FlightInv
  <2>4. NoFatal' /\ StageInv'
    BY <1>4 DEF IInv, NoFatal, StageInv
  <2>5. MailboxInv' /\ SessionInv'
    BY <1>4, <2>1 DEF IInv, MailboxInv, SessionInv
  <2> QED
    BY <2>2, <2>3, <2>4, <2>5 DEF IInv
<1> QED
  BY <1>6, <1>7

LEMMA NextIInv == IInv /\ [Next]_vars => IInv'
<1> SUFFICES ASSUME IInv, [Next]_vars PROVE IInv'
  OBVIOUS
<1>1. CASE DropCopyNext
  BY <1>1, DropCopyIInv
<1>2. ASSUME NEW k \in Requests, CheckPending(k) PROVE IInv'
  BY <1>2, CheckPendingIInv
<1>3. ASSUME NEW k \in Requests, Answer(k) PROVE IInv'
  BY <1>3, AnswerIInv
<1>4. CASE AnswerStaleOrder
  BY <1>4, AnswerStaleOrderIInv
<1>5. ASSUME NEW k \in Requests, Redirected(k) PROVE IInv'
  BY <1>5, StopIInv DEF Redirected, Stop
<1>6. CASE UNCHANGED <<process, dropCopyVars, requestVars, orderEntryVars, details, fresh>>
           /\ rest' \in BOOLEAN /\ oms' \subseteq Orders /\ disconnects' \in Nat
  <2> USE <1>6 DEF dropCopyVars, requestVars, orderEntryVars
  <2>1. TypeOK'
    BY DEF IInv, TypeOK
  <2>2. NoFatal' /\ StageInv' /\ FlightInv'
    BY DEF IInv, NoFatal, StageInv, FlightInv
  <2>3. MailboxInv' /\ SessionInv'
    BY DEF IInv, MailboxInv, SessionInv
  <2> QED
    BY <2>1, <2>2, <2>3 DEF IInv
<1>7. oms \subseteq Orders /\ disconnects \in Nat /\ rest \in BOOLEAN
  BY DEF IInv, TypeOK
<1>8. CASE RestConnected
  BY <1>6, <1>7, <1>8 DEF RestConnected
<1>9. CASE RestDisconnected
  <2>1. disconnects' \in Nat
    BY <1>7, <1>9 DEF RestDisconnected
  <2> QED
    BY <1>6, <1>7, <1>9, <2>1 DEF RestDisconnected
<1>10. ASSUME NEW order \in Orders, Purge(order) PROVE IInv'
  BY <1>6, <1>7, <1>10 DEF Purge
<1>11. CASE UNCHANGED vars
  BY <1>6, <1>7, <1>11 DEF vars, dropCopyVars, requestVars, orderEntryVars
<1> QED
  BY <1>1, <1>2, <1>3, <1>4, <1>5, <1>8, <1>9, <1>10, <1>11 DEF Next, OrderEntryNext

-----------------------------------------------------------------------------
(* The theorems. *)

\* The inductive invariant holds in every reachable state.
THEOREM Invariance == Spec => []IInv
  BY InitIInv, NextIInv, PTL DEF Spec

\* Every variable of DropCopy, OrderEntry and the Request group keeps its type.
THEOREM TypeCorrect == Spec => []TypeOK
<1>1. IInv => TypeOK
  BY DEF IInv
<1> QED
  BY <1>1, Invariance, PTL

\* No log::fatal that guards the download is reached, whatever the order in which
\* the connections are lost, the requests answered and the Timers run.
THEOREM NeverFatal == Spec => []NoFatal
<1>1. IInv => NoFatal
  BY DEF IInv
<1> QED
  BY <1>1, Invariance, PTL

\* The Request group never has two requests in flight.
THEOREM OneInFlight == Spec => []OneRequestInFlight
<1>1. ASSUME IInv PROVE OneRequestInFlight
  <2>1. Cardinality(inflight) =< 1
    <3>1. CASE inflight = {}
      BY <3>1, FS_EmptySet
    <3>2. CASE inflight # {}
      <4>1. PICK k : inflight = {k}
        BY <1>1, <3>2 DEF IInv, FlightInv
      <4>2. Cardinality({k}) = 1
        BY FS_Singleton, Zenon
      <4> QED
        BY <4>1, <4>2
    <3> QED
      BY <3>1, <3>2
  <2>2. unanswered[GET_STALE_ORDERS] = counter
    BY <1>1 DEF IInv, FlightInv
  <2>3. \A k \in Requests : unanswered[k] > 0 => k \in inflight
    BY <1>1 DEF IInv, FlightInv
  <2> QED
    BY <2>1, <2>2, <2>3 DEF OneRequestInFlight
<1> QED
  BY <1>1, Invariance, PTL

\* Stale orders noted are always still to be asked for, and none is left once the
\* download is past them.
THEOREM StaleOrdersKept == Spec => []NoStaleOrderForgotten
<1>1. IInv => NoStaleOrderForgotten
  BY DEF IInv, MailboxInv, NoStaleOrderForgotten
<1> QED
  BY <1>1, Invariance, PTL

-----------------------------------------------------------------------------
(* The refinement of DownloadSession. *)

got == Required \intersect fresh \intersect response

\* Only DONE is published as READY, and then nothing required is missing.
LEMMA ReadyObtained == IInv /\ state = DONE => got = Required
  BY DEF IInv, SessionInv, got, Required, Requests

\* What is asked for by a stage that is entered was not obtained before.
LEMMA ProceedSession ==
  ASSUME IInv, IInv', NEW acked, NEW stale, Proceed(acked, stale),
         process' = process, fresh' = fresh
  PROVE  /\ status = "LOGIN_SENT" => Session!Begin
         /\ status = "DOWNLOADING" => Session!Finish \/ UNCHANGED <<status, got>>
<1>1. PICK s \in State : s > state /\ Enter(s, acked)
         /\ \A t \in State : state < t /\ t < s => Skipped(t, stale)
  BY DEF Proceed
<1>2. state \in State /\ \A k \in fresh : k =< state
  BY DEF IInv, TypeOK, SessionInv
<1>3. s \notin fresh
  BY <1>1, <1>2 DEF State
<1>4. got' = got
  <2>1. Required' = Required
    BY DEF Required
  <2>2. response \ {s} = response' \ {s}
    BY <1>1 DEF Enter, Request, requestVars
  <2> QED
    BY <1>3, <2>1, <2>2 DEF got
<1>5. status' = IF s = DONE THEN "READY" ELSE "DOWNLOADING"
  BY <1>1 DEF Enter
<1>6. ASSUME status = "LOGIN_SENT" PROVE Session!Begin
  <2>1. state = UNDEFINED
    BY <1>6 DEF IInv, StageInv
  <2>2. s # DONE
    <3>1. SUBSCRIBE_ACCOUNT \in State /\ ~Skipped(SUBSCRIBE_ACCOUNT, stale)
      BY DEF State, Skipped
    <3> QED
      BY <1>1, <2>1, <3>1
  <2> QED
    BY <1>4, <1>5, <1>6, <2>2 DEF Session!Begin, got
<1>7. ASSUME status = "DOWNLOADING" PROVE Session!Finish \/ UNCHANGED <<status, got>>
  <2>1. CASE s = DONE
    <3>1. state' = DONE
      BY <1>1, <2>1 DEF Enter
    <3>2. got' = Required
      <4>1. Required' = Required
        BY DEF Required
      <4>2. (IInv /\ state = DONE => got = Required)'
        BY ReadyObtained, PTL
      <4> QED
        BY <3>1, <4>1, <4>2
    <3> QED
      BY <1>4, <1>5, <1>7, <2>1, <3>2 DEF Session!Finish, got
  <2>2. CASE s # DONE
    BY <1>4, <1>5, <1>7, <2>2
  <2> QED
    BY <2>1, <2>2
<1> QED
  BY <1>6, <1>7

\* A step of DropCopy is a step of the session.
LEMMA DropCopySession ==
  ASSUME IInv, IInv', DropCopyNext
  PROVE  Session!Next \/ UNCHANGED <<status, got>>
<1> USE DEF Session!Next
<1>1. Required' = Required
  BY DEF Required
<1>2. state # UNDEFINED /\ state # DONE => status = "DOWNLOADING"
  BY DEF IInv, TypeOK, StageInv
<1>3. CASE WebsocketReady
  BY <1>1, <1>3 DEF WebsocketReady, requestVars, got, Session!Connect
<1>4. CASE Login
  BY <1>4, ProceedSession DEF Login
<1>5. ASSUME NEW channel \in Channels, Subscribed(channel)
      PROVE  Session!Next \/ UNCHANGED <<status, got>>
  <2>1. state = channel
    BY <1>5 DEF IInv, StageInv, Subscribed
  <2>2. status = "DOWNLOADING"
    BY <1>2, <2>1 DEF Channels
  <2>3. Proceed({channel}, details) /\ process' = process /\ fresh' = fresh
    BY <1>5, <2>1 DEF Subscribed
  <2> QED
    BY <2>2, <2>3, ProceedSession
<1>6. CASE LoseWebsocket
  BY <1>6 DEF LoseWebsocket, Session!Drop
<1>7. CASE UNCHANGED <<status, fresh, response>>
  BY <1>1, <1>7 DEF got
<1>8. CASE WebsocketDisconnected
  BY <1>6, <1>8 DEF WebsocketDisconnected
<1>9. CASE Error
  BY <1>6, <1>7, <1>9 DEF Error, Stop
<1>10. CASE DropCopyTimer
  <2>1. fresh' = fresh
    BY <1>10 DEF DropCopyTimer
  <2>2. CASE CheckUndefined
    BY <1>7, <2>1, <2>2 DEF CheckUndefined, dropCopyVars, requestVars
  <2>3. CASE CheckDownload
    <3>1. status = "DOWNLOADING"
      BY <1>2, <2>3 DEF CheckDownload, Requests
    <3>2. Proceed({}, details) /\ process' = process
      BY <2>3 DEF CheckDownload
    <3> QED
      BY <2>1, <3>1, <3>2, ProceedSession
  <2>4. CASE CheckOpenOrders
    <3>1. status = "DOWNLOADING"
      BY <1>2, <2>4 DEF CheckOpenOrders
    <3>2. Proceed({}, details') /\ process' = process
      BY <2>4 DEF CheckOpenOrders
    <3> QED
      BY <2>1, <3>1, <3>2, ProceedSession
  <2>5. CASE CheckStaleOrders
    <3>1. state = GET_STALE_ORDERS
      BY <2>5 DEF CheckStaleOrders
    <3>2. status = "DOWNLOADING"
      BY <1>2, <3>1
    <3>3. CASE details # {}
      BY <1>7, <2>1, <2>5, <3>3 DEF CheckStaleOrders, dropCopyVars, requestVars
    <3>4. CASE details = {}
      <4>1. Proceed({}, details) /\ process' = process
        BY <2>5, <3>4 DEF CheckStaleOrders
      <4> QED
        BY <2>1, <3>2, <4>1, ProceedSession
    <3> QED
      BY <3>3, <3>4
  <2> QED
    BY <1>10, <2>2, <2>3, <2>4, <2>5 DEF DropCopyTimer
<1> QED
  BY <1>3, <1>4, <1>5, <1>8, <1>9, <1>10 DEF DropCopyNext

\* A step of OrderEntry obtains a snapshot or does not concern the session.
LEMMA OrderEntrySession ==
  ASSUME IInv, OrderEntryNext
  PROVE  Session!Next \/ UNCHANGED <<status, got>>
<1> USE DEF Session!Next
<1>1. Required' = Required /\ GET_STALE_ORDERS \notin Required
  BY DEF Required
<1>2. ASSUME NEW k \in Requests, CheckPending(k) PROVE UNCHANGED <<status, got>>
  <2>1. k \notin response
    BY <1>2 DEF CheckPending, IInv, MailboxInv
  <2>2. /\ fresh \subseteq fresh' /\ fresh' \subseteq fresh \union {k}
        /\ response' = response /\ status' = status
    BY <1>2 DEF CheckPending, dropCopyVars
  <2> QED
    BY <1>1, <2>1, <2>2 DEF got
<1>3. ASSUME NEW k \in Requests, Answer(k)
      PROVE  Session!Next \/ UNCHANGED <<status, got>>
  <2>1. /\ response \subseteq response' /\ response' \subseteq response \union {k}
        /\ fresh' = fresh /\ status' = status
    BY <1>3 DEF Answer, Commit, dropCopyVars
  <2>2. CASE got' = got
    BY <2>1, <2>2
  <2>3. CASE got' # got
    <3>1. k \in Required /\ k \in fresh /\ k \notin response /\ k \in response'
      BY <1>1, <2>1, <2>3 DEF got
    <3>2. got' = got \union {k}
      BY <1>1, <2>1, <3>1 DEF got
    <3>3. k = state
      BY <3>1 DEF IInv, TypeOK, SessionInv, State, Requests
    <3>4. status = "DOWNLOADING"
      BY <3>3 DEF IInv, TypeOK, StageInv, Requests
    <3>5. Session!Obtain(k)
      BY <2>1, <3>2, <3>4 DEF Session!Obtain, got
    <3> QED
      BY <3>1, <3>5
  <2> QED
    BY <2>2, <2>3
<1>4. CASE AnswerStaleOrder
  <2>1. \/ Commit(GET_STALE_ORDERS)
        \/ response' = response
    BY <1>4 DEF AnswerStaleOrder, Stop
  <2>2. UNCHANGED <<status, fresh>>
    BY <1>4 DEF AnswerStaleOrder, Stop, dropCopyVars
  <2>3. response \ {GET_STALE_ORDERS} = response' \ {GET_STALE_ORDERS}
    BY <2>1 DEF Commit
  <2> QED
    BY <1>1, <2>2, <2>3 DEF got
<1>5. CASE UNCHANGED <<status, fresh, response>>
  BY <1>1, <1>5 DEF got
<1>6. ASSUME NEW k \in Requests, Redirected(k)
      PROVE  Session!Next \/ UNCHANGED <<status, got>>
  BY <1>5, <1>6 DEF Redirected, Stop
<1>7. CASE RestConnected
  BY <1>5, <1>7 DEF RestConnected, dropCopyVars, requestVars
<1>8. CASE RestDisconnected
  BY <1>5, <1>8 DEF RestDisconnected, dropCopyVars, requestVars
<1> QED
  BY <1>2, <1>3, <1>4, <1>6, <1>7, <1>8 DEF OrderEntryNext

\* READY is published only when every snapshot was asked for and answered on the
\* present connection, for any set of orders and any number of lost connections.
THEOREM ImplementsSession == Spec => SessionSpec
<1>1. Init => Session!Init
  BY DEF Init, Session!Init
<1>2. IInv /\ IInv' /\ [Next]_vars => [Session!Next]_(Session!vars)
  <2> SUFFICES ASSUME IInv, IInv', [Next]_vars
               PROVE  Session!Next \/ UNCHANGED <<status, got>>
    BY DEF Session!vars, got
  <2>1. Required' = Required
    BY DEF Required
  <2>2. CASE DropCopyNext
    BY <2>2, DropCopySession
  <2>3. CASE OrderEntryNext
    BY <2>3, OrderEntrySession
  <2>4. CASE UNCHANGED <<status, fresh, response>>
    BY <2>1, <2>4 DEF got
  <2>5. ASSUME NEW order \in Orders, Purge(order)
        PROVE  Session!Next \/ UNCHANGED <<status, got>>
    BY <2>4, <2>5 DEF Purge, dropCopyVars, requestVars
  <2>6. CASE UNCHANGED vars
    BY <2>4, <2>6 DEF vars
  <2> QED
    BY <2>2, <2>3, <2>5, <2>6 DEF Next
<1> QED
  BY <1>1, <1>2, Invariance, PTL DEF Spec, SessionSpec, Session!Spec

-----------------------------------------------------------------------------
(* Why the download is not stuck: the safe half of EventuallyReady.         *)

\* What a session has sent is asked for again, in flight or answered; stale orders are
\* asked for only if there are some, and while the order manager knows all of them the
\* request for them in flight still waits for an answer.
FlowInv ==
    /\ fresh \subseteq pending \union inflight \union response
    /\ GET_STALE_ORDERS \in pending => details # {}
    /\ oms = Orders /\ GET_STALE_ORDERS \in inflight => counter > 0

LEMMA InitFlowInv == Init => FlowInv
  BY DEF Init, FlowInv

LEMMA ProceedFlowInv ==
  ASSUME FlowInv, NEW acked, Proceed(acked, details'), details \subseteq details',
         UNCHANGED <<orderEntryVars, oms, fresh>>
  PROVE  FlowInv'
<1> USE DEF orderEntryVars
<1>1. PICK s \in State : ~Skipped(s, details') /\ Enter(s, acked)
  BY DEF Proceed
<1>2. CASE s \in Requests
  <2>1. pending' = pending \union {s} /\ response' = response \ {s}
    BY <1>1, <1>2 DEF Enter, Request
  <2>2. s = GET_STALE_ORDERS => details' # {}
    BY <1>1 DEF Skipped
  <2> QED
    BY <2>1, <2>2 DEF FlowInv
<1>3. CASE s \notin Requests
  BY <1>1, <1>3 DEF Enter, requestVars, FlowInv
<1> QED
  BY <1>2, <1>3

LEMMA FlowInvKept ==
  ASSUME FlowInv, UNCHANGED <<requestVars, orderEntryVars, details>>,
         fresh' \subseteq fresh, oms' = Orders => oms = Orders
  PROVE  FlowInv'
  BY DEF FlowInv, requestVars, orderEntryVars

LEMMA DropCopyFlowInv == IInv /\ IInv' /\ FlowInv /\ DropCopyNext => FlowInv'
<1> SUFFICES ASSUME IInv, IInv', FlowInv, DropCopyNext PROVE FlowInv'
  OBVIOUS
<1>1. CASE WebsocketReady
  BY <1>1, FlowInvKept DEF WebsocketReady
<1>2. CASE Login
  <2>1. Proceed({}, details') /\ details \subseteq details'
    BY <1>2 DEF Login
  <2> QED
    BY <1>2, <2>1, ProceedFlowInv DEF Login
<1>3. ASSUME NEW channel \in Channels, Subscribed(channel) PROVE FlowInv'
  <2>1. state = channel
    BY <1>3 DEF Subscribed, IInv, StageInv
  <2>2. Proceed({channel}, details') /\ details \subseteq details'
    BY <1>3, <2>1 DEF Subscribed
  <2>3. UNCHANGED <<orderEntryVars, oms, fresh>>
    BY <1>3, <2>1 DEF Subscribed
  <2> QED
    BY <2>2, <2>3, ProceedFlowInv
<1>4. ASSUME LoseWebsocket PROVE FlowInv'
  BY <1>4, FlowInvKept DEF LoseWebsocket
<1>5. ASSUME NEW reason, Stop(reason) PROVE FlowInv'
  BY <1>5, FlowInvKept DEF Stop, requestVars, orderEntryVars
<1>6. CASE DropCopyTimer
  <2>1. UNCHANGED <<orderEntryVars, oms, fresh>>
    BY <1>6 DEF DropCopyTimer
  <2>2. CASE CheckUndefined
    BY <2>1, <2>2, FlowInvKept DEF CheckUndefined
  <2>3. CASE CheckDownload
    <3>1. Proceed({}, details') /\ details \subseteq details'
      BY <2>3 DEF CheckDownload
    <3> QED
      BY <2>1, <3>1, ProceedFlowInv
  <2>4. CASE CheckOpenOrders
    <3>1. Proceed({}, details') /\ details \subseteq details'
      BY <2>4 DEF CheckOpenOrders
    <3> QED
      BY <2>1, <3>1, ProceedFlowInv
  <2>5. CASE CheckStaleOrders
    <3>1. details = {}
      BY <2>5 DEF CheckStaleOrders, IInv, NoFatal
    <3>2. Proceed({}, details') /\ details \subseteq details'
      BY <2>5, <3>1 DEF CheckStaleOrders
    <3> QED
      BY <2>1, <3>2, ProceedFlowInv
  <2> QED
    BY <1>6, <2>2, <2>3, <2>4, <2>5 DEF DropCopyTimer
<1> QED
  BY <1>1, <1>2, <1>3, <1>4, <1>5, <1>6 DEF DropCopyNext, WebsocketDisconnected, Error

LEMMA CheckPendingFlowInv ==
  ASSUME IInv, FlowInv, NEW k \in Requests, CheckPending(k)
  PROVE  FlowInv'
<1>1. /\ k \in pending
      /\ pending' = pending \ {k}
      /\ inflight' = {k}
      /\ fresh' = fresh \union ({k} \intersect {state})
      /\ UNCHANGED <<response, oms>>
  BY DEF CheckPending, GroupReady
<1>2. fresh' \subseteq pending' \union inflight' \union response'
  BY <1>1 DEF FlowInv, CheckPending, GroupReady
<1>3. CASE k = GET_STALE_ORDERS
  <2>1. counter' = counter + Cardinality(details \intersect oms)
    BY <1>3 DEF CheckPending, QueryStaleOrders
  <2>2. oms = Orders => counter' > 0
    <3> SUFFICES ASSUME oms = Orders PROVE counter' > 0
      OBVIOUS
    <3>1. details # {} /\ details \intersect oms = details
      BY <1>1, <1>3 DEF IInv, TypeOK, FlowInv
    <3>2. IsFiniteSet(details)
      BY OrdersAssumption, FS_Subset DEF IInv, TypeOK
    <3>3. Cardinality(details) \in Nat /\ Cardinality(details) # 0
      BY <3>1, <3>2, FS_CardinalityType, FS_EmptySet
    <3>4. counter' = counter + Cardinality(details)
      BY <2>1, <3>1
    <3>5. counter \in Nat
      BY DEF IInv, TypeOK
    <3> QED
      BY <3>3, <3>4, <3>5
  <2> QED
    BY <1>1, <1>2, <1>3, <2>2 DEF FlowInv
<1>4. CASE k # GET_STALE_ORDERS
  <2>1. details' = details
    BY <1>4 DEF CheckPending, SendOne
  <2> QED
    BY <1>1, <1>2, <1>4, <2>1 DEF FlowInv
<1> QED
  BY <1>3, <1>4

\* A request that ends was made again or has its answer now.
LEMMA CommitFlowInv ==
  ASSUME FlowInv, NEW k \in Requests, Commit(k),
         k # GET_STALE_ORDERS => counter' = counter,
         UNCHANGED <<pending, details, oms, fresh>>
  PROVE  FlowInv'
<1>1. inflight' = inflight \ {k} /\ response \subseteq response' /\ k \in pending \union response'
  BY DEF Commit
<1> QED
  BY <1>1 DEF FlowInv

LEMMA OrderEntryFlowInv == IInv /\ IInv' /\ FlowInv /\ OrderEntryNext => FlowInv'
<1> SUFFICES ASSUME IInv, IInv', FlowInv, OrderEntryNext PROVE FlowInv'
  OBVIOUS
<1>1. ASSUME NEW k \in Requests, CheckPending(k) PROVE FlowInv'
  BY <1>1, CheckPendingFlowInv
<1>2. ASSUME NEW k \in Requests, Answer(k) PROVE FlowInv'
  BY <1>2, CommitFlowInv DEF Answer
<1>3. CASE AnswerStaleOrder
  <2>1. counter # 0
    <3>1. unanswered[GET_STALE_ORDERS] > 0
      BY <1>3 DEF AnswerStaleOrder
    <3>2. unanswered[GET_STALE_ORDERS] = counter
      BY DEF IInv, FlightInv
    <3> QED
      BY <3>1, <3>2
  <2>2. counter' = counter - 1 /\ UNCHANGED <<pending, details, oms, fresh>>
    BY <1>3, <2>1 DEF AnswerStaleOrder
  <2>3. CASE counter = 1
    <3>1. Commit(GET_STALE_ORDERS)
      BY <1>3, <2>1, <2>3 DEF AnswerStaleOrder
    <3> QED
      BY <2>2, <3>1, CommitFlowInv DEF Requests
  <2>4. CASE counter # 1
    <3>1. UNCHANGED <<inflight, response>>
      BY <1>3, <2>1, <2>4 DEF AnswerStaleOrder
    <3>2. counter \in Nat
      BY DEF IInv, TypeOK
    <3>3. counter' > 0
      BY <2>1, <2>2, <2>4, <3>2
    <3> QED
      BY <2>2, <3>1, <3>3 DEF FlowInv
  <2> QED
    BY <2>3, <2>4
<1>4. ASSUME NEW k \in Requests, Redirected(k) PROVE FlowInv'
  BY <1>4, FlowInvKept DEF Redirected, Stop, requestVars, orderEntryVars
<1>5. CASE RestConnected \/ RestDisconnected
  BY <1>5, FlowInvKept DEF RestConnected, RestDisconnected
<1> QED
  BY <1>1, <1>2, <1>3, <1>4, <1>5 DEF OrderEntryNext

LEMMA NextFlowInv == IInv /\ IInv' /\ FlowInv /\ [Next]_vars => FlowInv'
<1> SUFFICES ASSUME IInv, IInv', FlowInv, [Next]_vars PROVE FlowInv'
  OBVIOUS
<1>1. CASE DropCopyNext
  BY <1>1, DropCopyFlowInv
<1>2. CASE OrderEntryNext
  BY <1>2, OrderEntryFlowInv
<1>3. ASSUME NEW order \in Orders, Purge(order) PROVE FlowInv'
  BY <1>3, FlowInvKept DEF Purge
<1>4. CASE UNCHANGED vars
  BY <1>4, FlowInvKept DEF vars, requestVars, orderEntryVars
<1> QED
  BY <1>1, <1>2, <1>3, <1>4 DEF Next

\* None of the steps that Fairness is about is possible: both connections are up, nothing
\* is awaited, nothing can be sent and the request of the stage at hand has no answer.
AtRest ==
    /\ process = "running"
    /\ status \notin {"DISCONNECTED", "LOGIN_SENT"} /\ awaiting = {}
    /\ rest
    /\ GroupReady(inflight) => pending = {}
    /\ \A k \in Requests : unanswered[k] = 0
    /\ state \in Requests => state \notin response

LEMMA ReadyAtRest == IInv /\ FlowInv /\ AtRest => status = "READY" \/ oms # Orders
<1> SUFFICES ASSUME IInv, FlowInv, AtRest, oms = Orders PROVE status = "READY"
  OBVIOUS
<1>1. inflight = {}
  <2> SUFFICES ASSUME NEW k \in inflight PROVE FALSE
    OBVIOUS
  <2>1. k \in Requests /\ unanswered[k] = 0
    BY DEF IInv, TypeOK, AtRest
  <2>2. k = GET_STALE_ORDERS
    BY <2>1 DEF IInv, FlightInv
  <2>3. counter > 0 /\ counter = 0
    BY <2>1, <2>2 DEF IInv, FlightInv, FlowInv
  <2> QED
    BY <2>3
<1>2. pending = {}
  BY <1>1 DEF AtRest, GroupReady
<1>3. state \notin Requests
  BY <1>1, <1>2 DEF IInv, SessionInv, FlowInv, AtRest
<1>4. state \notin Channels /\ state # UNDEFINED
  BY DEF IInv, StageInv, AtRest
<1>5. state = DONE
  BY <1>3, <1>4 DEF IInv, TypeOK, State, Requests, Channels
<1> QED
  BY <1>5 DEF IInv, StageInv

\* The download never comes to rest before the account is READY, wherever the connections
\* were lost, unless the order manager has forgotten an order: then the request for the
\* stale orders may be in flight for good without a query that could end it.
THEOREM DownloadNeverStuck == Spec => [](AtRest => status = "READY" \/ oms # Orders)
  BY InitFlowInv, NextFlowInv, ReadyAtRest, Invariance, PTL DEF Spec

=============================================================================

----------------------- MODULE AccountUpdatesProofs -----------------------
(***************************************************************************)
(* Clients hold the position of the account and know its fills, for any    *)
(* number of fills, of lost connections and of fills an answer holds.      *)
(*                                                                         *)
(* The argument: while the answer of a session is outstanding its channel  *)
(* is subscribed, so that whatever the exchange executed since the request *)
(* was sent is in the queue of the channel or was received; and a request  *)
(* of this session is not made a second time, nor can the answer to an     *)
(* earlier one still come after it was sent.                               *)
(***************************************************************************)
EXTENDS AccountUpdates, AccountDownloadProofs

USE DEF UNDEFINED, SUBSCRIBE_ACCOUNT, GET_ACCOUNT, SUBSCRIBE_BALANCE, GET_BALANCES,
        SUBSCRIBE_POSITIONS, GET_POSITIONS, SUBSCRIBE_ORDERS, GET_OPEN_ORDERS,
        GET_STALE_ORDERS, GET_TRADES, DONE

-----------------------------------------------------------------------------
(* The inductive invariant. *)

DataInv ==
    /\ executed \in 0 .. MaxFills
    /\ queued \in [Pushing -> Nat]
    /\ \A channel \in Pushing : queued[channel] <= executed
    /\ sentAt \in 0 .. executed
    /\ position \in 0 .. executed
    /\ basis \in {"none", "snapshot", "overtaken"}
    /\ fills \subseteq 1 .. executed
    /\ downloaded \in {NotDownloaded} \union 0 .. executed

\* A session makes a request once.
FreshInv == \A k \in fresh : k \notin pending

\* The fills whose messages left the channel.
Arrived(channel) == executed - queued[channel]

PositionInv ==
    /\ basis # "none" => GET_POSITIONS \in fresh /\ GET_POSITIONS \notin inflight
    /\ process = "running" /\ GET_POSITIONS \in fresh /\ GET_POSITIONS \in inflight =>
        Arrived(SUBSCRIBE_POSITIONS) <= sentAt \/ Arrived(SUBSCRIBE_POSITIONS) <= position
    /\ basis = "snapshot" => Arrived(SUBSCRIBE_POSITIONS) <= position

Known(fill) == fill \in fills \/ fill > Arrived(SUBSCRIBE_ORDERS)

FillsInv ==
    /\ downloaded # NotDownloaded => GET_TRADES \in fresh /\ GET_TRADES \notin inflight
    /\ process = "running" /\ GET_TRADES \in fresh /\ GET_TRADES \in inflight =>
        \A fill \in 1 .. executed : fill > sentAt => Known(fill)
    /\ downloaded # NotDownloaded =>
        \A fill \in 1 .. executed : fill > downloaded - TradesLimit => Known(fill)

UInv ==
    /\ IInv
    /\ DataInv
    /\ FreshInv
    /\ PositionInv
    /\ FillsInv

LEMMA InitUInv == InitUpdates => UInv
<1> SUFFICES ASSUME InitUpdates PROVE UInv
  OBVIOUS
<1>1. IInv
  BY InitIInv DEF InitUpdates
<1>2. DataInv
  BY FillsAssumption DEF InitUpdates, DataInv, Pushing
<1>3. FreshInv /\ PositionInv /\ FillsInv
  BY DEF InitUpdates, Init, FreshInv, PositionInv, FillsInv
<1> QED
  BY <1>1, <1>2, <1>3 DEF UInv

-----------------------------------------------------------------------------
(* The download. *)

LEMMA UpdatesAreDownload == NextUpdates => [Next]_vars
<1> SUFFICES ASSUME NextUpdates PROVE [Next]_vars
  OBVIOUS
<1>1. CASE Elsewhere
  BY <1>1 DEF Elsewhere, Next, DropCopyNext, OrderEntryNext
<1>2. CASE Lost
  BY <1>2 DEF Lost, Next, DropCopyNext
<1>3. CASE \E k \in Requests : Send(k)
  BY <1>3 DEF Send, Next, OrderEntryNext
<1>4. CASE \E asOf \in 0 .. executed : PositionsAck(asOf)
  BY <1>4 DEF PositionsAck, Next, OrderEntryNext, Requests
<1>5. CASE \E asOf \in 0 .. executed : TradesAck(asOf)
  BY <1>5 DEF TradesAck, Next, OrderEntryNext, Requests
<1>6. CASE \E k \in Requests : OtherAck(k)
  BY <1>6 DEF OtherAck, Next, OrderEntryNext
<1>7. CASE \E fill \in 1 .. executed : Positions(fill) \/ OrdersFill(fill)
  BY <1>7 DEF Positions, OrdersFill, Receive
<1>8. CASE Execute
  BY <1>8 DEF Execute
<1> QED
  BY <1>1, <1>2, <1>3, <1>4, <1>5, <1>6, <1>7, <1>8 DEF NextUpdates

\* A stage that is entered was not asked for by this session.
LEMMA ProceedFresh ==
    ASSUME IInv, FreshInv, NEW acked, NEW stale, Proceed(acked, stale), UNCHANGED fresh
    PROVE  FreshInv'
<1>1. PICK s \in State : s > state /\ Enter(s, acked)
  BY DEF Proceed
<1>2. pending' \subseteq pending \union {s}
  BY <1>1 DEF Enter, Request, requestVars
<1>3. s \notin fresh
  BY <1>1 DEF IInv, TypeOK, SessionInv, State
<1> QED
  BY <1>2, <1>3 DEF FreshInv

LEMMA NextFresh == IInv /\ FreshInv /\ [Next]_vars => FreshInv'
<1> SUFFICES ASSUME IInv, FreshInv, [Next]_vars PROVE FreshInv'
  OBVIOUS
<1>1. ASSUME UNCHANGED <<fresh, pending>> PROVE FreshInv'
  BY <1>1 DEF FreshInv
<1>2. ASSUME NEW k \in Requests, CheckPending(k) PROVE FreshInv'
  BY <1>2 DEF CheckPending, FreshInv
<1>3. CASE Login
  BY <1>3, ProceedFresh DEF Login
<1>4. ASSUME NEW channel \in Channels, Subscribed(channel) PROVE FreshInv'
  BY <1>1, <1>4, ProceedFresh DEF Subscribed, Stop
<1>5. CASE WebsocketDisconnected \/ Error
  <2>1. fresh' = {} \/ UNCHANGED <<fresh, pending>>
    BY <1>5 DEF WebsocketDisconnected, Error, LoseWebsocket, Stop
  <2> QED
    BY <1>1, <2>1 DEF FreshInv
<1>6. CASE DropCopyTimer
  <2>1. UNCHANGED fresh
    BY <1>6 DEF DropCopyTimer
  <2>2. CASE CheckUndefined
    BY <1>1, <2>1, <2>2 DEF CheckUndefined, requestVars
  <2>3. CASE CheckDownload
    BY <2>1, <2>3, ProceedFresh DEF CheckDownload
  <2>4. CASE CheckOpenOrders
    BY <2>1, <2>4, ProceedFresh DEF CheckOpenOrders
  <2>5. CASE CheckStaleOrders
    BY <1>1, <2>1, <2>5, ProceedFresh DEF CheckStaleOrders, requestVars
  <2> QED
    BY <1>6, <2>2, <2>3, <2>4, <2>5 DEF DropCopyTimer
<1>7. CASE WebsocketReady \/ RestConnected \/ RestDisconnected
           \/ \E order \in Orders : Purge(order)
  BY <1>1, <1>7 DEF WebsocketReady, RestConnected, RestDisconnected, Purge, requestVars
<1>8. ASSUME NEW k \in Requests, Answer(k) \/ Redirected(k) PROVE FreshInv'
  BY <1>1, <1>8 DEF Answer, Redirected, Stop
<1>9. CASE AnswerStaleOrder
  BY <1>1, <1>9 DEF AnswerStaleOrder, Stop
<1>10. CASE UNCHANGED vars
  BY <1>1, <1>10 DEF vars
<1> QED
  BY <1>2, <1>3, <1>4, <1>5, <1>6, <1>7, <1>8, <1>9, <1>10
  DEF Next, DropCopyNext, OrderEntryNext

\* The steps elsewhere send nothing.
LEMMA ElsewhereSendsNothing ==
    ASSUME Elsewhere
    PROVE  process = "running" /\ UNCHANGED fresh /\ inflight' \subseteq inflight
<1>1. CASE WebsocketReady \/ Login \/ DropCopyTimer \/ RestConnected \/ RestDisconnected
  BY <1>1 DEF WebsocketReady, Login, DropCopyTimer, RestConnected, RestDisconnected, orderEntryVars
<1>2. ASSUME NEW channel \in Channels, Subscribed(channel)
      PROVE  process = "running" /\ UNCHANGED fresh /\ inflight' \subseteq inflight
  BY <1>2 DEF Subscribed, Stop, orderEntryVars
<1>3. CASE AnswerStaleOrder
  BY <1>3 DEF AnswerStaleOrder, Stop, Commit
<1>4. ASSUME NEW k \in Requests, Redirected(k)
      PROVE  process = "running" /\ UNCHANGED fresh /\ inflight' \subseteq inflight
  BY <1>4 DEF Redirected, Stop
<1>5. ASSUME NEW order \in Orders, Purge(order)
      PROVE  process = "running" /\ UNCHANGED fresh /\ inflight' \subseteq inflight
  BY <1>5 DEF Purge, orderEntryVars
<1> QED
  BY <1>1, <1>2, <1>3, <1>4, <1>5 DEF Elsewhere

\* The answer that comes ends the one request in flight.
LEMMA AnswerEnds ==
    ASSUME IInv, NEW k \in Requests, Answer(k)
    PROVE  /\ k \in inflight /\ inflight' = {}
           /\ UNCHANGED fresh
<1>1. k \in inflight
  BY DEF Answer, IInv, FlightInv
<1>2. \A j \in inflight : j = k
  BY <1>1 DEF IInv, FlightInv
<1> QED
  BY <1>1, <1>2 DEF Answer, Commit

\* While a request of a session is outstanding, or was, its channel is subscribed.
LEMMA FreshPushes ==
    ASSUME IInv
    PROVE  /\ GET_POSITIONS \in fresh => Pushes(SUBSCRIBE_POSITIONS)
           /\ GET_TRADES \in fresh => Pushes(SUBSCRIBE_ORDERS)
  BY DEF IInv, SessionInv, StageInv, TypeOK, State, Pushes

-----------------------------------------------------------------------------
(* Each step keeps the invariant. *)

LEMMA ElsewhereUInv == UInv /\ Elsewhere => DataInv' /\ PositionInv' /\ FillsInv'
<1> SUFFICES ASSUME UInv, Elsewhere PROVE DataInv' /\ PositionInv' /\ FillsInv'
  OBVIOUS
<1>1. UNCHANGED <<executed, queued, sentAt, position, basis, fills, downloaded>>
  BY DEF Elsewhere, updateVars
<1>2. process = "running" /\ UNCHANGED fresh /\ inflight' \subseteq inflight
  BY ElsewhereSendsNothing
<1>3. DataInv'
  BY <1>1 DEF UInv, DataInv
<1>4. PositionInv'
  BY <1>1, <1>2 DEF UInv, PositionInv, Arrived
<1>5. FillsInv'
  BY <1>1, <1>2 DEF UInv, FillsInv, Arrived, Known
<1> QED
  BY <1>3, <1>4, <1>5

LEMMA LostUInv == UInv /\ Lost => DataInv' /\ PositionInv' /\ FillsInv'
<1> SUFFICES ASSUME UInv, Lost PROVE DataInv' /\ PositionInv' /\ FillsInv'
  OBVIOUS
<1>1. /\ queued' = [channel \in Pushing |-> 0]
      /\ basis' = "none" /\ downloaded' = NotDownloaded
      /\ UNCHANGED <<executed, sentAt, position, fills>>
      /\ fresh' = {} \/ process' # "running"
  BY DEF Lost, WebsocketDisconnected, Error, LoseWebsocket, Stop
<1>2. DataInv /\ executed \in Nat
  BY FillsAssumption DEF UInv, DataInv
<1>3. DataInv'
  <2>1. queued' \in [Pushing -> Nat] /\ \A channel \in Pushing : queued'[channel] <= executed'
    BY <1>1, <1>2
  <2>2. sentAt' \in 0 .. executed' /\ position' \in 0 .. executed' /\ executed' \in 0 .. MaxFills
    BY <1>1, <1>2 DEF DataInv
  <2>3. fills' \subseteq 1 .. executed'
    BY <1>1, <1>2 DEF DataInv
  <2> QED
    BY <1>1, <2>1, <2>2, <2>3 DEF DataInv
<1>4. PositionInv'
  BY <1>1 DEF PositionInv
<1>5. FillsInv'
  BY <1>1 DEF FillsInv
<1> QED
  BY <1>3, <1>4, <1>5

LEMMA SendUInv ==
    ASSUME UInv, NEW k \in Requests, Send(k)
    PROVE  DataInv' /\ PositionInv' /\ FillsInv'
<1>1. /\ sentAt' = executed
      /\ UNCHANGED <<executed, queued, position, basis, fills, downloaded, process>>
      /\ k \in pending /\ inflight = {} /\ inflight' = {k}
      /\ fresh' = fresh \union ({k} \intersect {state})
  BY DEF Send, CheckPending, GroupReady
<1>2. DataInv /\ FreshInv /\ PositionInv /\ FillsInv
  BY DEF UInv
<1>3. executed \in Nat /\ queued \in [Pushing -> Nat]
      /\ SUBSCRIBE_POSITIONS \in Pushing /\ SUBSCRIBE_ORDERS \in Pushing
  BY <1>2, FillsAssumption DEF DataInv, Pushing
<1>4. k \notin fresh
  BY <1>1, <1>2 DEF FreshInv
<1>5. DataInv'
  BY <1>1, <1>2, <1>3 DEF DataInv
<1>6. PositionInv'
  <2>1. Arrived(SUBSCRIBE_POSITIONS)' <= sentAt'
    BY <1>1, <1>3 DEF Arrived
  <2> QED
    BY <1>1, <1>2, <1>4, <2>1 DEF PositionInv, Arrived
<1>7. FillsInv'
  <2>1. \A fill \in 1 .. executed' : ~(fill > sentAt')
    BY <1>1, <1>3
  <2> QED
    BY <1>1, <1>2, <1>4, <2>1 DEF FillsInv, Known, Arrived
<1> QED
  BY <1>5, <1>6, <1>7

LEMMA PositionsAckUInv ==
    ASSUME UInv, NEW asOf \in 0 .. executed, PositionsAck(asOf)
    PROVE  DataInv' /\ PositionInv' /\ FillsInv'
<1>1. /\ asOf \in sentAt .. executed
      /\ position' = asOf
      /\ basis' = (CASE GET_POSITIONS \notin fresh -> basis
                     [] GET_POSITIONS \in fresh /\ asOf < position -> "overtaken"
                     [] OTHER -> "snapshot")
      /\ UNCHANGED <<executed, queued, sentAt, fills, downloaded>>
      /\ process = "running"
  BY DEF PositionsAck, Answer
<1>2. /\ GET_POSITIONS \in inflight /\ inflight' = {} /\ UNCHANGED fresh
  BY AnswerEnds DEF PositionsAck, UInv, Requests
<1>3. DataInv /\ PositionInv /\ FillsInv
  BY DEF UInv
<1>4. /\ executed \in Nat /\ queued \in [Pushing -> Nat]
      /\ SUBSCRIBE_POSITIONS \in Pushing
      /\ sentAt \in Nat /\ position \in Nat /\ asOf \in Nat
  BY <1>3, FillsAssumption DEF DataInv, Pushing
<1>5. DataInv'
  BY <1>1, <1>3, <1>4 DEF DataInv
<1>6. basis = "none"
  BY <1>2, <1>3 DEF PositionInv
<1>7. PositionInv'
  <2>1. basis' # "none" => GET_POSITIONS \in fresh'
    BY <1>1, <1>2, <1>6
  <2>2. ASSUME basis' = "snapshot" PROVE Arrived(SUBSCRIBE_POSITIONS)' <= position'
    <3>1. GET_POSITIONS \in fresh /\ ~(asOf < position)
      BY <1>1, <1>6, <2>2
    <3>2. Arrived(SUBSCRIBE_POSITIONS) <= sentAt \/ Arrived(SUBSCRIBE_POSITIONS) <= position
      BY <1>1, <1>2, <1>3, <3>1 DEF PositionInv
    <3> QED
      BY <1>1, <1>4, <3>1, <3>2 DEF Arrived
  <2> QED
    BY <1>2, <2>1, <2>2 DEF PositionInv
<1>8. FillsInv'
  BY <1>1, <1>2, <1>3 DEF FillsInv, Known, Arrived
<1> QED
  BY <1>5, <1>7, <1>8

LEMMA TradesAckUInv ==
    ASSUME UInv, NEW asOf \in 0 .. executed, TradesAck(asOf)
    PROVE  DataInv' /\ PositionInv' /\ FillsInv'
<1>1. /\ asOf \in sentAt .. executed
      /\ fills' = fills \union Answered(asOf)
      /\ downloaded' = (IF GET_TRADES \in fresh THEN asOf ELSE downloaded)
      /\ UNCHANGED <<executed, queued, sentAt, position, basis>>
      /\ process = "running"
  BY DEF TradesAck, Answer
<1>2. GET_TRADES \in inflight /\ inflight' = {} /\ UNCHANGED fresh
  BY AnswerEnds DEF TradesAck, UInv, Requests
<1>3. DataInv /\ PositionInv /\ FillsInv
  BY DEF UInv
<1>4. /\ executed \in Nat /\ sentAt \in Nat /\ asOf \in Nat /\ TradesLimit \in Nat
  BY <1>3, FillsAssumption DEF DataInv
<1>5. DataInv'
  <2>1. fills' \subseteq 1 .. executed'
    <3>1. Answered(asOf) \subseteq 1 .. executed
      BY <1>4 DEF Answered
    <3>2. fills \subseteq 1 .. executed /\ UNCHANGED executed
      BY <1>1, <1>3 DEF DataInv
    <3> QED
      BY <1>1, <3>1, <3>2
  <2>2. downloaded' \in {NotDownloaded} \union 0 .. executed'
    BY <1>1, <1>3 DEF DataInv
  <2> QED
    BY <1>1, <1>3, <2>1, <2>2 DEF DataInv
<1>6. PositionInv'
  BY <1>1, <1>2, <1>3 DEF PositionInv, Arrived
<1>7. FillsInv'
  <2>1. \A fill : Known(fill) => Known(fill)'
    BY <1>1 DEF Known, Arrived
  <2>2. CASE GET_TRADES \notin fresh
    BY <1>1, <1>2, <1>3, <2>1, <2>2 DEF FillsInv
  <2>3. CASE GET_TRADES \in fresh
    <3>1. ASSUME NEW fill \in 1 .. executed, fill > asOf - TradesLimit PROVE Known(fill)'
      <4>1. CASE fill <= asOf
        <5>1. fill \in Answered(asOf)
          BY <1>4, <3>1, <4>1 DEF Answered
        <5> QED
          BY <1>1, <5>1 DEF Known
      <4>2. CASE fill > asOf
        <5>1. fill > sentAt
          BY <1>1, <1>4, <4>2
        <5>2. Known(fill)
          BY <1>1, <1>2, <1>3, <2>3, <5>1 DEF FillsInv
        <5> QED
          BY <2>1, <5>2
      <4> QED
        BY <1>4, <4>1, <4>2
    <3>2. downloaded' = asOf /\ executed' = executed
      BY <1>1, <2>3
    <3> QED
      BY <1>2, <2>3, <3>1, <3>2 DEF FillsInv
  <2> QED
    BY <2>2, <2>3
<1> QED
  BY <1>5, <1>6, <1>7

LEMMA OtherAckUInv ==
    ASSUME UInv, NEW k \in Requests, OtherAck(k)
    PROVE  DataInv' /\ PositionInv' /\ FillsInv'
<1>1. UNCHANGED <<executed, queued, sentAt, position, basis, fills, downloaded>>
  BY DEF OtherAck, updateVars
<1>2. inflight' = {} /\ UNCHANGED fresh
  BY AnswerEnds DEF OtherAck, UInv
<1>3. DataInv'
  BY <1>1 DEF UInv, DataInv
<1>4. PositionInv'
  BY <1>1, <1>2 DEF UInv, PositionInv, Arrived
<1>5. FillsInv'
  BY <1>1, <1>2 DEF UInv, FillsInv, Arrived, Known
<1> QED
  BY <1>3, <1>4, <1>5

\* The fill of a message is the first that had not arrived.
LEMMA ReceiveArrives ==
    ASSUME DataInv, NEW channel \in Pushing, NEW fill, Receive(channel, fill)
    PROVE  /\ fill \in 1 .. executed
           /\ fill = Arrived(channel) + 1
           /\ Arrived(channel) \in Nat
           /\ Arrived(channel)' = fill
           /\ \A other \in Pushing : other # channel => Arrived(other)' = Arrived(other)
           /\ queued' \in [Pushing -> Nat]
           /\ \A c \in Pushing : queued'[c] <= executed
           /\ process = "running"
           /\ UNCHANGED <<process, fresh, inflight, executed, sentAt>>
<1>1. /\ queued[channel] > 0
      /\ fill = executed - queued[channel] + 1
      /\ queued' = [queued EXCEPT ![channel] = @ - 1]
      /\ process = "running"
      /\ UNCHANGED <<process, fresh, inflight, executed, sentAt>>
  BY DEF Receive, vars
<1>2. /\ executed \in Nat /\ queued \in [Pushing -> Nat]
      /\ \A c \in Pushing : queued[c] <= executed
  BY FillsAssumption DEF DataInv
<1>3. queued'[channel] = queued[channel] - 1
  BY <1>1, <1>2
<1>4. \A other \in Pushing : other # channel => queued'[other] = queued[other]
  BY <1>1, <1>2
<1>5. queued[channel] \in Nat /\ queued[channel] <= executed
  BY <1>2
<1>6. queued' \in [Pushing -> Nat] /\ \A c \in Pushing : queued'[c] <= executed
  BY <1>1, <1>2, <1>3, <1>4, <1>5
<1> QED
  BY <1>1, <1>2, <1>3, <1>4, <1>5, <1>6 DEF Arrived

LEMMA PositionsUInv ==
    ASSUME UInv, NEW fill \in 1 .. executed, Positions(fill)
    PROVE  DataInv' /\ PositionInv' /\ FillsInv'
<1>1. DataInv /\ PositionInv /\ FillsInv
  BY DEF UInv
<1>2. /\ SUBSCRIBE_POSITIONS \in Pushing /\ SUBSCRIBE_ORDERS \in Pushing
      /\ SUBSCRIBE_POSITIONS # SUBSCRIBE_ORDERS
  BY DEF Pushing
<1>3. /\ Receive(SUBSCRIBE_POSITIONS, fill)
      /\ position' = fill
      /\ basis' = (IF basis = "overtaken" THEN "snapshot" ELSE basis)
      /\ UNCHANGED <<fills, downloaded>>
  BY DEF Positions
<1>4. /\ Arrived(SUBSCRIBE_POSITIONS)' = fill
      /\ Arrived(SUBSCRIBE_ORDERS)' = Arrived(SUBSCRIBE_ORDERS)
      /\ queued' \in [Pushing -> Nat]
      /\ \A c \in Pushing : queued'[c] <= executed
      /\ UNCHANGED <<process, fresh, inflight, executed, sentAt>>
  BY <1>1, <1>2, <1>3, ReceiveArrives
<1>5. executed \in Nat /\ fill \in Nat
  BY <1>1, FillsAssumption DEF DataInv
<1>6. DataInv'
  BY <1>1, <1>3, <1>4, <1>5 DEF DataInv
<1>7. PositionInv'
  BY <1>1, <1>3, <1>4, <1>5 DEF PositionInv
<1>8. FillsInv'
  BY <1>1, <1>3, <1>4 DEF FillsInv, Known
<1> QED
  BY <1>6, <1>7, <1>8

LEMMA OrdersFillUInv ==
    ASSUME UInv, NEW fill \in 1 .. executed, OrdersFill(fill)
    PROVE  DataInv' /\ PositionInv' /\ FillsInv'
<1>1. DataInv /\ PositionInv /\ FillsInv
  BY DEF UInv
<1>2. /\ SUBSCRIBE_POSITIONS \in Pushing /\ SUBSCRIBE_ORDERS \in Pushing
      /\ SUBSCRIBE_POSITIONS # SUBSCRIBE_ORDERS
  BY DEF Pushing
<1>3. /\ Receive(SUBSCRIBE_ORDERS, fill)
      /\ fills' = fills \union {fill}
      /\ UNCHANGED <<position, basis, downloaded>>
  BY DEF OrdersFill
<1>4. /\ Arrived(SUBSCRIBE_ORDERS)' = fill
      /\ fill = Arrived(SUBSCRIBE_ORDERS) + 1
      /\ Arrived(SUBSCRIBE_ORDERS) \in Nat
      /\ Arrived(SUBSCRIBE_POSITIONS)' = Arrived(SUBSCRIBE_POSITIONS)
      /\ queued' \in [Pushing -> Nat]
      /\ \A c \in Pushing : queued'[c] <= executed
      /\ UNCHANGED <<process, fresh, inflight, executed, sentAt>>
  BY <1>1, <1>2, <1>3, ReceiveArrives
<1>5. executed \in Nat /\ fill \in Nat
  BY <1>1, FillsAssumption DEF DataInv
<1>6. DataInv'
  BY <1>1, <1>3, <1>4, <1>5 DEF DataInv
<1>7. PositionInv'
  BY <1>1, <1>3, <1>4 DEF PositionInv
<1>8. \A f \in 1 .. executed : Known(f) => Known(f)'
  <2> SUFFICES ASSUME NEW f \in 1 .. executed, Known(f) PROVE f \in fills' \/ f > fill
    BY <1>4 DEF Known
  <2>1. f \in Nat /\ (f \in fills \/ f > Arrived(SUBSCRIBE_ORDERS))
    BY <1>5 DEF Known
  <2>2. f > Arrived(SUBSCRIBE_ORDERS) => f = fill \/ f > fill
    BY <1>4, <2>1
  <2> QED
    BY <1>3, <2>1, <2>2
<1>9. FillsInv'
  BY <1>1, <1>3, <1>4, <1>8 DEF FillsInv
<1> QED
  BY <1>6, <1>7, <1>9

LEMMA ExecuteUInv == UInv /\ Execute => DataInv' /\ PositionInv' /\ FillsInv'
<1> SUFFICES ASSUME UInv, Execute PROVE DataInv' /\ PositionInv' /\ FillsInv'
  OBVIOUS
<1>1. /\ executed < MaxFills
      /\ executed' = executed + 1
      /\ queued' = [channel \in Pushing |-> queued[channel] + IF Pushes(channel) THEN 1 ELSE 0]
      /\ UNCHANGED <<process, fresh, inflight, sentAt, position, basis, fills, downloaded>>
  BY DEF Execute, vars
<1>2. IInv /\ DataInv /\ PositionInv /\ FillsInv
  BY DEF UInv
<1>3. /\ executed \in Nat /\ MaxFills \in Nat /\ queued \in [Pushing -> Nat]
      /\ \A c \in Pushing : queued[c] <= executed
  BY <1>2, FillsAssumption DEF DataInv
<1>4. ASSUME NEW c \in Pushing
      PROVE  /\ queued'[c] \in Nat /\ queued'[c] <= executed'
             /\ Pushes(c) => Arrived(c)' = Arrived(c) /\ Arrived(c)' < executed'
  <2>1. queued[c] \in Nat /\ queued[c] <= executed
    BY <1>3
  <2>2. CASE Pushes(c)
    <3>1. queued'[c] = queued[c] + 1
      BY <1>1, <2>2
    <3> QED
      BY <1>1, <1>3, <2>1, <3>1 DEF Arrived
  <2>3. CASE ~Pushes(c)
    <3>1. queued'[c] = queued[c] + 0
      BY <1>1, <2>3
    <3> QED
      BY <1>1, <1>3, <2>1, <2>3, <3>1
  <2> QED
    BY <2>2, <2>3
<1>5. DataInv'
  <2>1. queued' \in [Pushing -> Nat] /\ \A c \in Pushing : queued'[c] <= executed'
    BY <1>1, <1>4
  <2>2. executed' \in 0 .. MaxFills /\ 0 .. executed \subseteq 0 .. executed'
        /\ 1 .. executed \subseteq 1 .. executed'
    BY <1>1, <1>3
  <2> QED
    BY <1>1, <1>2, <2>1, <2>2 DEF DataInv
<1>6. SUBSCRIBE_POSITIONS \in Pushing /\ SUBSCRIBE_ORDERS \in Pushing
  BY DEF Pushing
<1>7. PositionInv'
  <2>1. GET_POSITIONS \in fresh => Arrived(SUBSCRIBE_POSITIONS)' = Arrived(SUBSCRIBE_POSITIONS)
    BY <1>2, <1>4, <1>6, FreshPushes
  <2> QED
    BY <1>1, <1>2, <2>1 DEF PositionInv
<1>8. FillsInv'
  <2>1. ASSUME GET_TRADES \in fresh, NEW fill \in 1 .. executed',
               fill \in 1 .. executed => Known(fill)
        PROVE  Known(fill)'
    <3>1. /\ Arrived(SUBSCRIBE_ORDERS)' = Arrived(SUBSCRIBE_ORDERS)
          /\ executed' > Arrived(SUBSCRIBE_ORDERS)'
      BY <1>1, <1>2, <1>3, <1>4, <1>6, <2>1, FreshPushes DEF Arrived
    <3>2. fills' = fills
      BY <1>1
    <3>3. fill \in 1 .. executed \/ fill = executed'
      BY <1>1, <1>3
    <3> QED
      BY <2>1, <3>1, <3>2, <3>3 DEF Known
  <2>2. ASSUME downloaded' # NotDownloaded,
               NEW fill \in 1 .. executed', fill > downloaded' - TradesLimit
        PROVE  Known(fill)'
    BY <1>1, <1>2, <2>1, <2>2 DEF FillsInv
  <2>3. ASSUME process' = "running", GET_TRADES \in fresh', GET_TRADES \in inflight',
               NEW fill \in 1 .. executed', fill > sentAt'
        PROVE  Known(fill)'
    BY <1>1, <1>2, <2>1, <2>3 DEF FillsInv
  <2>4. downloaded' # NotDownloaded => GET_TRADES \in fresh' /\ GET_TRADES \notin inflight'
    BY <1>1, <1>2 DEF FillsInv
  <2> QED
    BY <2>2, <2>3, <2>4 DEF FillsInv
<1> QED
  BY <1>5, <1>7, <1>8

LEMMA NextUInv == UInv /\ [NextUpdates]_allVars => UInv'
<1> SUFFICES ASSUME UInv, [NextUpdates]_allVars PROVE UInv'
  OBVIOUS
<1>1. IInv' /\ FreshInv'
  <2>1. [Next]_vars
    BY UpdatesAreDownload DEF allVars
  <2> QED
    BY <2>1, NextIInv, NextFresh DEF UInv
<1>2. CASE Elsewhere
  BY <1>1, <1>2, ElsewhereUInv DEF UInv
<1>3. CASE Lost
  BY <1>1, <1>3, LostUInv DEF UInv
<1>4. CASE \E k \in Requests : Send(k)
  BY <1>1, <1>4, SendUInv DEF UInv
<1>5. CASE \E asOf \in 0 .. executed : PositionsAck(asOf)
  BY <1>1, <1>5, PositionsAckUInv DEF UInv
<1>6. CASE \E asOf \in 0 .. executed : TradesAck(asOf)
  BY <1>1, <1>6, TradesAckUInv DEF UInv
<1>7. CASE \E k \in Requests : OtherAck(k)
  BY <1>1, <1>7, OtherAckUInv DEF UInv
<1>8. CASE \E fill \in 1 .. executed : Positions(fill)
  BY <1>1, <1>8, PositionsUInv DEF UInv
<1>9. CASE \E fill \in 1 .. executed : OrdersFill(fill)
  BY <1>1, <1>9, OrdersFillUInv DEF UInv
<1>10. CASE Execute
  BY <1>1, <1>10, ExecuteUInv DEF UInv
<1>11. CASE UNCHANGED allVars
  <2>1. UNCHANGED <<process, fresh, inflight>> /\ UNCHANGED updateVars
    BY <1>11 DEF allVars, vars
  <2>2. UNCHANGED <<executed, queued, sentAt, position, basis, fills, downloaded>>
    BY <2>1 DEF updateVars
  <2>3. DataInv'
    BY <2>2 DEF UInv, DataInv
  <2>4. PositionInv' /\ FillsInv'
    BY <2>1, <2>2 DEF UInv, PositionInv, FillsInv, Arrived, Known
  <2> QED
    BY <1>1, <2>3, <2>4 DEF UInv
<1> QED
  BY <1>2, <1>3, <1>4, <1>5, <1>6, <1>7, <1>8, <1>9, <1>10, <1>11 DEF NextUpdates

-----------------------------------------------------------------------------
(* The theorems. *)

LEMMA UpdatesInvariance == SpecUpdates => []UInv
  BY InitUInv, NextUInv, PTL DEF SpecUpdates

\* Types hold for any bounds: more messages of a channel are never on their way than there
\* were fills, and no position or fill is published that the exchange did not execute.
THEOREM UpdatesTypeCorrect == SpecUpdates => []UpdatesTypeOK
<1>1. UInv => UpdatesTypeOK
  <2> SUFFICES ASSUME UInv PROVE UpdatesTypeOK
    OBVIOUS
  <2>1. TypeOK /\ DataInv
    BY DEF UInv, IInv
  <2>2. \A channel \in Pushing : queued[channel] \in 0 .. MaxFills
    BY <2>1, FillsAssumption DEF DataInv
  <2>3. queued \in [Pushing -> 0 .. MaxFills]
    BY <2>1, <2>2 DEF DataInv
  <2> QED
    BY <2>1, <2>3 DEF UpdatesTypeOK, DataInv
<1> QED
  BY UpdatesInvariance, <1>1, PTL

\* A session that obtained the positions and handled what was pushed has the position of
\* the exchange, for any fills and lost connections, however late the answers come.
THEOREM PositionsAreCurrent == SpecUpdates => []PositionCurrent
<1>1. UInv => PositionCurrent
  <2> SUFFICES ASSUME UInv, basis = "snapshot", queued[SUBSCRIBE_POSITIONS] = 0
               PROVE  position = executed
    BY DEF PositionCurrent
  <2>1. executed \in Nat /\ position \in 0 .. executed
    BY FillsAssumption DEF UInv, DataInv
  <2>2. Arrived(SUBSCRIBE_POSITIONS) <= position
    BY DEF UInv, PositionInv
  <2> QED
    BY <2>1, <2>2 DEF Arrived
<1> QED
  BY UpdatesInvariance, <1>1, PTL

\* A session that obtained its trades and handled what was pushed has told clients of every
\* fill that one answer can hold, for any fills, limit and lost connections.
THEOREM FillsAreDelivered == SpecUpdates => []FillsDelivered
<1>1. UInv => FillsDelivered
  <2> SUFFICES ASSUME UInv, downloaded # NotDownloaded, queued[SUBSCRIBE_ORDERS] = 0,
                      NEW fill \in 1 .. executed, fill > downloaded - TradesLimit
               PROVE  fill \in fills
    BY DEF FillsDelivered
  <2>1. executed \in Nat
    BY FillsAssumption DEF UInv, DataInv
  <2>2. Known(fill)
    BY DEF UInv, FillsInv
  <2> QED
    BY <2>1, <2>2 DEF Known, Arrived
<1> QED
  BY UpdatesInvariance, <1>1, PTL

=============================================================================

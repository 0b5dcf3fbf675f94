-------------------------- MODULE AccountUpdates --------------------------
(***************************************************************************)
(* What clients are told of the position and of the fills of an account.   *)
(* Both come twice: pushed by the websocket's POSITIONS and ORDERS         *)
(* channels, and downloaded over HTTP in the stages GET_POSITIONS and      *)
(* GET_TRADES of every session.  The two connections do not wait for each  *)
(* other, so an answer may overtake the messages pushed before it, or be   *)
(* overtaken by them, and it may be an answer to an earlier session.       *)
(*                                                                         *)
(* Every step of AccountDownload is a step here, with what it does to the  *)
(* account's data.  Fills are numbered; each changes the position, so the  *)
(* number of fills stands for the position they lead to.                   *)
(***************************************************************************)
EXTENDS AccountDownload

CONSTANTS
    MaxFills,    \* bound: fills at the exchange
    TradesLimit  \* the exchange returns no more fills than that

ASSUME FillsAssumption == {MaxFills, TradesLimit} \subseteq Nat

Pushing == {SUBSCRIBE_POSITIONS, SUBSCRIBE_ORDERS}

VARIABLES
    executed,    \* fills at the exchange so far
    queued,      \* of each channel: messages on their way, one for each of the last fills
    sentAt,      \* fills there were when the request in flight was sent
    position,    \* the position clients hold: that after so many fills
    basis,       \* history: the positions this session obtained: none, a snapshot,
                 \* or one overtaken by a message pushed before it
    fills,       \* the fills clients were told of
    downloaded   \* history: fills there were when this session's trades were answered

updateVars == <<executed, queued, sentAt, position, basis, fills, downloaded>>
allVars == <<vars, updateVars>>

NotDownloaded == -1

InitUpdates ==
    /\ Init
    /\ executed = 0
    /\ queued = [channel \in Pushing |-> 0]
    /\ sentAt = 0
    /\ position = 0
    /\ basis = "none"
    /\ fills = {}
    /\ downloaded = NotDownloaded

-----------------------------------------------------------------------------
(* The exchange. *)

\* The exchange pushes a channel from its acknowledgement on.
Pushes(channel) == status # "DISCONNECTED" /\ state > channel

Execute ==
    /\ process = "running"
    /\ executed < MaxFills
    /\ executed' = executed + 1
    /\ queued' = [channel \in Pushing |-> queued[channel] + IF Pushes(channel) THEN 1 ELSE 0]
    /\ UNCHANGED <<vars, sentAt, position, basis, fills, downloaded>>

-----------------------------------------------------------------------------
(* DropCopy receives what is pushed. *)

\* The next message of a channel, about one fill.
Receive(channel, fill) ==
    /\ process = "running"
    /\ queued[channel] > 0
    /\ fill = executed - queued[channel] + 1
    /\ queued' = [queued EXCEPT ![channel] = @ - 1]
    /\ UNCHANGED <<vars, executed, sentAt>>

PositionsWhenReady(fill) ==
    /\ Receive(SUBSCRIBE_POSITIONS, fill)
    /\ position' = IF status = "READY" THEN fill ELSE position
    /\ basis' = IF basis = "overtaken" THEN "snapshot" ELSE basis
    /\ UNCHANGED <<fills, downloaded>>

\* A PositionUpdate has no time of the exchange: the last one published is what counts.
Positions(fill) ==
    /\ Receive(SUBSCRIBE_POSITIONS, fill)
    /\ position' = fill
    /\ basis' = IF basis = "overtaken" THEN "snapshot" ELSE basis
    /\ UNCHANGED <<fills, downloaded>>

OrdersWhenReady(fill) ==
    /\ Receive(SUBSCRIBE_ORDERS, fill)
    /\ fills' = IF status = "READY" THEN fills \union {fill} ELSE fills
    /\ UNCHANGED <<position, basis, downloaded>>

\* A message of the ORDERS channel that has an exec_type is a fill.
OrdersFill(fill) ==
    /\ Receive(SUBSCRIBE_ORDERS, fill)
    /\ fills' = fills \union {fill}
    /\ UNCHANGED <<position, basis, downloaded>>

\* A lost websocket takes with it what was on its way.
Lost ==
    /\ WebsocketDisconnected \/ Error
    /\ queued' = [channel \in Pushing |-> 0]
    /\ basis' = "none"
    /\ downloaded' = NotDownloaded
    /\ UNCHANGED <<executed, sentAt, position, fills>>

-----------------------------------------------------------------------------
(* OrderEntry asks for the positions and for the trades. *)

Send(k) ==
    /\ CheckPending(k)
    /\ sentAt' = executed
    /\ UNCHANGED <<executed, queued, position, basis, fills, downloaded>>

\* The answer has the positions of a moment between the request and now.
PositionsAck(asOf) ==
    /\ Answer(GET_POSITIONS)
    /\ asOf \in sentAt .. executed
    /\ position' = asOf
    /\ basis' = CASE GET_POSITIONS \notin fresh -> basis
                  [] GET_POSITIONS \in fresh /\ asOf < position -> "overtaken"
                  [] OTHER -> "snapshot"
    /\ UNCHANGED <<executed, queued, sentAt, fills, downloaded>>

AnsweredFromZero(asOf) == {fill \in 0 .. asOf : fill >= asOf - TradesLimit}

\* The fills that an answer holds: the last ones of that moment.
Answered(asOf) == {fill \in 1 .. asOf : fill > asOf - TradesLimit}

\* The answer has the last fills of a moment between the request and now.
TradesAck(asOf) ==
    /\ Answer(GET_TRADES)
    /\ asOf \in sentAt .. executed
    /\ fills' = fills \union Answered(asOf)
    /\ downloaded' = IF GET_TRADES \in fresh THEN asOf ELSE downloaded
    /\ UNCHANGED <<executed, queued, sentAt, position, basis>>

\* An answer that publishes nothing of this: another kind, or an error.
OtherAck(k) ==
    /\ Answer(k)
    /\ UNCHANGED updateVars

-----------------------------------------------------------------------------

\* Steps of AccountDownload that leave positions and fills alone.
Elsewhere ==
    /\ \/ WebsocketReady
       \/ Login
       \/ \E channel \in Channels : Subscribed(channel)
       \/ DropCopyTimer
       \/ AnswerStaleOrder
       \/ \E k \in Requests : Redirected(k)
       \/ RestConnected
       \/ RestDisconnected
       \/ \E order \in Orders : Purge(order)
    /\ UNCHANGED updateVars

NextUpdates ==
    \/ Elsewhere
    \/ Lost
    \/ \E k \in Requests : Send(k)
    \/ \E asOf \in 0 .. executed : PositionsAck(asOf)
    \/ \E asOf \in 0 .. executed : TradesAck(asOf)
    \/ \E k \in Requests : OtherAck(k)
    \/ \E fill \in 1 .. executed : Positions(fill)
    \/ \E fill \in 1 .. executed : OrdersFill(fill)
    \/ Execute

SpecUpdates == InitUpdates /\ [][NextUpdates]_allVars

(***************************************************************************)
(* The fairness of AccountDownload; messages that arrive are handled.      *)
(***************************************************************************)
FairSpecUpdates ==
    /\ SpecUpdates
    /\ Fairness
    /\ WF_allVars(\E fill \in 1 .. executed : Positions(fill))
    /\ WF_allVars(\E fill \in 1 .. executed : OrdersFill(fill))

-----------------------------------------------------------------------------
(* Properties. *)

\* Type invariant, of the account's download and of what is pushed, downloaded and
\* published.
UpdatesTypeOK ==
    /\ TypeOK
    /\ executed \in 0 .. MaxFills
    /\ queued \in [Pushing -> 0 .. MaxFills]
    /\ sentAt \in 0 .. executed
    /\ position \in 0 .. executed
    /\ basis \in {"none", "snapshot", "overtaken"}
    /\ fills \subseteq 1 .. executed
    /\ downloaded \in {NotDownloaded} \union 0 .. executed

\* Once a session has obtained the positions and handled what was pushed, clients hold
\* the position of the exchange: the channel is subscribed before the snapshot is asked
\* for, late answers to earlier sessions come before it, and only a message that was
\* received while the snapshot was on its way can be undone by it.
PositionCurrent ==
    basis = "snapshot" /\ queued[SUBSCRIBE_POSITIONS] = 0 => position = executed

\* Once a session has obtained its trades and handled what was pushed, clients know of
\* every fill, also of those executed while the websocket was away, unless there were
\* more than one answer holds.
FillsDelivered ==
    downloaded # NotDownloaded /\ queued[SUBSCRIBE_ORDERS] = 0 =>
        \A fill \in 1 .. executed : fill > downloaded - TradesLimit => fill \in fills

=============================================================================

---------------------------- MODULE TimeSeries ----------------------------
(***************************************************************************)
(* Candles.  Business subscribes the candle channel of every symbol and    *)
(* queues, in Shared, a request for the history of each; Rest takes the    *)
(* requests from there and asks for the history over HTTP.  The websocket  *)
(* of Business and the HTTP connection of Rest are lost independently: the *)
(* subscriptions of a lost connection are forgotten, the requests stay     *)
(* queued, and every new connection queues all of them again.              *)
(*                                                                         *)
(* The exchange closes a bar of every symbol each minute, and its answer   *)
(* to a request for history holds the newest bars only, as many as the     *)
(* setting asks for.  A client is told of a bar by the channel or by a     *)
(* history; the two overlap, leave a hole, or neither.                     *)
(*                                                                         *)
(* The order of symbols, their slices and the streams that share them are  *)
(* in MarketSubscriptions, the other requests of Rest in                   *)
(* InstrumentsDownload.                                                    *)
(***************************************************************************)
EXTENDS Integers, SequencesExt

CONSTANTS
    Symbols,         \* symbols that discard_symbol() does not drop
    HistoryLimit,    \* settings.download.time_series_limit: bars of a history, the open one
                     \* included
    MaxMinutes,      \* bound: the minute the clock stops at
    MaxDisconnects   \* bound: times that each of the two connections is lost

ASSUME SymbolsAssumption == IsFiniteSet(Symbols)
ASSUME LimitAssumption == HistoryLimit \in Nat \ {0}
ASSUME MinutesAssumption == MaxMinutes \in Nat \ {0}
ASSUME DisconnectsAssumption == MaxDisconnects \in Nat

VARIABLES
    realtime,    \* time_series.realtime: open bars are published too
    symbols,     \* Shared::symbols, in the order in which they became known
    status,      \* Business: connection_status_
    queue,       \* Business: subscribe_queue_, the symbols of each message
    asked,       \* symbols subscribed by the present connection of Business
    requests,    \* Shared::time_series_request_queue
    rest,        \* Rest is READY
    http,        \* Rest's requests for candles, a bag: symbol, whether it was sent on
                 \* the present connection of Business, minute of the answer (0: none yet)
    up,          \* subscriptions on their way to the exchange
    down,        \* confirmed bars on their way to Business
    channel,     \* symbols whose candles the exchange sends
    minute,      \* the exchange's clock: the bar that is open
    since,       \* history: the first bar the present channel of a symbol confirms
    upto,        \* history: the bar that was open in the best answer for a symbol
    tried,       \* history: symbols whose request of this connection has ended
    confirmed,   \* history: of each symbol, the bars published as confirmed
    disconnects  \* of each connection: times it was lost

vars == <<realtime, symbols, status, queue, asked, requests, rest, http, up, down,
          channel, minute, since, upto, tried, confirmed, disconnects>>

businessVars == <<status, queue, asked>>
exchangeVars == <<up, down, channel, minute, since>>

Init ==
    /\ realtime \in BOOLEAN
    /\ symbols = <<>>
    /\ status = "DISCONNECTED"
    /\ queue = <<>>
    /\ asked = {}
    /\ requests = <<>>
    /\ rest = FALSE
    /\ http = EmptyBag
    /\ up = <<>>
    /\ down = <<>>
    /\ channel = {}
    /\ minute = 1
    /\ since = [s \in Symbols |-> 0]
    /\ upto = [s \in Symbols |-> 0]
    /\ tried = {}
    /\ confirmed = [s \in Symbols |-> {}]
    /\ disconnects = [business |-> 0, rest |-> 0]

-----------------------------------------------------------------------------
(* Business. *)

\* core::Symbols::get_all: the symbols from a position on.
GetAll(all, start) == SubSeq(all, start + 1, Len(all))

\* A message without symbols; no request for a history that is being asked for.
SubscribeEmpty(some) ==
    /\ queue' = Append(queue, ToSet(some))
    /\ requests' = requests \o some

SubscribeUnlessInFlight(some) ==
    /\ queue' = IF some = <<>> THEN queue ELSE Append(queue, ToSet(some))
    /\ requests' = requests \o
        SelectSeq(some, LAMBDA s : \A request \in BagToSet(http) : request.symbol # s)

\* One message for all the symbols, if any, and one request for the history of each;
\* settings.download.time_series_lookback, without which it would do neither, is not zero:
\* there is no Business otherwise (controller.cpp:97).
Subscribe(some) ==
    /\ queue' = IF some = <<>> THEN queue ELSE Append(queue, ToSet(some))
    /\ requests' = requests \o some

\* The websocket is Ready: everything known is subscribed and its history queued.
Ready ==
    /\ status = "DISCONNECTED"
    /\ status' = "READY"
    /\ Subscribe(GetAll(symbols, 0))
    /\ UNCHANGED <<realtime, symbols, asked, rest, http, exchangeVars, upto, tried,
                   confirmed, disconnects>>

SymbolsUpdateOffByOne(some) ==
    /\ \A n \in DOMAIN some : some[n] \notin ToSet(symbols)
    /\ symbols' = symbols \o some
    /\ IF status = "READY"
       THEN Subscribe(GetAll(symbols', Len(symbols) + 1))
       ELSE UNCHANGED <<queue, requests>>
    /\ UNCHANGED <<realtime, status, asked, rest, http, exchangeVars, upto, tried,
                   confirmed, disconnects>>

\* Some symbols become known; Business ignores them unless it is READY.
SymbolsUpdate(some) ==
    /\ \A n \in DOMAIN some : some[n] \notin ToSet(symbols)
    /\ symbols' = symbols \o some
    /\ IF status = "READY"
       THEN Subscribe(GetAll(symbols', Len(symbols)))
       ELSE UNCHANGED <<queue, requests>>
    /\ UNCHANGED <<realtime, status, asked, rest, http, exchangeVars, upto, tried,
                   confirmed, disconnects>>

\* A Timer with a token of the rate limiter.
BusinessTimer ==
    /\ status = "READY"
    /\ queue # <<>>
    /\ queue' = Tail(queue)
    /\ asked' = asked \union Head(queue)
    /\ up' = Append(up, Head(queue))
    /\ UNCHANGED <<realtime, symbols, status, requests, rest, http, down, channel, minute,
                   since, upto, tried, confirmed, disconnects>>

\* What is published as confirmed of a bar that the channel says is confirmed.
BusinessBarsInverted(bar) == IF realtime THEN {bar} ELSE {}

BusinessBars(bar) == {bar}

Candle ==
    /\ down # <<>>
    /\ down' = Tail(down)
    /\ confirmed' = [confirmed EXCEPT ![Head(down).symbol] =
            @ \union BusinessBars(Head(down).bar)]
    /\ UNCHANGED <<realtime, symbols, businessVars, requests, rest, http, up, channel, minute,
                   since, upto, tried, disconnects>>

\* The requests as sent on an earlier connection.
Forgotten(bag) ==
    LET sent == {request \in BagToSet(bag) : request.fresh}
    IN  [request \in BagToSet(bag) \ sent |-> bag[request]] (+)
        [request \in {[r EXCEPT !.fresh = FALSE] : r \in sent} |->
            bag[[request EXCEPT !.fresh = TRUE]]]

BusinessDisconnectedKeepsQueue ==
    /\ status = "READY"
    /\ disconnects.business < MaxDisconnects
    /\ status' = "DISCONNECTED"
    /\ asked' = {}
    /\ up' = <<>>
    /\ down' = <<>>
    /\ channel' = {}
    /\ since' = [s \in Symbols |-> 0]
    /\ tried' = {}
    /\ http' = Forgotten(http)
    /\ disconnects' = [disconnects EXCEPT !.business = @ + 1]
    /\ UNCHANGED <<realtime, symbols, queue, requests, rest, minute, upto, confirmed>>

\* The subscriptions are dropped with the connection, the requests in Shared are not.
BusinessDisconnected ==
    /\ status = "READY"
    /\ disconnects.business < MaxDisconnects
    /\ status' = "DISCONNECTED"
    /\ queue' = <<>>
    /\ asked' = {}
    /\ up' = <<>>
    /\ down' = <<>>
    /\ channel' = {}
    /\ since' = [s \in Symbols |-> 0]
    /\ tried' = {}
    /\ http' = Forgotten(http)
    /\ disconnects' = [disconnects EXCEPT !.business = @ + 1]
    /\ UNCHANGED <<realtime, symbols, requests, rest, minute, upto, confirmed>>

-----------------------------------------------------------------------------
(* Rest. *)

othersUnchanged ==
    UNCHANGED <<realtime, symbols, businessVars, exchangeVars>>

RestConnected ==
    /\ ~rest
    /\ rest' = TRUE
    /\ UNCHANGED <<requests, http, upto, tried, confirmed, disconnects>>
    /\ othersUnchanged

\* check_request_queue, with a token of the rate limiter.
RestTimer ==
    /\ rest
    /\ requests # <<>>
    /\ requests' = Tail(requests)
    /\ http' = http (+) SetToBag(
            {[symbol |-> Head(requests), fresh |-> status = "READY", minute |-> 0]})
    /\ UNCHANGED <<rest, upto, tried, confirmed, disconnects>>
    /\ othersUnchanged

\* The answer of the exchange as of a minute: the newest bars, the open one included.
History(m) == {bar \in 1 .. m : bar > m - HistoryLimit}

\* What is published as confirmed of it: without realtime it is the confirmed bars that
\* are left out, and what remains is the open one.
RestBarsInverted(m) == IF realtime THEN {} ELSE History(m) \ {m}

RestBars(m) == IF realtime THEN History(m) \ {m} ELSE {}

CandlesAck(request) ==
    /\ request.minute > 0
    /\ confirmed' = [confirmed EXCEPT ![request.symbol] = @ \union RestBars(request.minute)]
    /\ upto' = [upto EXCEPT ![request.symbol] = IF request.minute > @ THEN request.minute ELSE @]
    /\ tried' = IF request.fresh THEN tried \union {request.symbol} ELSE tried
    /\ http' = http (-) SetToBag({request})
    /\ UNCHANGED <<requests, rest, disconnects>>
    /\ othersUnchanged

\* A request that fails is logged; nothing asks for the history again.  A redirection,
\* which ends the process (process_response), is in AccountDownload only.
CandlesError(request) ==
    /\ tried' = IF request.fresh THEN tried \union {request.symbol} ELSE tried
    /\ http' = http (-) SetToBag({request})
    /\ UNCHANGED <<requests, rest, upto, confirmed, disconnects>>
    /\ othersUnchanged

\* The requests sent fail with the connection.
RestDisconnected ==
    /\ rest
    /\ disconnects.rest < MaxDisconnects
    /\ rest' = FALSE
    /\ http' = EmptyBag
    /\ tried' = tried \union {request.symbol : request \in {r \in BagToSet(http) : r.fresh}}
    /\ disconnects' = [disconnects EXCEPT !.rest = @ + 1]
    /\ UNCHANGED <<requests, upto, confirmed>>
    /\ othersUnchanged

-----------------------------------------------------------------------------
(* The exchange. *)

exchangeOthersUnchanged ==
    UNCHANGED <<realtime, symbols, businessVars, requests, rest, upto, tried, confirmed, disconnects>>

TakeSubscribe ==
    /\ up # <<>>
    /\ up' = Tail(up)
    /\ channel' = channel \union Head(up)
    /\ since' = [s \in Symbols |-> IF s \in Head(up) THEN minute ELSE since[s]]
    /\ UNCHANGED <<http, down, minute>>
    /\ exchangeOthersUnchanged

TakeCandles(request) ==
    /\ request.minute = 0
    /\ http' = (http (-) SetToBag({request})) (+) SetToBag({[request EXCEPT !.minute = minute]})
    /\ UNCHANGED exchangeVars
    /\ exchangeOthersUnchanged

\* A minute is over: its bar is confirmed on the channel.
Tick ==
    /\ minute < MaxMinutes
    /\ minute' = minute + 1
    /\ \E bars \in SetToSeqs({[symbol |-> s, bar |-> minute] : s \in channel}) :
        down' = down \o bars
    /\ UNCHANGED <<up, http, channel, since>>
    /\ exchangeOthersUnchanged

-----------------------------------------------------------------------------

Next ==
    \/ \E new \in SUBSET Symbols : \E some \in SetToSeqs(new) : SymbolsUpdate(some)
    \/ Ready \/ BusinessTimer \/ Candle \/ BusinessDisconnected
    \/ RestConnected \/ RestTimer \/ RestDisconnected
    \/ \E request \in BagToSet(http) :
        TakeCandles(request) \/ CandlesAck(request) \/ CandlesError(request)
    \/ TakeSubscribe \/ Tick

Spec == Init /\ [][Next]_vars

(***************************************************************************)
(* The libraries reconnect, the exchange takes and answers what was sent,  *)
(* the event loop keeps calling Timer and the rate limiter refills.        *)
(***************************************************************************)
Fairness ==
    /\ WF_vars(Ready) /\ WF_vars(BusinessTimer)
    /\ WF_vars(RestConnected) /\ WF_vars(RestTimer)
    /\ WF_vars(TakeSubscribe)
    /\ WF_vars(\E request \in BagToSet(http) : TakeCandles(request))
    /\ WF_vars(\E request \in BagToSet(http) : CandlesAck(request))

FairSpec == Spec /\ Fairness

-----------------------------------------------------------------------------
(* Properties. *)

Minutes == 0 .. MaxMinutes

\* Type invariant.
TypeOK ==
    /\ {realtime, rest} \subseteq BOOLEAN
    /\ symbols \in Seq(Symbols) /\ requests \in Seq(Symbols)
    /\ status \in {"DISCONNECTED", "READY"}
    /\ {asked, channel, tried} \subseteq SUBSET Symbols
    /\ {queue, up} \subseteq Seq((SUBSET Symbols) \ {{}})
    /\ IsABag(http)
    /\ BagToSet(http) \subseteq [symbol : Symbols, fresh : BOOLEAN, minute : Minutes]
    /\ down \in Seq([symbol : Symbols, bar : Minutes])
    /\ minute \in Minutes
    /\ since \in [Symbols -> Minutes] /\ upto \in [Symbols -> Minutes]
    /\ confirmed \in [Symbols -> SUBSET (1 .. minute - 1)]
    /\ disconnects \in [business : Nat, rest : Nat]

\* No connection of Business subscribes the candles of a symbol twice, however often
\* the request for its history is queued.
NoDuplicates ==
    \A n \in DOMAIN queue :
        /\ queue[n] \intersect asked = {}
        /\ \A m \in DOMAIN queue : m # n => queue[n] \intersect queue[m] = {}

\* While Business is READY the history of every symbol known is queued or was asked for
\* on this connection: a request of an earlier connection, whose answer ends before the
\* bars that were missed, does not stand for it.
FreshHistory ==
    status = "READY" =>
        \A s \in ToSet(symbols) :
            \/ s \in ToSet(requests)
            \/ \E request \in BagToSet(http) : request.symbol = s /\ request.fresh
            \/ s \in tried

\* The two ways join.  When all bars on their way were received, a client has every bar
\* confirmed since the channel of the symbol was subscribed, with realtime on or off.  With
\* realtime on, and a history that was not taken before the channel began, it also has what
\* came before, back to the oldest bar of that history: bars that were dropped on a
\* connection that was lost, or that ended while there was none, are made up for if they are
\* that recent, and there is no hole between history and channel.
Delivered ==
    down = <<>> =>
        \A s \in channel :
            /\ since[s] .. minute - 1 \subseteq confirmed[s]
            /\ realtime /\ upto[s] >= since[s] =>
                {bar \in 1 .. minute - 1 : bar > upto[s] - HistoryLimit} \subseteq confirmed[s]

\* Every symbol known is subscribed in the end and its history was asked for since.
EventuallyJoined == <>[](ToSet(symbols) \subseteq channel \intersect tried)

=============================================================================

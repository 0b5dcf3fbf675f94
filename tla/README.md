# roq-okx in TLA+

Specifications of the market gateway in `src/src/roq/okx`: how it connects to the
exchange, brings its accounts up to date, downloads instruments, subscribes market data,
follows the order books, trades and candles, and carries orders to the exchange and its
answers back. Each module is translated from the C++ source; `PROJECT.json`
gives, for every definition, the lines it stands for, and for every property a plausible
bug (an operator defined next to the right one) that breaks it.

## The system

One process, one event loop. `Controller` owns the streams and forwards to them the events
of the library (`Start`, `Timer`, `Connected`, order actions). Every callback of a
connection and every `Timer` runs to its end before the next one starts, so an action of a
specification is one callback, or what one stream does in one `Timer`; what interleaves is
*which* callback comes next.

| Component | State | Operations | Talks to |
| --- | --- | --- | --- |
| `Controller` (`gateway/controller.*`) | the streams, the account to stream maps | dispatches Timer (Rest, OrderEntry, DropCopy, StaticData, MarketData, Business, in this order), routes order actions, creates MarketData streams when symbols become known | all streams |
| `Shared` (`gateway/shared.*`) | `all_symbols`, `extended_symbols`, `symbols` (slices per stream), rate limiter, throttle, time-series queue | `discard_symbol`, slices | read and written by all streams |
| `DropCopy` (`gateway/drop_copy.*`), one per account | connection status, stage of the download (12 stages), subscriptions | login, subscriptions, waits for snapshots, order actions and their acknowledgements, order/fill/position updates | the `Request` group, the order manager (library) |
| `OrderEntry` (`gateway/order_entry.*`), one per account | HTTP connection, `download_stale_orders_counter_`, trades' lookback | sends the HTTP request the group asks for; parses answers | the `Request` group |
| `Request` (`gateway/request.*`) | six requests, the stale orders to query | `ready`, `can_request` | mailbox between DropCopy and OrderEntry |
| `StaticData` (`gateway/static_data.*`) | connection status, subscription queue | login, subscribes instruments and exchange status, asks for the instruments | `Request2`, `Controller` |
| `Rest` (`gateway/rest.*`) | HTTP connection, `download_instruments_` flags | downloads instruments per type, candles, back-off | `Request2`, `Controller`, Business |
| `MarketData` (`gateway/market_data.*`), as many as the limit of symbols asks for | connection status, subscription queue, `sequence_` per instrument | login, subscribes its slice, publishes books, trades, statistics | `Shared` |
| `Business` (`gateway/business.*`) | connection status, queues | subscribes candles, asks Rest for their history | `Rest` through `Shared` |
| `Throttle` (`tools/throttle.*`) | back-off after HTTP 429 | | OrderEntry, Rest |
| encoder, map, parser (`protocol/json`) | none (pure) | translate order actions, codes and messages | DropCopy, OrderEntry |

What is hard here: two connections that serve one download and are lost independently; a
mailbox that survives both; answers of an earlier session arriving in a later one; counters
and flags that must be reset on one of several disconnect paths; symbols that become known
in any phase of any stream; sequence numbers kept over reconnects; failures of one of
several requests. `PROJECT.json` lists each of these at its line under `hazards`, with the
property that would notice it going wrong, or why there is none yet.

What makes each part correct:

- *account*: clients hold the present position and know of every fill once a session is
  complete; READY means that every snapshot was obtained on the present connection; no
  `log::fatal("Unexpected")` is reachable; stale orders that were noted are queried; the
  account becomes READY once its connections are stable;
- *instruments*: clients hold the present status of an instrument; a late callback does not
  disturb a later download; the request is committed
  only when nothing of it is outstanding; it is committed in the end;
- *subscriptions*: every known symbol is subscribed, once, on the stream it belongs to, and
  no connection carries more symbols than the limit;
- *books*: what clients hold is a book the exchange had, whatever was lost, and the present
  one in the end;
- *order flow*: every create and cancel request, and every amendment that is refused, has one
  Response and a true one; when nothing is on its way the order manager agrees with the exchange about every order; no order goes back to an
  earlier status;
- *amendments*: a request changes what the client asked for and nothing else;
- *encoding*: what is sent is the kind of order the client asked for;
- *time series*: after a lost connection the bars that were missed are asked for again; what
  the channel confirms is published; with realtime, a history that was taken since the channel
  began leaves no hole after its oldest bar (older bars, bars between an earlier history and
  the channel, and with realtime off all bars of an outage are missed, see the hazards);
- *trades*: every trade of a message is published once;
- *messages*: no message that follows from what a stream asked for ends the process;
- *throttle*: no later header or status shortens a suspension.

## Modules

| Module | Models | Role |
| --- | --- | --- |
| `DownloadSession` | what a private stream promises its clients | abstract specification |
| `AccountDownload` | DropCopy + Request + OrderEntry of one account | implements DownloadSession |
| `AccountUpdates` | positions and fills, pushed and downloaded | every step of AccountDownload is one of its steps |
| `AccountDownloadProofs`, `AccountUpdatesProofs` | | TLAPS |
| `InstrumentsDownload` | StaticData + Request2 + Rest, instruments | |
| `InstrumentUpdates` | one instrument, pushed and downloaded | every step of InstrumentsDownload is one of its steps |
| `InstrumentsProofs` | | TLAPS, of both |
| `MarketSubscriptions` | Shared's symbols, Controller's SymbolsUpdate, the MarketData streams | |
| `MCMarketSubscriptions` | | symbols for TLC |
| `MarketSubscriptionsProofs` | | TLAPS |
| `OrderBook` | MarketData's books and `sequence_`, with the exchange's side | |
| `OrderBookProofs` | | TLAPS |
| `OrderLifecycle` | what the gateway promises about orders and requests | abstract specification |
| `OrderFlow` | DropCopy's order actions, acknowledgements and ORDERS channel, OrderEntry's open orders, with the exchange's side | implements OrderLifecycle |
| `MCOrderFlow` | | symmetry for TLC |
| `OrderFlowProofs` | | TLAPS |
| `OrderAmendments` | the values of amendments of one order | |
| `OrderEncoding` | `Encoder::batch_orders` | |
| `TimeSeries` | Business, the time series queue of Shared, Rest's candles | |
| `MCTimeSeries` | | bounds for TLC |
| `TimeSeriesProofs` | | TLAPS |
| `TradeMessages` | MarketData's handler of the trades channel, Shared's buffer | |
| `Dispatch` | Parser, what the four streams subscribe, their handlers | |
| `Throttle` | Throttle | |
| `MCMessages` | OrderEncoding, OrderAmendments, TradeMessages, Dispatch and Throttle, one at a time | for TLC |
| `MessagesProofs` | | TLAPS, of these five and their composition |

### AccountDownload and DownloadSession

Variables carry the code's names (`status` is `connection_status_`, `state` the stage of
`download_`, `details` is `details_stale_orders`, `counter` is
`download_stale_orders_counter_`). `pending`, `inflight` and `response` are what
`core::limit::Request` keeps for each of the six requests, a set of requests each;
`unanswered` counts HTTP requests without an answer. `fresh` and `disconnects` are history.

- websocket: `WebsocketReady`, `Login`, `Subscribed(channel)`, `WebsocketDisconnected`,
  `Error` (`log::fatal` or a lost connection, by `experimental.retry_logon`);
- `DropCopyTimer` is `check_request_queue`, one branch of its switch per operator;
- `OrderEntry`: `CheckPending(k)` is its `check_request_queue` when k is the request it
  picks, `Answer(k)` and `AnswerStaleOrder` are the callbacks of the HTTP requests,
  `Redirected(k)` ends the process as `process_response` does, `RestConnected` and
  `RestDisconnected` are its connection;
- `Purge(order)`: the order manager no longer finds an order that a session noted as stale.

`log::fatal` and `assert` end the process: `process` becomes the reason and nothing else
happens.

Assumed of the libraries, from the way the code uses them: `request()` withdraws an earlier
answer, and committing a request that was asked for again meanwhile is no answer to the new
one (were it one, TLC reaches the `log::fatal` of `drop_copy.cpp:925`); the group is ready
when nothing is in flight and offers its first pending request in declaration order;
`core::Download2` walks the stages in order and skips those whose `download()` returns 0;
the callback of an HTTP request on a lost connection comes before the next connection.

`DownloadSession` has only the status and the set of snapshots obtained; it takes `got <-
Required \intersect fresh \intersect response` in AccountDownload. It is the promise READY
makes: every required snapshot was requested and answered on *this* connection. (An answer
the exchange refused counts as an answer: `get_*_ack` commits on failure too, see the
hazards.)

### AccountUpdates

The position and the fills come to clients by two ways that do not wait for each other: the
websocket's POSITIONS and ORDERS channels (`queued`, what is on its way) and the answers over
HTTP in GET_POSITIONS and GET_TRADES (`sentAt`: an answer shows any state between sending and
answering). `Execute` is a fill at the exchange; fills are numbered, and the position is the
number of the last. `Positions`, `OrdersFill`, `PositionsAck`, `TradesAck` publish; `Lost` is
what loses the queues; `Elsewhere` is every other step of AccountDownload. `fills` is what
clients were told of, `basis` and `downloaded` are history.

Assumed of the exchange and the libraries: a channel is pushed from the moment its
acknowledgement is handled; messages of a channel come in order; the answer about trades
holds the last `TradesLimit` fills (the request has a limit, `download.trades_limit`, and a
begin and end, which the exchange is taken not to cut by) and that about positions lists
closed ones; the library drops a fill it has already published (by `external_trade_id`) and
calls back for the orders it knows.

### InstrumentsDownload

StaticData's login, its queue and acknowledgements; the acknowledgement of the *last*
subscription makes the request; `RestTimer` sends one HTTP request per type and sets its
flag; `Answer`, `Failure` and `LostAnswer` are the callbacks. In contrast to the account's,
callbacks of a lost HTTP connection may come late here (`lost`), which is what the flags
must survive. `outcome` is history.

### InstrumentUpdates

The same question for one instrument: `version` counts its listing and its changes,
`published` is the version whose MarketStatus clients hold, `announced` counts the
SymbolsUpdates that name it. `Change` is the exchange; `Instruments` is StaticData's handler of
a pushed message, `InstrumentsAck` Rest's answer, which shows any version between sending and
answering; both announce the symbol when `all_symbols` lacks it. `covered` says whether the
type of the instrument was acknowledged when the request was sent: the acknowledgement of
FUTURES makes the request, whatever became of the other types.

### MarketSubscriptions

`Subscribe` (a client), `Instruments` (the exchange) and the `SymbolsUpdate` they dispatch to
Controller, which tells existing streams where their new symbols start and creates the
streams that are missing; per stream `Ready`, `LoginAck`, `Timer` (sends what is queued as
the rate limiter allows), `Disconnected`. `Slice` is `core::Symbols::get_slice`. `asked` is
what the present connection has subscribed; `listed` is history.

### OrderBook

The exchange is modelled with the program, as the tests and `index.rst` show its messages: a
snapshot first on every connection, then updates that name the sequence number they follow;
`books5` messages have neither action nor sequence number. Two books as sets of levels;
`past` is history: the book at each sequence number. `Receive` is
`MarketData::operator()(BooksL2Tbt)`: what is not newer than `sequence_` is dropped, a gap is
logged, the rest is published as SNAPSHOT or INCREMENTAL, and `view` is what it makes of the
clients' book. Assumed: a lost connection does not empty the clients' book (that would be
the library's doing, and then dropping the snapshot would be wrong), and the exchange does
not restart its numbers.

### OrderFlow

Requests travel `up`, acknowledgements and messages of the ORDERS channel travel `down`, in
order; the HTTP request for the open orders (`asked`, `http`, `snapshot`, `response`) travels
beside them and may be taken by the exchange early and received late, even by a later
session. `CreateOrder`, `ModifyOrder`, `CancelOrder`, `CancelAllOrders` are DropCopy's
handlers of order actions with the encoder's message; `Receive` is its handlers of `Order`,
`AmendOrder`, `CancelOrder` (`ReceiveAck`), `Orders` (`ReceivePush`) and `Subscribe`. `Stages`
are the stages of the download that are about orders, the others are in AccountDownload.
`status` and `external` are what the order manager makes of Responses and OrderUpdates;
`requested`, `lost`, `result`, `answers`, `verdict` and `here` are history.

`Acknowledged(m)` is which items of an acknowledgement make a Response: all for a create
request, even when the acknowledgement has no data; only refused ones for an amendment,
because an accepted one is decided later, by `amendResult` of the ORDERS channel; all for a
cancellation. `RequestStatus(m)` comes from the code of the whole batch.

Assumed: the exchange takes the requests of a connection in order, answers before or after
the messages of its channel, and gives a batch a code other than 0 exactly if one of its
items is refused; the order manager ignores updates older than the last one it has (they
carry the exchange's time), and a rejected create ends the order; the library forwards order
actions only while the private websocket is logged in (the gateway itself does not test it).
Orders that finish while the websocket is away are outside InSync: the code queries them as
stale orders and drops the answer (hazard at `order_entry.cpp:489`).

OrderFlow implements `OrderLifecycle`, where there are no connections and messages: a client
asks once for each operation on an order, a request is answered at most once, and the status
of an order only goes forward.

### OrderAmendments

A ModifyOrder may leave quantity or price open (NaN); the encoder always sends both, the open
one filled in from the order manager. `values` are the numbers of the requests that chose
them, so who wrote what remains visible. `RequestAmend` is DropCopy's handler with the
encoder, `Amend` and `RefuseAmend` the exchange, `OrdersUpdate` the ORDERS channel,
`ConnectionLost` and `OpenOrders` a new session. `intended` is what the order would be had the
exchange been asked to leave open what the client left open, `overlapped` says that a request
was made before the update of the one before it: then the code does take that one back, and
OnlyWhatIsAsked says nothing.

### OrderEncoding

`create_order` and `settings` take every combination of the attributes the encoder reads;
`BatchOrders` is one call of it. `ByInstructions`, `ByTimeInForce` and `OrdType` are the three
steps of `compute_order_attributes`, each looking at what the one before chose. Identifiers,
quantities and prices are left out: a field is there or not.

### TimeSeries

`Ready` and `SymbolsUpdate` put a subscription in Business's queue and a request for the
history of each symbol in Shared's; `BusinessTimer` and `RestTimer` send them, `Candle` and
`CandlesAck` publish bars. `http` is a bag: the requests in flight may be answered in any
order, and several may be for one symbol. `minute` is the exchange's clock; the bars
`1 .. minute - 1` are confirmed. `History(m)` is the exchange's answer: the newest
`HistoryLimit` bars (`download.time_series_limit`, `rest.cpp:354`), the open one included, so an
outage may be longer than the history that follows it. `since`, `upto`, `tried`, `confirmed` are
history variables. The gate on `download.time_series_lookback` (`business.cpp:377`) is always open:
`controller.cpp:97` creates no Business when it is zero. Only
whether a bar was ever published as confirmed is kept; that a late history may publish an
older, open version of it afterwards is listed under hazards.

### TradeMessages

`Trades(data)` is one call of `MarketData::operator()(Trades)`, a fold over the items with the
handler's local variables (`Start`). `trades` is Shared's buffer, which survives the message
and is shared by the streams; positions stand for trades. Prices and quantities are left out.

### Dispatch

One stream under one choice of settings. `Parse` takes the first key of a message that decides
(`op`, `event`, `arg`), by the parser's tables; `Expected` are the handlers of each
stream that are not `log::fatal`. What may be received follows from what was asked: replies to a
login, to subscriptions (with `event` and `arg` both), data of an acknowledged channel, replies
to order operations on DropCopy, errors and notices, and an event nobody knows. `ChannelsOf` is
what each stream subscribes under the settings.

### Throttle

`MessageBegin`, `MessageHeader`, `MessageEnd` and the statuses `TooManyRequests` (429) and
`Forbidden` (403) are the calls of the connections, which interleave; `Clock` is both clocks of
the process, which are taken to advance together. `told` and `blocked` are history. What the
libraries do with `suspend_until` is theirs.

## Runs

| Run | Question | Bounds | Distinct states |
| --- | --- | --- | --- |
| `account` | Is any `log::fatal` reachable, any order forgotten, two requests in flight; does READY mean what it says, is it reached; do clients hold the present position and know of every fill? | 2 orders, 3 lost connections, retry of logins, 1 fill | 388 842 |
| `account_assert` (violation) | May a Timer meet stage UNDEFINED? | debug build | |
| `instruments` | Are flags, request and HTTP requests consistent, is the request committed in the end, do clients hold the present status? | 3 lost connections, 1 instrument, 2 versions | 951 638 |
| `market` | Is anything subscribed twice, or missed, or over the limit; is everything subscribed in the end? | 3 symbols (spot, swap, future), 2 per stream, login, 2 lost connections | 75 337 |
| `market_funding_rate` (violation) | Does a swap that a client subscribes first have funding-rate once it is listed? | as `market`, no lost connection | |
| `order_book` | Is the clients' book one the exchange had, is there never a gap, is it the present one in the end? | 2 books, 2 levels, 2 changes each, 2 messages on their way, 2 lost connections | 555 876 |
| `order_book_books5` (violation) | Does books5 publish anything? | 1 book | |
| `order_flow` | Has every request that is owed a Response one, and a true one, does the order manager agree with the exchange, is OrderLifecycle implemented? | 2 orders, 3 requests (cancel-all counts once), 1 lost connection | 1 480 569 |
| `order_cancel_all` (violation) | Does CancelAllOrders reach every known order? | 2 orders, 3 requests | |
| `messages` | Five parts, one at a time: is the type sent the one documented and does a passive order stay passive; do amendments change what was asked for; is every trade published once; is any message unexpected or taken for another; are suspensions honoured? | all attributes and settings; 3 amendments, 1 lost connection; 3 trades of 2 symbols; all streams and settings; 2 connections, 3 Retry-After values, 5 ticks | 317 015 |
| `order_encoding_fok` (violation) | Is a fill-or-kill order sent as `fok`? | all attributes and settings | |
| `time_series` | Is anything subscribed twice, is the history asked for again after a lost connection, are confirmed bars delivered, do history and channel join without a hole? | 2 symbols and 1 minute that ends, or 1 symbol and 4; histories of 3 bars, each connection lost once, realtime on and off | 399 662 |

`messages` is one run for five modules that share no state: `part` says which of them a
behaviour is about, the others stay in an initial state.

Why the bounds are enough. *Account*: a session is one websocket connection; three lost
connections allow a session that notes stale orders, one that finds them pending or in
flight and one that finds the answers late, with the HTTP connection lost in between; two
orders are the least for which the counter can be wrong by one and not be 0; one fill is
pushed before, while or after a snapshot is on its way, or while the websocket is away, and
the proofs have any number of them. *Instruments*: the listing and one change, at any moment;
one lost connection for the request repeated while the first is in flight, one for HTTP,
one more for a callback that comes two connections late. *Subscriptions*: three symbols over
slices of two make a full stream, a partial one, and a batch that straddles both. *Books*:
three sequence numbers tell "older", "same" and "newer than the last but not next" apart;
two messages on the wire are what a lost connection can cut between a snapshot and its
update. *Order flow*: two orders make a batch that is refused in part; three requests are a
create, an amendment and a cancellation of one order, or two creates and a cancel-all of
both; one lost connection gives a second session that receives the open orders of the first. *Time
series*: a bar confirmed before, during or after the connection that is lost, and a history
taken before, during or after it; the HTTP connection lost in between. Four minutes and
histories of an open and two confirmed bars make outages that are shorter and longer than the
history, and both kinds of hole that Delivered does not speak of; one symbol is enough for it,
because symbols share queues and messages but no bars. Two symbols share them for one minute
(`MCTimeSeries`). *Amendments*: two that
do not overlap and one that might. *Trades*: three items are a symbol that changes and changes
back, or changes after two. *Throttle*: Retry-After in the past, ahead, and beyond the clock, the
back-offs shorter and longer than what is left of it.
`CHECK_DEADLOCK FALSE` stands where the system may come to rest (bounded changes and
disconnects, a process that has ended), each time with the reason in the .cfg.

Configurations of the violation runs state what a document or an assertion says; the
findings below quote it.

### Fairness

Weak fairness of: the library's reconnects (`WebsocketReady`, `RestConnected`, `Ready`,
`Subscribed` in OrderBook and TimeSeries's `TakeSubscribe`), the exchange's answers to what was sent to it, messages that
arrive being handled, and the Timer. The library calls Timer periodically and dispatches what the
sockets deliver, and a request ends in its callback (the request's timeout included), so a
step that stays possible is taken. Nothing is assumed of disconnects, errors, failures of
requests, clients, or changes of a book. No strong fairness is used. `account`
excuses an order the order manager no longer finds: the request for it is then sent with no
HTTP request behind it (hazard at `order_entry.cpp:682`), and `instruments` excuses a failed
HTTP request, which leaves its flag set (`rest.cpp:199`): both are what the code does, and
the properties say so rather than assume them away.

## Findings

- `account_assert`: in a debug build a Timer between the websocket's Ready and the answer to
  the login reaches `assert(false)` in `DropCopy::check_request_queue`; its Timer handler
  lacks the `ready()` guard of the other streams. Harmless in a release build.
- `market_funding_rate`: `index.rst` says `index-tickers` and `funding-rate` are subscribed for
  all swaps and futures; a swap that a client subscribes before the exchange lists it has
  `index-tickers` only, and is not subscribed again when it is listed. (A swap that the exchange
  lists first has `funding-rate` only, by the condition at `market_data.cpp:716`.)
- `order_book_books5`: `index.rst` says books_depth 5 uses a snapshot feed; its messages fail
  the sequence number test and nothing is published.
- `order_cancel_all`: `index.rst` says CancelAllOrders cancels all known non-finished orders;
  orders whose acknowledgement is still on its way are skipped.
- `order_encoding_fok`: `index.rst` maps LIMIT and FOK to `fok`; the encoder sends `limit`, a
  test is the wrong way round (as it was for IOC in the copy commented out in drop_copy.cpp).

## Proofs

`tlapm` proves, for every value of the constants that satisfies the named assumptions of the
modules and without the bounds of the runs:

- `AccountDownloadProofs`: `TypeCorrect`, `NeverFatal`, `OneInFlight`, `StaleOrdersKept`,
  `ImplementsSession` (`Spec => Session!Spec`) and `DownloadNeverStuck`, for any finite set of
  orders.
  None of them is inductive; `Invariance` is. `IInv` adds: *StageInv*: the status and the
  channels awaited are those the stage implies, so an acknowledgement cannot be for another
  stage; *FlightInv*: what is in flight has exactly the HTTP requests behind it that
  OrderEntry counts (a purged order leaves a request with none), so a callback always finds
  its counter; *MailboxInv*: where stale orders noted have their request pending; *SessionInv*:
  the stages already passed were requested and answered by this session, and a request of an
  earlier session that is still in flight is pending again, so that its answer does not
  count. NeverFatal is the interesting one: the fatal of `drop_copy.cpp:925` would need an answer that counts
  while orders are still noted, and MailboxInv says the request is pending then.
  `DownloadNeverStuck` needs *FlowInv* too: what a session has sent is pending, in flight or
  answered, and a request for stale orders in flight has a query that will end it as long as the
  order manager knows all the orders. Without that proviso it fails: a stale order that is
  purged before its query leaves the request in flight for good, and every later request of the
  account waits behind it.
- `AccountUpdatesProofs`: `UpdatesTypeCorrect`, `PositionsAreCurrent`, `FillsAreDelivered`, for
  any number of fills and any length of the answer, over `IInv` above (a step here is a step
  of AccountDownload). *FreshInv*: a session makes a request once, so a request of this session
  in flight is the one that the answer belongs to. *PositionInv*, *FillsInv*: while it is in flight,
  whatever was executed since it was sent is still on its way in the channel or was received.
- `InstrumentsProofs`: `FlagsMatch`, `Committed` (an action property), `InstrumentsNeverStuck`
  (*FlowInv*: a request in flight waits for an answer or for the callback of a part that went
  with its connection), for any number of lost connections, and `UpdatesTypeCorrect`, `StatusIsCurrent`, for any number of versions.
  *OutcomeInv* relates the flags, what is unanswered on the present connection and what became
  of each part; the argument for the status is that of the position.
- `MarketSubscriptionsProofs`: `SubscriptionsTypeCorrect`, `NothingTwice`, `NothingForgotten`,
  `LimitHonoured`, `StreamsNeverStuck`, for any finite set of symbols, any limit, with and without a login. Lemmas on
  slices (no position is in two, enough streams have them all, a slice has at most as many
  symbols as the limit) and on queues (what a concatenation and a tail subscribe; no two
  messages of one subscription overlap). *SymbolsInv*: every symbol is in one place, and there
  are streams for all places. *StreamInv*: a stream asks for its slice and nothing else, once;
  READY, it has asked for all of it; not READY, for nothing. An addition to a slice was unknown
  before, so it overlaps nothing that was asked for.
- `OrderBookProofs`: `TypeCorrect`, `BooksInSync`, `NeverAGap`, `CurrentAtRest`, for any instruments, levels
  and channel. InSync alone is not inductive: an update is only right if what it follows is
  what was published last. `ChainInv` says that the messages of a book on their way form a
  chain, each link following the one before, from `sequence_` to what was sent last, with a
  snapshot only as its first link; when the snapshot is dropped its number is `sequence_`
  itself, so the next link still fits. For books5 the invariant is that nothing is published.
- `OrderFlowProofs`: `FlowTypeCorrect`, `ResponsesAreTruthful`, `ImplementsLifecycle`
  (`Spec => LifecycleSpec`), `NoResponseIsMissing`, `OrderManagerInSync`, for any finite set of
  orders, any number of requests and lost connections. `IInv` says where the request of each
  action may be (on its way, in an amendment that is not done, in one message on its way back:
  *AtMostOnce*, *Nowhere*), and what each message says that stays true while it travels.
  *AnswersInv*: an action that was not answered is still in one of these places, or was lost.
  *SyncInv*: while the channel is subscribed, what the order manager does not know of a live
  order is in a message on its way, or in the open orders being downloaded; what finished on
  this subscription was told or is on its way.
- `TimeSeriesProofs`: `CandlesTypeCorrect`, `CandlesNotTwice`, `HistoryAskedAgain`,
  `OutagesAreMadeUpFor`, `CandlesNeverStuck`, for any finite set of symbols, any limit of the
  history, any number of minutes and of lost connections.
  Lemmas on sequences (what a head, a concatenation and `get_all` return; a sequence with each
  element of a finite set once has all of them) and on bags (what remains of one when a copy is
  added or removed). *OnlyKnown*: what a connection subscribes is known, so an addition, which
  was not, overlaps nothing; a lost connection has asked for nothing. *OnItsWay*: a bar closed
  since its channel was subscribed was published or is on its way, also while others are
  received; Delivered alone says nothing while one is. Of a history its newest bars were
  published (`Past`), and what is not among them is no older than the channel's first bar when the
  history was taken since. *UpToNow*: no history is of a later minute.
  *AllAskedFor*: a READY connection has asked for all that is known or is about to, and what it
  asked for is in the channel or on its way to the exchange.
- `MessagesProofs`, one section per part:
  - encoding: `EncodingTypeCorrect`, `SentAsDocumented`, `PassiveStaysPassive`, from
    lemmas on what each branch of `compute_order_attributes` can return;
  - amendments: `AmendTypeCorrect`, `ChangesOnlyWhatIsAsked`, for any number of amendments:
    without overlap, one message is on its way at most and what the request was filled in with
    is still so when the exchange takes it;
  - trades: `TradesTypeCorrect`, `TradesPublishedOnce`, `OneSummaryPerSymbol`, for messages of
    any length. *Loop* is the invariant of the handler's loop: what was published, followed by
    what is held, are the positions so far; *Alike*: as long as there is one symbol nothing was
    flushed;
  - dispatch: `DispatchTypeCorrect`, `NeverUnexpected`, `EventsComeFirst`, for all streams
    and settings: a channel that was asked for has a handler that the stream expects, and a
    message with several keys is taken by its first;
  - throttle: `ThrottleTypeCorrect`, `NeverShortened`, for any connections and values. A
    Retry-After that repeats the value before it is not looked at; *RetryInv* says why it need
    not be: that value has been waited for, or is past;
  - the composition: `PartsImplemented` (`MessagesSpec` implies the specification of each part)
    and with it `MessagesTypeCorrect`.

The inductive invariants were first checked by TLC as invariants of the runs. Each step has
one case per action. In OrderBook and OrderFlow induction over sequences is avoided: the chain is
stated link by link, and the places of a request message by message. In TradeMessages it is not:
the handler is a loop. There the induction is by a least counterexample (`Least`, from the
well-foundedness of `<` on the naturals): the shortest prefix of a message for which a formula
fails has a prefix before it for which it holds. That way the fold of the handler and the
flattening of the summaries are known for every length.

Assumed are the assumptions on constants named in the modules, and nothing else. Only
model-checked: liveness under fairness (`EventuallyReady`, `AllSubscribed`,
`EventuallyCommitted`, `EventuallyCurrent`, `EventuallyJoined`), which is out of the prover's
reach. Every invariant, action property and refinement that a passing run checks is a theorem.

Of liveness the half that is a safety property is proved. `AtRest`, in five of the modules,
says that none of the steps that `Fairness` is about is possible (in OrderBook, of one book, with
a `MaxWire` that is not zero), and the theorems `DownloadNeverStuck`, `InstrumentsNeverStuck`,
`StreamsNeverStuck`, `CurrentAtRest` and `CandlesNeverStuck` say that the system comes to rest
only where the liveness property wants it. What is left to TLC is that it does come to rest:
that the fair steps run out between two losses of a connection. TLC found AtRest to be the
negation of ENABLED of these steps in every state of the runs' instances (in OrderBook, AtRest of
all books; in AccountDownload, while the process runs), and the conclusions of the theorems to
fail for the account without the proviso on orders.

## Not modelled

- the text of messages, URLs, signatures, JSON schemas (`parser`, `crypto`, `api`): no state;
- balances, tickers, the best bid and offer, index tickers, funding rates: translated and
  published at once, no state (that a stream receives them is in Dispatch); of reference data
  and positions, only which version was published last;
- answers to the queries of stale orders: the code logs and drops them;
- a redirection of Rest's HTTP requests: `log::fatal`, as for the account (`Redirected` in
  AccountDownload), so what follows it is nothing;
- `discard_symbol` (a symbol it drops is no member of `Symbols`), the maps of `map.cpp` other
  than that of order states, the error codes of `utils.cpp`: tables without state;
- how far back a download of trades looks, the begin and end of that request: durations;
- `bridge`, `fix_bridge`, the application and flags: other programs, or constants here;
- the checksum of books (`// XXX HANS validate checksum`, the code does not either) and the
  library's `BadState`;
- stream ids, which label what is published (Business gets that of the stream created before it,
  `controller.cpp:98`);
- latency, ping, metrics, logging;
- the libraries (`core::Download2`, `core::limit::*`, `core::Symbols`, `server::Dispatcher`,
  `web::*`), which appear only as the code uses them.

## Plan

Done: the account with its data, the instruments with theirs, subscriptions, books, the order
flow with OrderLifecycle, amendments, encoding, time series, trades, dispatch, throttle, and the
proofs above, which leave no safety property of a run without a theorem. Left, in order of importance:

1. Quantities in OrderFlow: fills between an amendment and its acknowledgement, which
   `amendResult` and `accFillSz` of one message report together.
2. Composition of AccountDownload with OrderFlow: the stages of the download that are about
   orders are in both, each abstracting the other's.

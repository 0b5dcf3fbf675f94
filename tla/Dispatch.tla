----------------------------- MODULE Dispatch -----------------------------
(***************************************************************************)
(* The messages of a websocket, from the parser to the handler of its      *)
(* stream.  All streams share the parser: it looks at the keys of a        *)
(* message in their order and the first of "op", "event" and "arg" decides *)
(* which handler is called.  Each stream implements all the handlers, and  *)
(* those it does not expect end the process.  What a stream receives       *)
(* follows from what it asked for, which follows from the settings.        *)
(***************************************************************************)
EXTENDS Sequences, FiniteSetsExt

Streams == {"MarketData", "StaticData", "DropCopy", "Business"}

\* The settings that matter to one stream or another; account: a master account.
DispatchSettings ==
    [account : BOOLEAN,
     books_use_public : BOOLEAN,
     books_depth : {5, 50, 400},
     allow_unknown_event_types : BOOLEAN,
     retry_logon : BOOLEAN]

VARIABLES
    stream,      \* the stream that is looked at
    flags,       \* the settings
    process,     \* "running", or what ended it
    connection,  \* "down", "login" when a login was sent, or "up"
    asked,       \* channels whose subscription was sent
    acked,       \* channels whose subscription was acknowledged
    last         \* history: the last message and the handler that took it

dispatchVars == <<stream, flags, process, connection, asked, acked, last>>

DispatchInit ==
    /\ stream \in Streams
    /\ flags \in DispatchSettings
    /\ process = "running"
    /\ connection = "down"
    /\ asked = {}
    /\ acked = {}
    /\ last = [message |-> <<>>, handler |-> "none"]

-----------------------------------------------------------------------------
(* What each stream asks for. *)

Private == {"account", "balance_and_position", "positions", "orders"}

BooksChannel(f) ==
    CASE f.books_depth = 5 -> "books5"
      [] f.books_depth = 50 -> "books50-l2-tbt"
      [] f.books_depth = 400 /\ f.account /\ ~f.books_use_public -> "books-l2-tbt"
      [] OTHER -> "books"

PublicChannelsAndMarkPrice(f) ==
    {"tickers", "trades", "bbo-tbt", "funding-rate", "index-tickers", "mark-price", BooksChannel(f)}

PublicChannels(f) ==
    {"tickers", "trades", "bbo-tbt", "funding-rate", "index-tickers", BooksChannel(f)}

ChannelsOf(s, f) ==
    CASE s = "MarketData" -> PublicChannels(f)
      [] s = "StaticData" -> {"status", "instruments"}
      [] s = "DropCopy"   -> Private
      [] s = "Business"   -> {"candle1m"}

\* The streams that log in: DropCopy always, Business never.
LogsIn(s, f) == s = "DropCopy" \/ (s \in {"MarketData", "StaticData"} /\ f.account)

WebsocketUp ==
    /\ process = "running"
    /\ connection = "down"
    /\ connection' = IF LogsIn(stream, flags) THEN "login" ELSE "up"
    /\ UNCHANGED <<stream, flags, process, asked, acked, last>>

\* A depth of 50 is only for an account; that is found out when symbols are known.
Ask(channel) ==
    /\ process = "running"
    /\ connection = "up"
    /\ channel \in ChannelsOf(stream, flags) \ asked
    /\ IF channel = "books50-l2-tbt" /\ (~flags.account \/ flags.books_use_public)
       THEN process' = "settings" /\ UNCHANGED asked
       ELSE asked' = asked \union {channel} /\ UNCHANGED process
    /\ UNCHANGED <<stream, flags, connection, acked, last>>

-----------------------------------------------------------------------------
(* The parser: a message is a sequence of keys with what they say. *)

Operations ==
    [op \in {"order", "batch-orders", "amend-order", "batch-amend-orders", "cancel-order",
             "batch-cancel-orders"} |->
        CASE op \in {"order", "batch-orders"} -> "Order"
          [] op \in {"amend-order", "batch-amend-orders"} -> "AmendOrder"
          [] op \in {"cancel-order", "batch-cancel-orders"} -> "CancelOrder"]

Events ==
    [event \in {"error", "login", "subscribe", "unsubscribe", "channel-conn-count", "notice"} |->
        CASE event = "error" -> "Error"
          [] event = "login" -> "Login"
          [] event = "subscribe" -> "Subscribe"
          [] event = "unsubscribe" -> "Unsubscribe"
          [] event = "channel-conn-count" -> "ChannelConnCount"
          [] event = "notice" -> "Notice"]

BooksChannels == {"books", "books5", "books50-l2-tbt", "books-l2-tbt"}

Args ==
    [arg \in BooksChannels \union Private \union
            {"status", "instruments", "estimated-price", "price-limit", "mark-price", "tickers",
             "trades", "bbo-tbt", "index-tickers", "funding-rate", "candle1m"} |->
        CASE arg \in BooksChannels -> "BooksL2Tbt"
          [] arg = "status" -> "Status"
          [] arg = "instruments" -> "Instruments"
          [] arg = "estimated-price" -> "EstimatedPrice"
          [] arg = "price-limit" -> "PriceLimit"
          [] arg = "mark-price" -> "MarkPrice"
          [] arg = "tickers" -> "Tickers"
          [] arg = "trades" -> "Trades"
          [] arg = "bbo-tbt" -> "BboTbt"
          [] arg = "index-tickers" -> "IndexTickers"
          [] arg = "funding-rate" -> "FundingRate"
          [] arg = "account" -> "Account"
          [] arg = "balance_and_position" -> "BalanceAndPosition"
          [] arg = "positions" -> "Positions"
          [] arg = "orders" -> "Orders"
          [] arg = "candle1m" -> "Candle"]

Tables == [op |-> Operations, event |-> Events, arg |-> Args]

\* The handler that a key with its value calls for, if any.
Named(field) ==
    LET table == Tables[field.key] IN
    IF field.value \in DOMAIN table THEN table[field.value] ELSE "unknown"

\* The positions of the keys that the parser looks at.
Keyed(message) == {i \in DOMAIN message : message[i].key \in DOMAIN Tables}

HandlerOfLastKey(message) ==
    IF Keyed(message) = {} THEN "unknown" ELSE Named(message[Max(Keyed(message))])

HandlerOf(message) ==
    IF Keyed(message) = {} THEN "unknown" ELSE Named(message[Min(Keyed(message))])

-----------------------------------------------------------------------------
(* The handlers of each stream that do not end the process. *)

Common == {"Error", "Subscribe", "Unsubscribe", "Notice"}

Expected(s) ==
    Common \union
    CASE s = "MarketData" ->
            {"Status", "Tickers", "Trades", "BboTbt", "BooksL2Tbt", "IndexTickers", "FundingRate", "Login"}
      [] s = "StaticData" -> {"Status", "Instruments", "Login"}
      [] s = "DropCopy" ->
            {"ChannelConnCount", "Login", "Account", "BalanceAndPosition", "Positions",
             "Orders", "Order", "AmendOrder", "CancelOrder"}
      [] s = "Business" -> {"Candle"}

\* What becomes of the process and of the connection.
Handle(handler) ==
    /\ process' =
        CASE handler = "unknown" /\ ~flags.allow_unknown_event_types -> "unknown"
          [] handler # "unknown" /\ handler \notin Expected(stream) -> "unexpected"
          [] handler = "Error" /\ stream = "DropCopy" /\ ~flags.retry_logon -> "error"
          [] OTHER -> process
    /\ connection' =
        CASE handler = "Error" /\ stream = "DropCopy" /\ flags.retry_logon -> "down"
          [] handler = "Login" /\ "Login" \in Expected(stream) -> "up"
          [] OTHER -> connection

Parse(message) ==
    /\ process = "running"
    /\ connection # "down"
    /\ last' = [message |-> message, handler |-> HandlerOf(message)]
    /\ Handle(HandlerOf(message))
    /\ asked' = IF connection' = "down" THEN {} ELSE asked
    /\ UNCHANGED <<stream, flags>>

-----------------------------------------------------------------------------
(* What the exchange sends, with its keys in the order of the tests. *)

Key(key, value) == [key |-> key, value |-> value]
Event(event) == <<Key("event", event), Key("msg", "")>>

LoginReply ==
    /\ connection = "login"
    /\ Parse(Event("login"))
    /\ UNCHANGED acked

SubscribeReply(channel) ==
    /\ channel \in asked \ acked
    /\ Parse(<<Key("event", "subscribe"), Key("arg", channel), Key("connId", "")>>)
    /\ acked' = acked \union {channel}

Push(channel) ==
    /\ channel \in acked
    /\ Parse(<<Key("arg", channel), Key("data", "")>>)
    /\ UNCHANGED acked

\* How many connections have a private channel.
ConnCount(channel) ==
    /\ channel \in asked \intersect Private
    /\ Parse(<<Key("event", "channel-conn-count"), Key("channel", channel), Key("connId", "")>>)
    /\ UNCHANGED acked

\* The acknowledgement of an order action.
OrderReply(op) ==
    /\ stream = "DropCopy"
    /\ connection = "up"
    /\ Parse(<<Key("code", ""), Key("data", ""), Key("id", ""), Key("msg", ""), Key("op", op)>>)
    /\ UNCHANGED acked

\* An error, of a subscription for instance, and the notice that the service restarts.
ErrorOrNotice(event) ==
    /\ event \in {"error", "notice"}
    /\ Parse(Event(event))
    /\ acked' = IF connection' = "down" THEN {} ELSE acked

\* An event that the enumeration does not have.
NewEvent ==
    /\ Parse(Event("new"))
    /\ UNCHANGED acked

WebsocketLostKeepsAcked ==
    /\ process = "running"
    /\ connection # "down"
    /\ connection' = "down"
    /\ asked' = {}
    /\ UNCHANGED <<stream, flags, process, acked, last>>

WebsocketLost ==
    /\ process = "running"
    /\ connection # "down"
    /\ connection' = "down"
    /\ asked' = {}
    /\ acked' = {}
    /\ UNCHANGED <<stream, flags, process, last>>

DispatchNext ==
    \/ WebsocketUp
    \/ \E channel \in ChannelsOf(stream, flags) :
        Ask(channel) \/ SubscribeReply(channel) \/ Push(channel) \/ ConnCount(channel)
    \/ LoginReply
    \/ \E op \in {"batch-orders", "batch-amend-orders", "batch-cancel-orders"} : OrderReply(op)
    \/ \E event \in {"error", "notice"} : ErrorOrNotice(event)
    \/ NewEvent
    \/ WebsocketLost

DispatchSpec == DispatchInit /\ [][DispatchNext]_dispatchVars

-----------------------------------------------------------------------------
(* Properties. *)

\* Type invariant of a stream's websocket.
DispatchTypeOK ==
    /\ stream \in Streams
    /\ flags \in DispatchSettings
    /\ process \in {"running", "settings", "unknown", "unexpected", "error"}
    /\ connection \in {"down", "login", "up"}
    /\ acked \subseteq asked
    /\ asked \subseteq ChannelsOf(stream, flags)

\* Whatever a stream subscribes or sends under whatever settings, none of the messages
\* that this makes the exchange send runs into a handler that is log::fatal: the lists of
\* channels, of the parser and of the handlers of four streams agree.
NothingUnexpected ==
    process # "unexpected"

\* A message that has an event is taken for that event although it may name a channel in
\* its "arg" too, and one that acknowledges a request for what it acknowledges: neither is
\* parsed as data of the channel.
EventsAreEvents ==
    \A i \in DOMAIN last.message :
        last.message[i].key = "event" =>
            \/ last.message[i].value \notin DOMAIN Events /\ last.handler = "unknown"
            \/ last.message[i].value \in DOMAIN Events /\ last.handler = Events[last.message[i].value]

=============================================================================

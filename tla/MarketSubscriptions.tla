----------------------- MODULE MarketSubscriptions -----------------------
(***************************************************************************)
(* How the gateway subscribes its symbols.  Clients and the exchange's     *)
(* instruments make symbols known; Controller spreads them over as many    *)
(* MarketData streams as the limit of symbols per connection asks for, and *)
(* each stream queues the subscriptions of its slice and sends them when   *)
(* the rate limiter lets it.  A stream that is not READY ignores what      *)
(* becomes known: it subscribes its whole slice when it is READY again.    *)
(*                                                                         *)
(* core::Symbols, core::limit::Queue and the connections are libraries.    *)
(***************************************************************************)
EXTENDS Integers, SequencesExt

CONSTANTS
    Symbols,                   \* symbols that discard_symbol() does not drop
    Extended,                  \* those of them that are swaps or futures
    MaxSubscriptionsPerStream, \* ws.max_subscriptions_per_stream
    Login,                     \* an account is configured: streams log in
    IncludeBadSubscriptions,   \* misc.include_bad_subscriptions
    MaxDisconnects             \* bound: connections lost, over all streams

ASSUME SymbolsAssumption == IsFiniteSet(Symbols) /\ Extended \subseteq Symbols
ASSUME LimitAssumption == MaxSubscriptionsPerStream \in Nat \ {0}
ASSUME SettingsAssumption == {Login, IncludeBadSubscriptions} \subseteq BOOLEAN
ASSUME DisconnectsAssumption == MaxDisconnects \in Nat

\* Every symbol has these; "books" stands for the one of books5, books50-l2-tbt,
\* books-l2-tbt and books that the settings choose (other depths are fatal, see the
\* assumption on settings in OrderBook).
BaseChannels == {"tickers", "trades", "bbo-tbt", "books"}
Channels == BaseChannels \union {"funding-rate", "index-tickers"}

VARIABLES
    allSymbols,   \* Shared::all_symbols
    extended,     \* Shared::extended_symbols
    symbols,      \* Shared::symbols, in the order in which they became known
    status,       \* of each stream of market_data_: connection_status_
    queue,        \* of each stream: subscribe_queue_
    asked,        \* of each stream: what its present connection has subscribed
    listed,       \* history: symbols first made known by the exchange
    disconnects   \* connections lost so far

vars == <<allSymbols, extended, symbols, status, queue, asked, listed, disconnects>>
streamVars == <<status, queue, asked>>

Init ==
    /\ allSymbols = {}
    /\ extended = {}
    /\ symbols = <<>>
    /\ status = <<>>
    /\ queue = <<>>
    /\ asked = <<>>
    /\ listed = {}
    /\ disconnects = 0

Streams == DOMAIN status

-----------------------------------------------------------------------------
(* core::Symbols: slices are filled one after the other. *)

\* get_slice(index, start_from): what stream i subscribes of all from a position on.
SliceOffByOne(all, i, start) ==
    {all[n] : n \in {m \in DOMAIN all :
        /\ m > start
        /\ (i - 1) * MaxSubscriptionsPerStream < m
        /\ m =< i * MaxSubscriptionsPerStream + 1}}

Slice(all, i, start) ==
    {all[n] : n \in {m \in DOMAIN all :
        /\ m > start
        /\ (i - 1) * MaxSubscriptionsPerStream < m
        /\ m =< i * MaxSubscriptionsPerStream}}

SlicesRoundedDown(all) == Len(all) \div MaxSubscriptionsPerStream

\* How many slices there are.
Slices(all) ==
    (Len(all) + MaxSubscriptionsPerStream - 1) \div MaxSubscriptionsPerStream

-----------------------------------------------------------------------------
(* MarketData::subscribe: one message per base channel for all the symbols, *)
(* and one or two messages for each symbol.                                 *)

ExtraChannels(symbol, ext) ==
    (IF IncludeBadSubscriptions \/ symbol \in ext THEN {"funding-rate"} ELSE {})
        \union (IF IncludeBadSubscriptions \/ symbol \notin ext THEN {"index-tickers"} ELSE {})

Messages(some, ext) ==
    IF some = {} THEN <<>>
    ELSE SetToSeq([channel : BaseChannels, symbols : {some}])
            \o SetToSeq(UNION {[channel : ExtraChannels(s, ext), symbols : {{s}}] : s \in some})

-----------------------------------------------------------------------------
(* Controller::operator()(Trace<SymbolsUpdate>): new streams are created and *)
(* started, then those that are READY subscribe the new symbols.             *)

SymbolsUpdate(new, ext) ==
    LET all == symbols \o new
        streams == 1 .. IF Slices(all) > Len(status) THEN Slices(all) ELSE Len(status)
        start == Len(symbols)
    IN  /\ symbols' = all
        /\ status' = [i \in streams |-> IF i \in Streams THEN status[i] ELSE "DISCONNECTED"]
        /\ asked' = [i \in streams |-> IF i \in Streams THEN asked[i] ELSE {}]
        /\ queue' = [i \in streams |->
            CASE i \notin Streams -> <<>>
              [] i \in Streams /\ status[i] = "READY" ->
                    queue[i] \o Messages(Slice(all, i, start), ext)
              [] OTHER -> queue[i]]

\* A client subscribes some symbols.
Subscribe(some) ==
    LET new == SetToSeq(some \ allSymbols) IN
    /\ allSymbols' = allSymbols \union some
    /\ SymbolsUpdate(new, extended)
    /\ UNCHANGED <<extended, listed, disconnects>>

\* The exchange lists some instruments, in an answer to Rest or on StaticData.
InstrumentsExtendedLate(some) ==
    LET new == SetToSeq(some \ allSymbols) IN
    /\ allSymbols' = allSymbols \union some
    /\ extended' = extended \union (some \intersect Extended)
    /\ listed' = listed \union (some \ allSymbols)
    /\ IF new # <<>>
       THEN SymbolsUpdate(new, extended)
       ELSE UNCHANGED <<symbols, streamVars>>
    /\ UNCHANGED disconnects

InstrumentsAllExtended(some) ==
    LET new == SetToSeq(some \ allSymbols) IN
    /\ allSymbols' = allSymbols \union some
    /\ extended' = extended \union some
    /\ listed' = listed \union (some \ allSymbols)
    /\ IF new # <<>>
       THEN SymbolsUpdate(new, extended')
       ELSE UNCHANGED <<symbols, streamVars>>
    /\ UNCHANGED disconnects

Instruments(some) ==
    LET new == SetToSeq(some \ allSymbols) IN
    /\ allSymbols' = allSymbols \union some
    /\ extended' = extended \union (some \intersect Extended)
    /\ listed' = listed \union (some \ allSymbols)
    /\ IF new # <<>>
       THEN SymbolsUpdate(new, extended')
       ELSE UNCHANGED <<symbols, streamVars>>
    /\ UNCHANGED disconnects

-----------------------------------------------------------------------------
(* MarketData. *)

\* State::DONE of the download: READY, and only then the whole slice.
DoneBeforeReady(i) ==
    /\ status' = [status EXCEPT ![i] = "READY"]
    /\ queue' = IF status[i] = "READY"
                THEN [queue EXCEPT ![i] = @ \o Messages(Slice(symbols, i, 0), extended)]
                ELSE queue

Done(i) ==
    /\ status' = [status EXCEPT ![i] = "READY"]
    /\ queue' = [queue EXCEPT ![i] = @ \o Messages(Slice(symbols, i, 0), extended)]

\* The websocket is Ready: download_.begin().
Ready(i) ==
    /\ status[i] = "DISCONNECTED"
    /\ IF Login
       THEN /\ status' = [status EXCEPT ![i] = "LOGIN_SENT"]
            /\ UNCHANGED queue
       ELSE Done(i)
    /\ UNCHANGED <<allSymbols, extended, symbols, asked, listed, disconnects>>

\* The exchange accepted the login: download_.check_relaxed(LOGIN).
LoginAck(i) ==
    /\ status[i] = "LOGIN_SENT"
    /\ Done(i)
    /\ UNCHANGED <<allSymbols, extended, symbols, asked, listed, disconnects>>

\* A Timer with a token of the rate limiter: the next message is sent.
Timer(i) ==
    /\ status[i] = "READY"
    /\ queue[i] # <<>>
    /\ LET message == Head(queue[i]) IN
        asked' = [asked EXCEPT ![i] = @ \union ({message.channel} \X message.symbols)]
    /\ queue' = [queue EXCEPT ![i] = Tail(@)]
    /\ UNCHANGED <<allSymbols, extended, symbols, status, listed, disconnects>>

DisconnectedKeepsQueue(i) ==
    /\ status[i] # "DISCONNECTED"
    /\ disconnects < MaxDisconnects
    /\ status' = [status EXCEPT ![i] = "DISCONNECTED"]
    /\ asked' = [asked EXCEPT ![i] = {}]
    /\ disconnects' = disconnects + 1
    /\ UNCHANGED <<allSymbols, extended, symbols, queue, listed>>

\* The connection is lost, or closed when the exchange announces maintenance.
Disconnected(i) ==
    /\ status[i] # "DISCONNECTED"
    /\ disconnects < MaxDisconnects
    /\ status' = [status EXCEPT ![i] = "DISCONNECTED"]
    /\ queue' = [queue EXCEPT ![i] = <<>>]
    /\ asked' = [asked EXCEPT ![i] = {}]
    /\ disconnects' = disconnects + 1
    /\ UNCHANGED <<allSymbols, extended, symbols, listed>>

-----------------------------------------------------------------------------

Next ==
    \/ \E some \in SUBSET Symbols : Subscribe(some)
    \/ \E some \in SUBSET Symbols : Instruments(some)
    \/ \E i \in Streams : Ready(i)
    \/ \E i \in Streams : LoginAck(i)
    \/ \E i \in Streams : Timer(i)
    \/ \E i \in Streams : Disconnected(i)

Spec == Init /\ [][Next]_vars

\* No stream is ever destroyed, and there are never more than symbols.
MaxStreams == Cardinality(Symbols)

(***************************************************************************)
(* The library reconnects, the exchange answers a login, the event loop    *)
(* keeps calling Timer and the rate limiter refills.                       *)
(***************************************************************************)
Fairness ==
    \A i \in 1 .. MaxStreams :
        /\ WF_vars(i \in Streams /\ Ready(i))
        /\ WF_vars(i \in Streams /\ LoginAck(i))
        /\ WF_vars(i \in Streams /\ Timer(i))

FairSpec == Spec /\ Fairness

-----------------------------------------------------------------------------
(* Properties. *)

Message == [channel : Channels, symbols : SUBSET Symbols]

\* Type invariant of Shared and of the streams.
TypeOK ==
    /\ allSymbols \subseteq Symbols
    /\ extended \subseteq Extended
    /\ symbols \in Seq(Symbols)
    /\ status \in Seq({"DISCONNECTED", "LOGIN_SENT", "READY"})
    /\ queue \in Seq(Seq(Message))
    /\ asked \in Seq(SUBSET (Channels \X Symbols))
    /\ DOMAIN queue = Streams
    /\ DOMAIN asked = Streams
    /\ listed \subseteq Symbols
    /\ disconnects \in Nat

\* What message n of the queue of stream i subscribes.
Queued(i, n) == {queue[i][n].channel} \X queue[i][n].symbols

\* What stream i has subscribed or will subscribe without being told again.
Covered(i) == asked[i] \union UNION {Queued(i, n) : n \in DOMAIN queue[i]}

\* No symbol has a channel subscribed twice: not on one connection, and not on the
\* connections of two streams (see CHANGELOG.md, #226 and #467).
NoDuplicates ==
    \A i \in Streams :
        /\ \A n \in DOMAIN queue[i] :
            /\ Queued(i, n) \intersect asked[i] = {}
            /\ \A m \in DOMAIN queue[i] : m # n => Queued(i, n) \intersect Queued(i, m) = {}
        /\ \A j \in Streams : i # j => Covered(i) \intersect Covered(j) = {}

\* Every symbol known belongs to a stream, and once that stream is READY all the
\* base channels of the symbol are subscribed or queued, whether the symbol became
\* known before the stream existed, while it was away or after; and so is the funding
\* rate of a swap or future that the exchange made known (one that a client made known
\* first need not have it).
NothingMissing ==
    /\ allSymbols = UNION {Slice(symbols, i, 0) : i \in Streams}
    /\ \A i \in Streams :
        status[i] = "READY" =>
            LET slice == Slice(symbols, i, 0) IN
            /\ BaseChannels \X slice \subseteq Covered(i)
            /\ {"funding-rate"} \X (slice \intersect listed \intersect Extended) \subseteq Covered(i)

\* No connection subscribes more symbols than --ws_max_subscriptions_per_stream.
WithinLimit ==
    \A i \in Streams :
        Cardinality({pair[2] : pair \in Covered(i)}) =< MaxSubscriptionsPerStream

\* index.rst, Comments: "The index-tickers and funding-rate channels are subscribed
\* for all swaps and futures."  So a READY stream has asked for the funding rates of its
\* symbols that the exchange has listed as such, also when a client subscribed them first.
SwapsHaveFundingRate ==
    \A i \in Streams :
        status[i] = "READY" =>
            {"funding-rate"} \X (Slice(symbols, i, 0) \intersect extended) \subseteq Covered(i)

\* Every symbol is subscribed in the end, and stays so once connections are stable.
AllSubscribed ==
    <>[](\A s \in allSymbols : \E i \in Streams : BaseChannels \X {s} \subseteq asked[i])

=============================================================================

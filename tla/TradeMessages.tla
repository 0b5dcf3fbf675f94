-------------------------- MODULE TradeMessages --------------------------
(***************************************************************************)
(* How MarketData turns a message of the trades channel into TradeSummary  *)
(* messages.  The trades of one symbol are collected in shared_.trades, a  *)
(* buffer of all streams that outlives the message, and published when the *)
(* symbol changes and at the end.                                          *)
(***************************************************************************)
EXTENDS Integers, Sequences, SequencesExt

CONSTANTS
    TradeSymbols,
    MaxStamp,      \* bound: times and sequence numbers
    MaxTrades      \* bound: trades of a message

ASSUME StampAssumption == {MaxStamp, MaxTrades} \subseteq Nat \ {0}

VARIABLES
    trades,        \* Shared::trades: positions of the trades collected in their message
    received,      \* the last message: its trades
    summaries      \* the TradeSummary messages published for it

tradeVars == <<trades, received, summaries>>

Trade == [inst_id : TradeSymbols, ts : 1 .. MaxStamp, seq_id : 1 .. MaxStamp]

TradesInit ==
    /\ trades = <<>>
    /\ received = <<>>
    /\ summaries = <<>>

\* What the handler keeps between two trades; the symbol is "" before the first.
Start(buffer) ==
    [symbol |-> "", trades |-> buffer, time |-> 0, sequence |-> 0, published |-> <<>>]

Summary(h, is_last) ==
    [symbol |-> h.symbol, trades |-> h.trades, exchange_time_utc |-> h.time,
     exchange_sequence |-> h.sequence, is_last |-> is_last]

Highest(a, b) == IF a < b THEN b ELSE a

FlushUncleared(h) ==
    [h EXCEPT !.published = Append(@, Summary(h, FALSE))]

FlushMarked(h) ==
    [h EXCEPT !.published = Append(@, Summary(h, TRUE)), !.trades = <<>>, !.time = 0, !.sequence = 0]

Flush(h) ==
    [h EXCEPT !.published = Append(@, Summary(h, FALSE)), !.trades = <<>>, !.time = 0, !.sequence = 0]

CollectUnguarded(h, trade, i) ==
    LET named == [h EXCEPT !.symbol = trade.inst_id]
        begun == IF named.symbol # h.symbol THEN Flush(named) ELSE named
    IN  [begun EXCEPT
            !.time = Highest(@, trade.ts),
            !.sequence = Highest(@, trade.seq_id),
            !.trades = Append(@, i)]

CollectLatest(h, trade, i) ==
    LET named == [h EXCEPT !.symbol = trade.inst_id]
        begun == IF named.symbol # h.symbol /\ h.trades # <<>> THEN Flush(named) ELSE named
    IN  [begun EXCEPT !.time = trade.ts, !.sequence = trade.seq_id, !.trades = Append(@, i)]

\* One trade.  A new symbol publishes what was collected before it, and under the new
\* symbol, which utils::update has already put in place.
Collect(h, trade, i) ==
    LET named == [h EXCEPT !.symbol = trade.inst_id]
        begun == IF named.symbol # h.symbol /\ h.trades # <<>> THEN Flush(named) ELSE named
    IN  [begun EXCEPT
            !.time = Highest(@, trade.ts),
            !.sequence = Highest(@, trade.seq_id),
            !.trades = Append(@, i)]

\* The loop over the trades: what is kept after the first i of them.
Collected(buffer, data) ==
    LET after[i \in 0 .. Len(data)] ==
            IF i = 0 THEN Start(buffer) ELSE Collect(after[i - 1], data[i], i)
    IN  after[Len(data)]

TradesUncleared(data) ==
    LET h == Collected(trades, data) IN
    /\ received' = data
    /\ trades' = h.trades
    /\ summaries' = h.published \o IF h.trades # <<>> THEN <<Summary(h, TRUE)>> ELSE <<>>

\* A message of the channel.
Trades(data) ==
    LET h == Collected(<<>>, data) IN
    /\ received' = data
    /\ trades' = h.trades
    /\ summaries' = h.published \o IF h.trades # <<>> THEN <<Summary(h, TRUE)>> ELSE <<>>

TradesNext ==
    \E n \in 0 .. MaxTrades : \E data \in [1 .. n -> Trade] : Trades(data)

TradesSpec == TradesInit /\ [][TradesNext]_tradeVars

-----------------------------------------------------------------------------
(* Properties. *)

\* Type invariant of what is collected and published.
TradesTypeOK ==
    /\ trades \in Seq(1 .. MaxTrades)
    /\ received \in Seq(Trade)
    /\ \A i \in DOMAIN summaries :
        /\ summaries[i].symbol \in TradeSymbols
        /\ summaries[i].exchange_time_utc \in 1 .. MaxStamp
        /\ summaries[i].exchange_sequence \in 1 .. MaxStamp

\* Each trade of a message is published exactly once and in the order of the message,
\* nothing of an earlier message with them, whichever stream that came from, and exactly
\* the last summary tells clients that the message is complete.
EachTradeOnce ==
    /\ FlattenSeq([i \in DOMAIN summaries |-> summaries[i].trades]) = [i \in DOMAIN received |-> i]
    /\ \A i \in DOMAIN summaries : summaries[i].is_last <=> i = Len(summaries)

\* The trades of a message of one symbol, as the exchange sends them, are one summary of
\* that symbol, with the time and the sequence number of the latest of them.
OneSymbolOneSummary ==
    \A symbol \in TradeSymbols :
        received # <<>> /\ (\A i \in DOMAIN received : received[i].inst_id = symbol) =>
            /\ Len(summaries) = 1
            /\ summaries[1].symbol = symbol
            /\ \A i \in DOMAIN received :
                /\ received[i].ts <= summaries[1].exchange_time_utc
                /\ received[i].seq_id <= summaries[1].exchange_sequence
            /\ \E i \in DOMAIN received : received[i].ts = summaries[1].exchange_time_utc
            /\ \E i \in DOMAIN received : received[i].seq_id = summaries[1].exchange_sequence

=============================================================================

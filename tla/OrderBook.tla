---------------------------- MODULE OrderBook ----------------------------
(***************************************************************************)
(* How a MarketData stream follows the order books of the exchange.  A new *)
(* connection starts each book with a snapshot and goes on with            *)
(* incremental updates, each naming the sequence number it follows.        *)
(* MarketData remembers the last sequence number of every instrument, also *)
(* over lost connections, drops what is not newer, and publishes the rest. *)
(*                                                                         *)
(* A book is the set of its price levels, and its sequence number is how   *)
(* often it has changed.  What the clients hold is what the published      *)
(* updates make of it: a lost connection does not empty it.                *)
(***************************************************************************)
EXTENDS Integers, Sequences

CONSTANTS
    Symbols,        \* the instruments of the stream
    Levels,         \* the price levels of a book
    BooksDepth,     \* ws.books_depth
    Vip,            \* an account is configured and ws.books_use_public is not
    MaxSequence,    \* bound: sequence numbers of a book
    MaxWire,        \* bound: messages of a book on their way
    MaxDisconnects  \* bound: connections lost

\* Any other setting is fatal (market_data.cpp:697 and 704).
ASSUME DepthAssumption == BooksDepth \in {5, 400} \/ (BooksDepth = 50 /\ Vip)
ASSUME BooksBoundAssumption == {MaxSequence, MaxWire, MaxDisconnects} \subseteq Nat

VARIABLES
    past,         \* of each book: what it was at each sequence number so far
    connected,    \* the stream is READY and its books are subscribed
    sent,         \* of each book: the sequence number last sent, 0 if none
    wire,         \* of each book: messages on their way to the gateway
    sequence,     \* MarketData::sequence_
    view,         \* of each book: what the clients hold
    disconnects   \* connections lost so far

vars == <<past, connected, sent, wire, sequence, view, disconnects>>

Init ==
    /\ past = [s \in Symbols |-> <<{}>>]
    /\ connected = FALSE
    /\ sent = [s \in Symbols |-> 0]
    /\ wire = [s \in Symbols |-> <<>>]
    /\ sequence = [s \in Symbols |-> 0]
    /\ view = [s \in Symbols |-> {}]
    /\ disconnects = 0

-----------------------------------------------------------------------------
(* The exchange. *)

Now(s) == past[s][Len(past[s])]

Change(s, levels) ==
    /\ Len(past[s]) < MaxSequence
    /\ past' = [past EXCEPT ![s] = Append(@, levels)]
    /\ UNCHANGED <<connected, sent, wire, sequence, view, disconnects>>

\* MarketData::subscribe: the books channel of the stream.
BooksChannel ==
    CASE BooksDepth = 5  -> "books5"
      [] BooksDepth = 50 -> "books50-l2-tbt"
      [] OTHER -> IF Vip THEN "books-l2-tbt" ELSE "books"

\* A message of books5 has the whole book, no action and no sequence numbers; those
\* of the other channels are a snapshot first and then what has changed.
NextMessage(s) ==
    LET now == Now(s) IN
    CASE BooksChannel = "books5" ->
            [action |-> "none", seq |-> 0, prev |-> 0, add |-> now, remove |-> {}]
      [] BooksChannel # "books5" /\ sent[s] = 0 ->
            [action |-> "snapshot", seq |-> Len(past[s]), prev |-> -1, add |-> now, remove |-> {}]
      [] OTHER ->
            [action |-> "update", seq |-> Len(past[s]), prev |-> sent[s],
             add |-> now \ past[s][sent[s]], remove |-> past[s][sent[s]] \ now]

Send(s) ==
    /\ connected
    /\ sent[s] < Len(past[s])
    /\ Len(wire[s]) < MaxWire
    /\ wire' = [wire EXCEPT ![s] = Append(@, NextMessage(s))]
    /\ sent' = [sent EXCEPT ![s] = Len(past[s])]
    /\ UNCHANGED <<past, connected, sequence, view, disconnects>>

-----------------------------------------------------------------------------
(* MarketData. *)

\* The stream is READY and its subscriptions are sent.
Subscribed ==
    /\ ~connected
    /\ connected' = TRUE
    /\ UNCHANGED <<past, sent, wire, sequence, view, disconnects>>

\* The connection is lost with what is on its way; sequence_ stays.
Disconnected ==
    /\ connected
    /\ disconnects < MaxDisconnects
    /\ connected' = FALSE
    /\ sent' = [s \in Symbols |-> 0]
    /\ wire' = [s \in Symbols |-> <<>>]
    /\ disconnects' = disconnects + 1
    /\ UNCHANGED <<past, sequence, view>>

\* An update that is published: SNAPSHOT replaces what clients hold, INCREMENTAL adds
\* and removes levels.
PublishAlwaysIncremental(held, message) ==
    (held \union message.add) \ message.remove

Publish(held, message) ==
    IF message.action = "snapshot"
    THEN message.add
    ELSE (held \union message.add) \ message.remove

\* One message of the books channel; prev is compared for the log only.
ReceiveOnlyNext(s) ==
    /\ wire[s] # <<>>
    /\ wire' = [wire EXCEPT ![s] = Tail(@)]
    /\ LET message == Head(wire[s]) IN
        IF message.seq =< sequence[s] \/ message.prev # sequence[s]
        THEN UNCHANGED <<sequence, view>>
        ELSE /\ sequence' = [sequence EXCEPT ![s] = message.seq]
             /\ view' = [view EXCEPT ![s] = Publish(@, message)]
    /\ UNCHANGED <<past, connected, sent, disconnects>>

ReceiveExpectsNext(s) ==
    /\ wire[s] # <<>>
    /\ wire' = [wire EXCEPT ![s] = Tail(@)]
    /\ LET message == Head(wire[s]) IN
        IF message.seq < sequence[s]
        THEN UNCHANGED <<sequence, view>>
        ELSE /\ sequence' = [sequence EXCEPT ![s] = message.seq + 1]
             /\ view' = [view EXCEPT ![s] = Publish(@, message)]
    /\ UNCHANGED <<past, connected, sent, disconnects>>

ReceiveWithoutSequence(s) ==
    /\ wire[s] # <<>>
    /\ wire' = [wire EXCEPT ![s] = Tail(@)]
    /\ LET message == Head(wire[s]) IN
        IF message.seq =< sequence[s]
        THEN UNCHANGED <<sequence, view>>
        ELSE /\ sequence' = [sequence EXCEPT ![s] =
                                IF message.action = "snapshot" THEN message.seq ELSE @]
             /\ view' = [view EXCEPT ![s] = Publish(@, message)]
    /\ UNCHANGED <<past, connected, sent, disconnects>>

Receive(s) ==
    /\ wire[s] # <<>>
    /\ wire' = [wire EXCEPT ![s] = Tail(@)]
    /\ LET message == Head(wire[s]) IN
        IF message.seq =< sequence[s]
        THEN UNCHANGED <<sequence, view>>
        ELSE /\ sequence' = [sequence EXCEPT ![s] = message.seq]
             /\ view' = [view EXCEPT ![s] = Publish(@, message)]
    /\ UNCHANGED <<past, connected, sent, disconnects>>

-----------------------------------------------------------------------------

Next ==
    \/ \E s \in Symbols, levels \in SUBSET Levels : Change(s, levels)
    \/ \E s \in Symbols : Send(s)
    \/ \E s \in Symbols : Receive(s)
    \/ Subscribed
    \/ Disconnected

Spec == Init /\ [][Next]_vars

(***************************************************************************)
(* The library reconnects, the exchange sends what has changed, and every  *)
(* message that arrives is handled.                                        *)
(***************************************************************************)
Fairness ==
    /\ WF_vars(Subscribed)
    /\ \A s \in Symbols : WF_vars(Send(s)) /\ WF_vars(Receive(s))

FairSpec == Spec /\ Fairness

-----------------------------------------------------------------------------
(* Properties. *)

Message == [action : {"snapshot", "update", "none"}, seq : Nat, prev : Int,
            add : SUBSET Levels, remove : SUBSET Levels]

\* Type invariant of the books, of what is on its way and of MarketData.
TypeOK ==
    /\ past \in [Symbols -> Seq(SUBSET Levels)]
    /\ connected \in BOOLEAN
    /\ sent \in [Symbols -> Nat]
    /\ wire \in [Symbols -> Seq(Message)]
    /\ sequence \in [Symbols -> Nat]
    /\ view \in [Symbols -> SUBSET Levels]
    /\ disconnects \in Nat
    /\ \A s \in Symbols : sent[s] =< Len(past[s]) /\ sequence[s] =< Len(past[s])

\* Clients hold the book the exchange had at the sequence number last published,
\* whatever was lost with a connection and whichever snapshot was dropped.
InSync ==
    \A s \in Symbols :
        view[s] = IF sequence[s] = 0 THEN {} ELSE past[s][sequence[s]]

\* The warning of market_data.cpp:490 is never logged: an update that is not dropped
\* follows the sequence number last published, although sequence_ is not reset.
NoGap ==
    \A s \in Symbols :
        wire[s] # <<>> /\ Head(wire[s]).action = "update" =>
            Head(wire[s]).prev = sequence[s]

\* Clients hold the present book in the end, if it stops changing and the connection
\* is no longer lost.
EventuallyCurrent == <>[](\A s \in Symbols : view[s] = Now(s))

\* index.rst, Comments: "5 will use the books5 throttled **snapshot** feed": a message
\* that has arrived replaces what the clients hold.
SnapshotFeed ==
    \A s \in Symbols :
        sent[s] # 0 /\ wire[s] = <<>> => view[s] = past[s][sent[s]]

=============================================================================

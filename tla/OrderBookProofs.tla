------------------------- MODULE OrderBookProofs -------------------------
(***************************************************************************)
(* What OrderBook promises, for any instruments and levels, any setting of *)
(* the books channel and any number of changes and of lost connections.    *)
(*                                                                         *)
(* The argument: on one connection the messages of a book form a chain     *)
(* from what the exchange sent last back to the sequence number published  *)
(* last.  A snapshot can only be the first link, and when it is dropped    *)
(* its sequence number is the one published last, so the chain holds.      *)
(***************************************************************************)
EXTENDS OrderBook, TLAPS, SequenceTheorems

-----------------------------------------------------------------------------
(* The inductive invariant. *)

\* A lost connection leaves nothing behind.
ConnectionInv ==
    \A s \in Symbols : sent[s] = 0 => wire[s] = <<>>

SentInv ==
    ~connected => \A s \in Symbols : sent[s] = 0

\* There is a book, and what is numbered exists.
PastInv ==
    \A s \in Symbols :
        /\ past[s] # <<>>
        /\ sent[s] =< Len(past[s])
        /\ sequence[s] =< Len(past[s])

\* The sequence number before message n of the wire of s.
Before(s, n) == IF n = 1 THEN sequence[s] ELSE wire[s][n - 1].seq

SnapshotOf(s, n) ==
    /\ wire[s][n].action = "snapshot"
    /\ n = 1
    /\ wire[s][n].add = past[s][wire[s][n].seq]

UpdateOf(s, n) ==
    /\ wire[s][n].action = "update"
    /\ wire[s][n].prev = Before(s, n)
    /\ 0 < Before(s, n)
    /\ Before(s, n) < wire[s][n].seq
    /\ wire[s][n].add = past[s][wire[s][n].seq] \ past[s][Before(s, n)]
    /\ wire[s][n].remove = past[s][Before(s, n)] \ past[s][wire[s][n].seq]

Link(s, n) ==
    /\ 0 < wire[s][n].seq
    /\ wire[s][n].seq =< Len(past[s])
    /\ n = 1 => sequence[s] =< wire[s][n].seq
    /\ SnapshotOf(s, n) \/ UpdateOf(s, n)

\* The chain from what was sent last to what was published last.
ChainInv ==
    \A s \in Symbols :
        /\ \A n \in 1 .. Len(wire[s]) : Link(s, n)
        /\ sent[s] # 0 =>
            sent[s] = IF wire[s] = <<>> THEN sequence[s] ELSE wire[s][Len(wire[s])].seq

\* Nothing of books5 is ever published.
Books5Inv ==
    \A s \in Symbols :
        /\ sequence[s] = 0
        /\ \A n \in 1 .. Len(wire[s]) : wire[s][n].action = "none" /\ wire[s][n].seq = 0

Shape ==
    /\ past \in [Symbols -> Seq(SUBSET Levels)]
    /\ connected \in BOOLEAN
    /\ sent \in [Symbols -> Nat]
    /\ wire \in [Symbols -> Seq(Message)]
    /\ sequence \in [Symbols -> Nat]
    /\ view \in [Symbols -> SUBSET Levels]
    /\ disconnects \in Nat

IInv ==
    /\ Shape
    /\ ConnectionInv
    /\ SentInv
    /\ PastInv
    /\ IF BooksChannel = "books5" THEN Books5Inv ELSE ChainInv
    /\ InSync

-----------------------------------------------------------------------------
(* Sequences. *)

LEMMA AppendFacts ==
    ASSUME NEW S, NEW q \in Seq(S), NEW e \in S
    PROVE  /\ Append(q, e) \in Seq(S)
           /\ Append(q, e) # <<>>
           /\ Len(Append(q, e)) = Len(q) + 1
           /\ \A n \in 1 .. Len(q) : Append(q, e)[n] = q[n]
           /\ Append(q, e)[Len(q) + 1] = e
  OBVIOUS

LEMMA EmptyFacts ==
    ASSUME NEW S, NEW q \in Seq(S)
    PROVE  /\ Len(q) \in Nat
           /\ q = <<>> <=> Len(q) = 0
           /\ \A n \in 1 .. Len(q) : q[n] \in S
  OBVIOUS

LEMMA TailFacts ==
    ASSUME NEW S, NEW q \in Seq(S), q # <<>>
    PROVE  /\ Tail(q) \in Seq(S)
           /\ Len(q) \in Nat /\ Len(q) > 0
           /\ Len(Tail(q)) = Len(q) - 1
           /\ Tail(q) = <<>> <=> Len(q) = 1
           /\ \A n \in 1 .. Len(q) - 1 : Tail(q)[n] = q[n + 1]
           /\ Head(q) = q[1]
           /\ \A n \in 1 .. Len(q) : q[n] \in S
<1>1. /\ Tail(q) \in Seq(S)
      /\ Len(Tail(q)) = Len(q) - 1
      /\ \A n \in 1 .. Len(q) - 1 : Tail(q)[n] = q[n + 1]
  BY HeadTailProperties
<1>2. Len(q) \in Nat /\ Len(q) > 0
  BY EmptyFacts
<1>3. Tail(q) = <<>> <=> Len(q) = 1
  BY <1>1, <1>2, EmptyFacts
<1> QED
  BY <1>1, <1>2, <1>3, EmptyFacts

-----------------------------------------------------------------------------
(* The actions preserve the invariant. *)

LEMMA InitIInv == Init => IInv
<1> SUFFICES ASSUME Init PROVE IInv
  OBVIOUS
<1>1. Shape
  <2>1. <<{}>> \in Seq(SUBSET Levels)
    OBVIOUS
  <2>2. <<>> \in Seq(Message)
    OBVIOUS
  <2> QED
    BY <2>1, <2>2 DEF Init, Shape
<1>2. ConnectionInv /\ SentInv /\ PastInv
  BY DEF Init, ConnectionInv, SentInv, PastInv
<1>3. ChainInv /\ Books5Inv
  BY DEF Init, ChainInv, Books5Inv
<1>4. InSync
  BY DEF Init, InSync
<1> QED
  BY <1>1, <1>2, <1>3, <1>4 DEF IInv

\* A book changes: what it was at the sequence numbers so far stays.
LEMMA ChangeIInv ==
    ASSUME IInv, NEW s \in Symbols, NEW levels \in SUBSET Levels, Change(s, levels)
    PROVE  IInv'
<1> USE DEF IInv, Shape
<1>1. UNCHANGED <<connected, sent, wire, sequence, view, disconnects>>
  BY DEF Change
<1>2. past' = [past EXCEPT ![s] = Append(@, levels)]
  BY DEF Change
<1>3. /\ past' \in [Symbols -> Seq(SUBSET Levels)]
      /\ \A t \in Symbols : past'[t] # <<>> /\ Len(past[t]) =< Len(past'[t])
      /\ \A t \in Symbols : \A n \in 1 .. Len(past[t]) : past'[t][n] = past[t][n]
  <2> SUFFICES ASSUME NEW t \in Symbols
               PROVE  /\ past'[t] \in Seq(SUBSET Levels)
                      /\ past'[t] # <<>>
                      /\ Len(past[t]) =< Len(past'[t])
                      /\ \A n \in 1 .. Len(past[t]) : past'[t][n] = past[t][n]
    BY <1>2
  <2>1. past[t] \in Seq(SUBSET Levels) /\ past[t] # <<>> /\ Len(past[t]) \in Nat
    BY DEF PastInv
  <2>2. CASE t = s
    <3> HIDE DEF IInv, Shape
    <3>1. past'[t] = Append(past[t], levels)
      BY <1>2, <2>2 DEF IInv, Shape
    <3>2. /\ past'[t] \in Seq(SUBSET Levels)
          /\ past'[t] # <<>>
          /\ Len(past'[t]) = Len(past[t]) + 1
          /\ \A n \in 1 .. Len(past[t]) : past'[t][n] = past[t][n]
      BY <2>1, <3>1, AppendFacts
    <3> QED
      BY <2>1, <3>2
  <2>3. CASE t # s
    BY <1>2, <2>1, <2>3
  <2> QED
    BY <2>2, <2>3
<1>4. Shape'
  BY <1>1, <1>3
<1>5. ConnectionInv' /\ SentInv'
  BY <1>1 DEF ConnectionInv, SentInv
<1>6. PastInv'
  <2> SUFFICES ASSUME NEW t \in Symbols
               PROVE  /\ past'[t] # <<>>
                      /\ sent[t] =< Len(past'[t])
                      /\ sequence[t] =< Len(past'[t])
    BY <1>1 DEF PastInv
  <2>1. /\ sent[t] \in Nat /\ sequence[t] \in Nat
        /\ Len(past[t]) \in Nat /\ Len(past'[t]) \in Nat
    BY <1>3
  <2> QED
    BY <1>3, <2>1 DEF PastInv
<1>7. IF BooksChannel = "books5" THEN Books5Inv' ELSE ChainInv'
  <2>1. CASE BooksChannel = "books5"
    BY <1>1, <2>1 DEF Books5Inv
  <2>2. CASE BooksChannel # "books5"
    <3>1. ASSUME NEW t \in Symbols, NEW n \in 1 .. Len(wire[t])
          PROVE  Link(t, n)'
      <4>1. Link(t, n)
        BY <2>2 DEF ChainInv
      <4>2. wire[t][n] \in Message
        BY EmptyFacts
      <4>3. /\ wire[t][n].seq \in 1 .. Len(past[t])
            /\ wire[t][n].seq =< Len(past'[t])
        <5>1. Len(past[t]) \in Nat /\ Len(past'[t]) \in Nat /\ Len(past[t]) =< Len(past'[t])
          BY <1>3, EmptyFacts
        <5>2. wire[t][n].seq \in Nat
          BY <4>2 DEF Message
        <5>3. 0 < wire[t][n].seq /\ wire[t][n].seq =< Len(past[t])
          BY <4>1 DEF Link
        <5> QED
          BY <5>1, <5>2, <5>3
      <4>4. SnapshotOf(t, n) => SnapshotOf(t, n)'
        BY <1>1, <1>3, <4>3 DEF SnapshotOf
      <4>5. UpdateOf(t, n) => UpdateOf(t, n)'
        <5> SUFFICES ASSUME UpdateOf(t, n) PROVE UpdateOf(t, n)'
          OBVIOUS
        <5>1. Before(t, n)' = Before(t, n)
          BY <1>1 DEF Before
        <5>2. Before(t, n) \in Int
          BY <4>2 DEF UpdateOf, Message
        <5>3. Before(t, n) \in 1 .. Len(past[t])
          BY <4>3, <5>2 DEF UpdateOf
        <5>4. /\ past'[t][Before(t, n)] = past[t][Before(t, n)]
              /\ past'[t][wire[t][n].seq] = past[t][wire[t][n].seq]
          BY <1>3, <4>3, <5>3
        <5> QED
          BY <1>1, <5>1, <5>4 DEF UpdateOf
      <4> QED
        BY <1>1, <4>1, <4>3, <4>4, <4>5 DEF Link
    <3>2. ChainInv'
      BY <1>1, <2>2, <3>1 DEF ChainInv
    <3> QED
      BY <2>2, <3>2
  <2> QED
    BY <2>1, <2>2
<1>8. InSync'
  <2> SUFFICES ASSUME NEW t \in Symbols
               PROVE  view[t] = IF sequence[t] = 0 THEN {} ELSE past'[t][sequence[t]]
    BY <1>1 DEF InSync
  <2>1. sequence[t] \in Nat /\ sequence[t] =< Len(past[t]) /\ Len(past[t]) \in Nat
    BY DEF PastInv
  <2> QED
    BY <1>3, <2>1 DEF InSync
<1> QED
  BY <1>4, <1>5, <1>6, <1>7, <1>8 DEF BooksChannel

\* The exchange sends: the chain has one more link.
LEMMA SendIInv ==
    ASSUME IInv, NEW s \in Symbols, Send(s)
    PROVE  IInv'
<1> USE DEF IInv, Shape
<1> DEFINE message == NextMessage(s)
<1>0. PICK last \in Nat : last = Len(wire[s]) + 1
  BY EmptyFacts
<1>1. /\ UNCHANGED <<past, connected, sequence, view, disconnects>>
      /\ wire' = [wire EXCEPT ![s] = Append(@, message)]
      /\ sent' = [sent EXCEPT ![s] = Len(past[s])]
      /\ connected
      /\ sent[s] < Len(past[s])
  BY DEF Send
<1>2. /\ past[s] \in Seq(SUBSET Levels)
      /\ Len(past[s]) \in Nat
      /\ Len(past[s]) > 0
      /\ \A n \in 1 .. Len(past[s]) : past[s][n] \in SUBSET Levels
  BY EmptyFacts DEF PastInv
<1>3. /\ message \in Message
      /\ message.seq = IF BooksChannel = "books5" THEN 0 ELSE Len(past[s])
      /\ BooksChannel = "books5" => message.action = "none"
  <2>1. Now(s) \in SUBSET Levels
    BY <1>2 DEF Now
  <2>2. sent[s] # 0 => past[s][sent[s]] \in SUBSET Levels
    BY <1>1, <1>2
  <2>3. CASE BooksChannel = "books5"
    BY <2>1, <2>3 DEF NextMessage, Message
  <2>4. CASE BooksChannel # "books5" /\ sent[s] = 0
    BY <1>2, <2>1, <2>4 DEF NextMessage, Message
  <2>5. CASE BooksChannel # "books5" /\ sent[s] # 0
    BY <1>2, <2>1, <2>2, <2>5 DEF NextMessage, Message
  <2> QED
    BY <2>3, <2>4, <2>5
<1>4. /\ wire' \in [Symbols -> Seq(Message)]
      /\ wire'[s] # <<>>
      /\ Len(wire[s]) \in Nat
      /\ Len(wire'[s]) = last
      /\ \A n \in 1 .. Len(wire[s]) : wire'[s][n] = wire[s][n]
      /\ wire'[s][last] = message
      /\ \A t \in Symbols \ {s} : wire'[t] = wire[t]
  <2> HIDE DEF message, IInv, Shape
  <2>1. wire[s] \in Seq(Message) /\ wire'[s] = Append(wire[s], message)
    BY <1>1 DEF IInv, Shape
  <2>2. /\ Append(wire[s], message) \in Seq(Message)
        /\ Append(wire[s], message) # <<>>
        /\ Len(wire[s]) \in Nat
        /\ Len(Append(wire[s], message)) = Len(wire[s]) + 1
        /\ \A n \in 1 .. Len(wire[s]) : Append(wire[s], message)[n] = wire[s][n]
        /\ Append(wire[s], message)[Len(wire[s]) + 1] = message
    <3>1. message \in Message
      BY <1>3
    <3>2. Len(wire[s]) \in Nat
      BY <2>1, EmptyFacts
    <3> QED
      BY <2>1, <3>1, <3>2, AppendFacts
  <2>3. wire' \in [Symbols -> Seq(Message)] /\ \A t \in Symbols \ {s} : wire'[t] = wire[t]
    BY <1>1, <2>2 DEF IInv, Shape
  <2> QED
    BY <1>0, <2>1, <2>2, <2>3
<1>5. sent' \in [Symbols -> Nat] /\ sent'[s] = Len(past[s]) /\ sent'[s] # 0
  BY <1>1, <1>2
<1>6. Shape' /\ ConnectionInv' /\ SentInv' /\ PastInv'
  <2>1. \A t \in Symbols \ {s} : sent'[t] = sent[t]
    BY <1>1
  <2> QED
    BY <1>1, <1>2, <1>4, <1>5, <2>1 DEF ConnectionInv, SentInv, PastInv
<1>7. CASE BooksChannel = "books5"
  <2>1. Books5Inv'
    <3> SUFFICES ASSUME NEW t \in Symbols, NEW n \in 1 .. Len(wire'[t])
                 PROVE  wire'[t][n].action = "none" /\ wire'[t][n].seq = 0
      BY <1>1, <1>7 DEF Books5Inv
    <3>1. CASE t = s /\ n = last
      BY <1>3, <1>4, <1>7, <3>1
    <3>2. CASE t # s \/ n # last
      BY <1>0, <1>4, <1>7, <3>2 DEF Books5Inv
    <3> QED
      BY <3>1, <3>2
  <2> QED
    BY <1>1, <1>6, <1>7, <2>1 DEF InSync, BooksChannel
<1>8. CASE BooksChannel # "books5"
  <2>1. ASSUME NEW t \in Symbols, NEW n \in 1 .. Len(wire[t])
        PROVE  Link(t, n)'
    <3>1. Link(t, n)
      BY <1>8 DEF ChainInv
    <3>2. wire'[t][n] = wire[t][n]
      BY <1>4
    <3>3. Before(t, n)' = Before(t, n)
      <4>1. n \in Nat /\ (n # 1 => n - 1 \in 1 .. Len(wire[t]))
        BY EmptyFacts
      <4> QED
        BY <1>1, <1>4, <4>1 DEF Before
    <3> QED
      BY <1>1, <3>1, <3>2, <3>3 DEF Link, SnapshotOf, UpdateOf
  <2>2. Link(s, last)'
    <3>1. /\ wire'[s][last].seq = Len(past[s])
          /\ sequence[s] =< Len(past[s])
      BY <1>3, <1>4, <1>8 DEF PastInv
    <3>2. /\ 0 < wire'[s][last].seq
          /\ wire'[s][last].seq =< Len(past'[s])
          /\ sequence'[s] =< wire'[s][last].seq
      <4>1. past' = past /\ sequence' = sequence
        BY <1>1
      <4> QED
        BY <1>2, <3>1, <4>1
    <3>3. CASE sent[s] = 0
      <4>1. last = 1
        BY <1>0, <3>3, EmptyFacts DEF ConnectionInv
      <4>2. SnapshotOf(s, last)'
        <5>1. message.action = "snapshot" /\ message.add = Now(s)
          BY <1>8, <3>3 DEF NextMessage
        <5> QED
          BY <1>1, <1>4, <3>1, <4>1, <5>1 DEF SnapshotOf, Now
      <4> QED
        BY <1>1, <1>2, <3>1, <3>2, <4>2 DEF Link
    <3>4. CASE sent[s] # 0
      <4>1. Before(s, last)' = sent[s]
        <5>1. sent[s] = IF wire[s] = <<>> THEN sequence[s] ELSE wire[s][Len(wire[s])].seq
          BY <1>8, <3>4 DEF ChainInv
        <5>2. CASE wire[s] = <<>>
          BY <1>0, <1>1, <5>1, <5>2, EmptyFacts DEF Before
        <5>3. CASE wire[s] # <<>>
          <6>1. /\ Len(wire[s]) \in Nat /\ Len(wire[s]) # 0
                /\ last # 1 /\ last - 1 = Len(wire[s])
            BY <1>0, <1>4, <5>3, EmptyFacts
          <6> QED
            BY <1>1, <1>4, <5>1, <5>3, <6>1 DEF Before
        <5> QED
          BY <5>2, <5>3
      <4>2. /\ message.action = "update"
            /\ message.prev = sent[s]
            /\ message.add = Now(s) \ past[s][sent[s]]
            /\ message.remove = past[s][sent[s]] \ Now(s)
        BY <1>8, <3>4 DEF NextMessage
      <4>3. sent[s] \in Nat /\ 0 < sent[s]
        BY <3>4
      <4>4. UpdateOf(s, last)'
        BY <1>1, <1>4, <3>1, <4>1, <4>2, <4>3 DEF UpdateOf, Now
      <4> QED
        BY <1>1, <1>2, <3>1, <3>2, <4>4 DEF Link
    <3> QED
      BY <3>3, <3>4
  <2>3. ASSUME NEW t \in Symbols, NEW n \in 1 .. Len(wire'[t])
        PROVE  Link(t, n)'
    <3>1. CASE t = s /\ n = last
      BY <2>2, <3>1
    <3>2. CASE t # s \/ n # last
      BY <1>0, <1>4, <2>1, <3>2
    <3> QED
      BY <3>1, <3>2
  <2>4. ASSUME NEW t \in Symbols, sent'[t] # 0
        PROVE  sent'[t] = IF wire'[t] = <<>> THEN sequence[t] ELSE wire'[t][Len(wire'[t])].seq
    <3>1. CASE t = s
      BY <1>3, <1>4, <1>5, <1>8, <3>1
    <3>2. CASE t # s
      BY <1>1, <1>4, <1>8, <2>4, <3>2 DEF ChainInv
    <3> QED
      BY <3>1, <3>2
  <2>5. ChainInv'
    BY <1>1, <2>3, <2>4 DEF ChainInv
  <2> QED
    BY <1>1, <1>6, <1>8, <2>5 DEF InSync, BooksChannel
<1> QED
  BY <1>7, <1>8

\* A connection comes or goes; a lost one takes the chains with it.
LEMMA ConnectionIInv ==
    ASSUME IInv, Subscribed \/ Disconnected
    PROVE  IInv'
<1> USE DEF IInv, Shape
<1>1. CASE Subscribed
  <2>1. UNCHANGED <<past, sent, wire, sequence, view, disconnects>> /\ connected' = TRUE
    BY <1>1 DEF Subscribed
  <2>2. \A s \in Symbols, n \in Nat : Link(s, n)' = Link(s, n)
    BY <2>1 DEF Link, SnapshotOf, UpdateOf, Before
  <2>3. ASSUME ChainInv
        PROVE  ChainInv'
    <3>1. ASSUME NEW s \in Symbols, NEW n \in 1 .. Len(wire'[s])
          PROVE  Link(s, n)'
      <4>1. wire'[s] = wire[s] /\ wire[s] \in Seq(Message)
        BY <2>1
      <4>2. n \in 1 .. Len(wire[s]) /\ n \in Nat
        BY <4>1, EmptyFacts
      <4>3. Link(s, n)
        BY <2>3, <4>2 DEF ChainInv
      <4> QED
        BY <2>2, <4>2, <4>3
    <3>2. \A s \in Symbols : sent'[s] # 0 =>
            sent'[s] = IF wire'[s] = <<>> THEN sequence'[s] ELSE wire'[s][Len(wire'[s])].seq
      BY <2>1, <2>3 DEF ChainInv
    <3> QED
      BY <3>1, <3>2 DEF ChainInv
  <2>4. Books5Inv => Books5Inv'
    BY <2>1 DEF Books5Inv
  <2> QED
    BY <2>1, <2>3, <2>4 DEF ConnectionInv, SentInv, PastInv, InSync, BooksChannel
<1>2. CASE Disconnected
  <2>1. /\ UNCHANGED <<past, sequence, view>>
        /\ connected' = FALSE
        /\ sent' = [s \in Symbols |-> 0]
        /\ wire' = [s \in Symbols |-> <<>>]
        /\ disconnects' = disconnects + 1
    BY <1>2 DEF Disconnected
  <2>2. Shape'
    <3>1. wire' \in [Symbols -> Seq(Message)]
      <4>1. <<>> \in Seq(Message)
        OBVIOUS
      <4> QED
        BY <2>1, <4>1
    <3>2. sent' \in [Symbols -> Nat]
      BY <2>1
    <3>3. /\ past' \in [Symbols -> Seq(SUBSET Levels)]
          /\ sequence' \in [Symbols -> Nat]
          /\ view' \in [Symbols -> SUBSET Levels]
          /\ disconnects' \in Nat
      BY <2>1
    <3>4. connected' \in BOOLEAN
      BY <2>1, Zenon
    <3> QED
      BY <3>1, <3>2, <3>3, <3>4
  <2>3. ConnectionInv' /\ SentInv' /\ PastInv'
    <3>1. ASSUME NEW s \in Symbols
          PROVE  Len(past[s]) \in Nat
      <4>1. past[s] \in Seq(SUBSET Levels)
        OBVIOUS
      <4> QED
        BY <4>1, EmptyFacts
    <3> QED
      BY <2>1, <3>1 DEF ConnectionInv, SentInv, PastInv
  <2>4. ChainInv'
    BY <2>1 DEF ChainInv
  <2>5. Books5Inv => Books5Inv'
    BY <2>1 DEF Books5Inv
  <2> QED
    BY <2>1, <2>2, <2>3, <2>4, <2>5 DEF InSync, BooksChannel
<1> QED
  BY <1>1, <1>2

\* MarketData handles a message: the chain loses its first link.
LEMMA ReceiveIInv ==
    ASSUME IInv, NEW s \in Symbols, Receive(s)
    PROVE  IInv'
<1> USE DEF IInv, Shape
<1> DEFINE message == wire[s][1]
<1>1. /\ UNCHANGED <<past, connected, sent, disconnects>>
      /\ wire' = [wire EXCEPT ![s] = Tail(@)]
      /\ wire[s] # <<>>
  BY DEF Receive
<1>2. PICK length \in Nat : length = Len(wire[s]) - 1
  <2>1. wire[s] \in Seq(Message)
    OBVIOUS
  <2>2. Len(wire[s]) \in Nat /\ (wire[s] = <<>> <=> Len(wire[s]) = 0)
    <3> HIDE DEF IInv, Shape
    <3> QED
      BY <2>1, EmptyFacts
  <2>3. Len(wire[s]) - 1 \in Nat
    BY <1>1, <2>2
  <2> QED
    BY <2>3
<1>3. /\ wire' \in [Symbols -> Seq(Message)]
      /\ Len(wire[s]) = length + 1
      /\ Len(wire'[s]) = length
      /\ wire'[s] = <<>> <=> length = 0
      /\ \A n \in 1 .. length : wire'[s][n] = wire[s][n + 1]
      /\ \A t \in Symbols \ {s} : wire'[t] = wire[t]
      /\ Head(wire[s]) = message
      /\ \A n \in 1 .. length + 1 : wire[s][n] \in Message
  <2>1. wire[s] \in Seq(Message) /\ wire'[s] = Tail(wire[s])
    BY <1>1
  <2>2. /\ Tail(wire[s]) \in Seq(Message)
        /\ Len(wire[s]) \in Nat
        /\ Len(Tail(wire[s])) = Len(wire[s]) - 1
        /\ Tail(wire[s]) = <<>> <=> Len(wire[s]) = 1
        /\ \A n \in 1 .. Len(wire[s]) - 1 : Tail(wire[s])[n] = wire[s][n + 1]
        /\ Head(wire[s]) = message
        /\ \A n \in 1 .. Len(wire[s]) : wire[s][n] \in Message
    BY <1>1, <2>1, TailFacts
  <2>3. wire' \in [Symbols -> Seq(Message)] /\ \A t \in Symbols \ {s} : wire'[t] = wire[t]
    BY <1>1, <2>2
  <2> QED
    BY <1>2, <2>1, <2>2, <2>3
<1>4. /\ message \in Message
      /\ message.seq \in Nat
      /\ message.add \in SUBSET Levels
      /\ message.remove \in SUBSET Levels
  <2> HIDE DEF IInv, Shape
  <2>1. message \in Message
    <3>1. 1 \in 1 .. length + 1
      BY <1>2
    <3> QED
      BY <1>3, <3>1
  <2> HIDE DEF message
  <2> QED
    BY <2>1 DEF Message
<1>5. IF message.seq =< sequence[s]
      THEN UNCHANGED <<sequence, view>>
      ELSE /\ sequence' = [sequence EXCEPT ![s] = message.seq]
           /\ view' = [view EXCEPT ![s] = Publish(@, message)]
  BY <1>3 DEF Receive
<1>6. Shape'
  <2>1. Publish(view[s], message) \in SUBSET Levels
    BY <1>4 DEF Publish
  <2>2. sequence' \in [Symbols -> Nat]
    BY <1>4, <1>5
  <2>3. view' \in [Symbols -> SUBSET Levels]
    BY <1>5, <2>1
  <2> QED
    BY <1>1, <1>3, <2>2, <2>3
<1>7. ConnectionInv' /\ SentInv'
  <2>1. sent[s] # 0
    BY <1>1 DEF ConnectionInv
  <2> QED
    BY <1>1, <1>3, <2>1 DEF ConnectionInv, SentInv
<1>8. CASE BooksChannel = "books5"
  <2>1. message.seq = 0 /\ sequence[s] = 0
    <3>1. 1 \in 1 .. Len(wire[s])
      BY <1>2, <1>3
    <3> QED
      BY <1>8, <3>1 DEF Books5Inv
  <2>2. UNCHANGED <<sequence, view>>
    BY <1>5, <2>1
  <2>3. Books5Inv'
    <3> SUFFICES ASSUME NEW t \in Symbols, NEW n \in 1 .. Len(wire'[t])
                 PROVE  wire'[t][n].action = "none" /\ wire'[t][n].seq = 0
      BY <1>8, <2>2 DEF Books5Inv
    <3>1. CASE t = s
      <4>1. n \in 1 .. length /\ n + 1 \in 1 .. Len(wire[s])
        BY <1>2, <1>3, <3>1
      <4>2. wire'[t][n] = wire[s][n + 1]
        BY <1>3, <3>1, <4>1
      <4> QED
        BY <1>8, <4>1, <4>2 DEF Books5Inv
    <3>2. CASE t # s
      BY <1>3, <1>8, <3>2 DEF Books5Inv
    <3> QED
      BY <3>1, <3>2
  <2> QED
    BY <1>1, <1>6, <1>7, <1>8, <2>2, <2>3 DEF PastInv, InSync, BooksChannel
<1>9. CASE BooksChannel # "books5"
  <2>1. Link(s, 1)
    BY <1>3, <1>9 DEF ChainInv
  <2>2. /\ 0 < message.seq
        /\ message.seq =< Len(past[s])
        /\ sequence[s] =< message.seq
        /\ sequence[s] \in Nat
    BY <2>1 DEF Link
  <2>3. /\ sequence'[s] = message.seq
        /\ \A t \in Symbols \ {s} : sequence'[t] = sequence[t] /\ view'[t] = view[t]
    BY <1>4, <1>5, <2>2
  <2>4. PastInv'
    BY <1>1, <2>2, <2>3 DEF PastInv
  <2>5. InSync'
    <3>1. CASE message.seq =< sequence[s]
      BY <1>1, <1>5, <3>1 DEF InSync
    <3>2. CASE ~(message.seq =< sequence[s])
      <4>1. view'[s] = past[s][message.seq]
        <5>1. view'[s] = Publish(view[s], message)
          BY <1>5, <3>2
        <5>2. CASE SnapshotOf(s, 1)
          BY <5>1, <5>2 DEF SnapshotOf, Publish
        <5>3. CASE UpdateOf(s, 1)
          <6>1. view[s] = past[s][sequence[s]]
            BY <5>3 DEF InSync, UpdateOf, Before
          <6>2. /\ message.action # "snapshot"
                /\ message.add = past[s][message.seq] \ past[s][sequence[s]]
                /\ message.remove = past[s][sequence[s]] \ past[s][message.seq]
            BY <5>3 DEF UpdateOf, Before
          <6> QED
            BY <5>1, <6>1, <6>2 DEF Publish
        <5> QED
          BY <2>1, <5>2, <5>3 DEF Link
      <4> QED
        <5>1. past' = past
          BY <1>1
        <5>2. ASSUME NEW t \in Symbols
              PROVE  view'[t] = IF sequence'[t] = 0 THEN {} ELSE past'[t][sequence'[t]]
          <6>1. CASE t = s
            BY <2>2, <2>3, <4>1, <5>1, <6>1
          <6>2. CASE t # s
            BY <2>3, <5>1, <6>2 DEF InSync
          <6> QED
            BY <6>1, <6>2
        <5> QED
          BY <5>2 DEF InSync
    <3> QED
      BY <3>1, <3>2
  <2>6. ASSUME NEW n \in 1 .. length
        PROVE  Link(s, n)'
    <3>1. /\ n \in Nat
          /\ n + 1 \in 1 .. length + 1
          /\ n + 1 # 1
          /\ n # 1 => n - 1 \in 1 .. length
          /\ (n + 1) - 1 = n
          /\ n # 1 => (n - 1) + 1 = n
      BY <1>2
    <3>2. Link(s, n + 1) /\ UpdateOf(s, n + 1)
      BY <1>3, <1>9, <3>1 DEF ChainInv, Link, SnapshotOf
    <3>3. wire'[s][n] = wire[s][n + 1]
      BY <1>3
    <3>4. Before(s, n + 1) = wire[s][n].seq
      BY <3>1 DEF Before
    <3>5. Before(s, n)' = wire[s][n].seq
      <4>1. CASE n = 1
        BY <2>3, <4>1 DEF Before
      <4>2. CASE n # 1
        <5>1. wire'[s][n - 1] = wire[s][n]
          BY <1>3, <3>1, <4>2
        <5> QED
          BY <4>2, <5>1 DEF Before
      <4> QED
        BY <4>1, <4>2
    <3>6. past' = past
      BY <1>1
    <3>7. UpdateOf(s, n)'
      BY <3>2, <3>3, <3>4, <3>5, <3>6 DEF UpdateOf
    <3>8. n = 1 => sequence'[s] =< wire'[s][n].seq
      <4>1. wire[s][n + 1].seq \in Nat
        BY <1>3, <3>1 DEF Message
      <4>2. wire[s][n].seq < wire[s][n + 1].seq
        BY <3>2, <3>4 DEF UpdateOf
      <4> QED
        BY <1>4, <2>3, <3>3, <4>1, <4>2
    <3> QED
      BY <3>2, <3>3, <3>6, <3>7, <3>8 DEF Link
  <2>7. ASSUME NEW t \in Symbols \ {s}, NEW n \in 1 .. Len(wire[t])
        PROVE  Link(t, n)'
    <3>1. wire'[t] = wire[t] /\ sequence'[t] = sequence[t] /\ past' = past
      BY <1>1, <1>3, <2>3
    <3>2. Link(t, n)
      BY <1>9 DEF ChainInv
    <3> QED
      BY <3>1, <3>2 DEF Link, SnapshotOf, UpdateOf, Before
  <2>8. sent[s] = IF wire'[s] = <<>> THEN sequence'[s] ELSE wire'[s][Len(wire'[s])].seq
    <3>1. sent[s] = wire[s][length + 1].seq
      BY <1>1, <1>3, <1>9 DEF ChainInv, ConnectionInv
    <3>2. CASE length = 0
      BY <1>3, <2>3, <3>1, <3>2
    <3>3. CASE length # 0
      <4>1. wire'[s][length] = wire[s][length + 1]
        BY <1>2, <1>3, <3>3
      <4> QED
        BY <1>3, <3>1, <3>3, <4>1
    <3> QED
      BY <3>2, <3>3
  <2>9. ChainInv'
    <3>1. ASSUME NEW t \in Symbols, NEW n \in 1 .. Len(wire'[t])
          PROVE  Link(t, n)'
      BY <1>3, <2>6, <2>7
    <3>2. ASSUME NEW t \in Symbols, sent'[t] # 0
          PROVE  sent'[t] = IF wire'[t] = <<>> THEN sequence'[t] ELSE wire'[t][Len(wire'[t])].seq
      <4>1. CASE t = s
        BY <1>1, <2>8, <4>1
      <4>2. CASE t # s
        BY <1>1, <1>3, <1>9, <2>3, <3>2, <4>2 DEF ChainInv
      <4> QED
        BY <4>1, <4>2
    <3> QED
      BY <3>1, <3>2 DEF ChainInv
  <2> QED
    BY <1>6, <1>7, <1>9, <2>4, <2>5, <2>9 DEF BooksChannel
<1> QED
  BY <1>8, <1>9

-----------------------------------------------------------------------------
(* Theorems. *)

\* IInv holds throughout: what the books and their messages look like.
THEOREM Invariance == Spec => []IInv
<1>1. IInv /\ [Next]_vars => IInv'
  <2> SUFFICES ASSUME IInv, [Next]_vars PROVE IInv'
    OBVIOUS
  <2>1. CASE UNCHANGED vars
    <3>1. \A s \in Symbols, n \in Nat : Link(s, n)' = Link(s, n)
      BY <2>1 DEF vars, Link, SnapshotOf, UpdateOf, Before
    <3>2. \A s \in Symbols : wire[s] \in Seq(Message)
      BY DEF IInv, Shape
    <3>3. ChainInv => ChainInv'
      BY <2>1, <3>1, <3>2, EmptyFacts DEF ChainInv, vars
    <3> QED
      BY <2>1, <3>3 DEF IInv, Shape, ConnectionInv, SentInv, PastInv, Books5Inv, InSync,
                        BooksChannel, vars
  <2>2. ASSUME NEW s \in Symbols, NEW levels \in SUBSET Levels, Change(s, levels)
        PROVE  IInv'
    BY <2>2, ChangeIInv
  <2>3. ASSUME NEW s \in Symbols, Send(s)
        PROVE  IInv'
    BY <2>3, SendIInv
  <2>4. ASSUME NEW s \in Symbols, Receive(s)
        PROVE  IInv'
    BY <2>4, ReceiveIInv
  <2>5. CASE Subscribed \/ Disconnected
    BY <2>5, ConnectionIInv
  <2> QED
    BY <2>1, <2>2, <2>3, <2>4, <2>5 DEF Next
<1> QED
  BY <1>1, InitIInv, PTL DEF Spec

\* The type invariant, for any instruments, levels and setting.
THEOREM TypeCorrect == Spec => []TypeOK
<1>1. IInv => TypeOK
  BY DEF IInv, Shape, PastInv, TypeOK
<1> QED
  BY <1>1, Invariance, PTL

\* Clients hold the book of the sequence number last published, over any number of
\* changes and lost connections.
THEOREM BooksInSync == Spec => []InSync
<1>1. IInv => InSync
  BY DEF IInv
<1> QED
  BY <1>1, Invariance, PTL

\* The warning about a gap (market_data.cpp:490) is never logged.
THEOREM NeverAGap == Spec => []NoGap
<1>1. IInv => NoGap
  <2> SUFFICES ASSUME IInv, NEW s \in Symbols, wire[s] # <<>>,
                      Head(wire[s]).action = "update"
               PROVE  Head(wire[s]).prev = sequence[s]
    BY DEF NoGap
  <2>1. wire[s] \in Seq(Message)
    BY DEF IInv, Shape
  <2>2. 1 \in 1 .. Len(wire[s]) /\ Head(wire[s]) = wire[s][1]
    BY <2>1, TailFacts
  <2>3. CASE BooksChannel = "books5"
    BY <2>2, <2>3 DEF IInv, Books5Inv
  <2>4. CASE BooksChannel # "books5"
    BY <2>2, <2>4 DEF IInv, ChainInv, Link, SnapshotOf, UpdateOf, Before
  <2> QED
    BY <2>3, <2>4
<1> QED
  BY <1>1, Invariance, PTL

\* Nothing is left to send of a book, and nothing of it is on its way.
AtRest(s) ==
    /\ connected
    /\ sent[s] = Len(past[s]) /\ wire[s] = <<>>

LEMMA CurrentHolds == IInv => (BooksDepth # 5 => \A s \in Symbols : AtRest(s) => view[s] = Now(s))
<1> SUFFICES ASSUME IInv, BooksDepth # 5, NEW s \in Symbols, AtRest(s)
             PROVE  view[s] = Now(s)
  OBVIOUS
<1>1. ChainInv
  BY DEF IInv, BooksChannel
<1>2. Len(past[s]) \in Nat /\ Len(past[s]) # 0
  <2>1. past[s] \in Seq(SUBSET Levels) /\ past[s] # <<>>
    BY DEF IInv, Shape, PastInv
  <2> QED
    BY <2>1, EmptyFacts
<1>3. sequence[s] = Len(past[s])
  BY <1>1, <1>2 DEF ChainInv, AtRest
<1> QED
  BY <1>2, <1>3 DEF IInv, InSync, Now

\* A book that is at rest is the present one, whatever was lost, dropped or changed
\* before: the safe half of EventuallyCurrent.  With books5 it is not.
THEOREM CurrentAtRest ==
    Spec => [](BooksDepth # 5 => \A s \in Symbols : AtRest(s) => view[s] = Now(s))
  BY CurrentHolds, Invariance, PTL

=============================================================================

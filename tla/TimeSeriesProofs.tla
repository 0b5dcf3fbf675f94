------------------------- MODULE TimeSeriesProofs -------------------------
(***************************************************************************)
(* No candle channel is subscribed twice, the history of every symbol is   *)
(* asked for on every connection of Business, and channel and history      *)
(* leave no hole that a history reaches back to, for any symbols, any      *)
(* limit of the history, any number of minutes and of lost connections.    *)
(*                                                                         *)
(* The argument: a connection of Business asks for what is known when it   *)
(* becomes READY and then for each addition, and the additions are new; a  *)
(* request leaves the queue only for a request to the exchange, which only *)
(* ends as tried; and a bar that was closed is confirmed or on its way.    *)
(***************************************************************************)
EXTENDS TimeSeries, TLAPS, SequenceTheorems, FunctionTheorems, FiniteSetTheorems

-----------------------------------------------------------------------------
(* Sequences. *)

LEMMA Elements ==
    ASSUME NEW S, NEW s \in Seq(S)
    PROVE  ToSet(s) \subseteq S
<1>1. \A n \in DOMAIN s : s[n] \in S
  BY LenProperties, ElementOfSeq
<1> QED
  BY <1>1 DEF ToSet

LEMMA HeadAndTail ==
    ASSUME NEW S, NEW s \in Seq(S), s # <<>>
    PROVE  /\ Head(s) \in S /\ Tail(s) \in Seq(S)
           /\ 1 \in DOMAIN s /\ Head(s) = s[1]
           /\ \A n \in DOMAIN Tail(s) : n \in Nat \ {0} /\ n + 1 \in DOMAIN s /\ Tail(s)[n] = s[n + 1]
           /\ ToSet(s) = {Head(s)} \union ToSet(Tail(s))
<1>1. /\ Head(s) \in S /\ Tail(s) \in Seq(S) /\ Len(Tail(s)) = Len(s) - 1
      /\ \A n \in 1 .. Len(Tail(s)) : Tail(s)[n] = s[n + 1]
  BY HeadTailProperties
<1>2. /\ Len(s) \in Nat /\ DOMAIN s = 1 .. Len(s)
      /\ Len(Tail(s)) \in Nat /\ DOMAIN Tail(s) = 1 .. Len(Tail(s))
  BY <1>1, LenProperties
<1>3. Head(s) = s[1]
  OBVIOUS
<1>4. 1 \in DOMAIN s
  BY <1>1, <1>2
<1>5. \A n \in DOMAIN Tail(s) : n \in Nat \ {0} /\ n + 1 \in DOMAIN s /\ Tail(s)[n] = s[n + 1]
  BY <1>1, <1>2
<1>6. \A n \in DOMAIN s : n = 1 \/ (n - 1 \in DOMAIN Tail(s) /\ s[n] = Tail(s)[n - 1])
  BY <1>1, <1>2
<1>7. ToSet(s) \subseteq {Head(s)} \union ToSet(Tail(s))
  BY <1>3, <1>6 DEF ToSet
<1>8. {Head(s)} \union ToSet(Tail(s)) \subseteq ToSet(s)
  BY <1>3, <1>4, <1>5 DEF ToSet
<1> QED
  BY <1>1, <1>3, <1>4, <1>5, <1>7, <1>8

LEMMA ConcatElements ==
    ASSUME NEW S, NEW s \in Seq(S), NEW t \in Seq(S)
    PROVE  s \o t \in Seq(S) /\ ToSet(s \o t) = ToSet(s) \union ToSet(t)
<1>1. /\ Len(s) \in Nat /\ DOMAIN s = 1 .. Len(s)
      /\ Len(t) \in Nat /\ DOMAIN t = 1 .. Len(t)
      /\ s \o t \in Seq(S) /\ DOMAIN (s \o t) = 1 .. (Len(s) + Len(t))
      /\ \A n \in 1 .. Len(s) + Len(t) : (s \o t)[n] = IF n <= Len(s) THEN s[n] ELSE t[n - Len(s)]
  BY LenProperties, ConcatProperties
<1>2. \A n \in DOMAIN s : n \in DOMAIN (s \o t) /\ (s \o t)[n] = s[n]
  BY <1>1
<1>3. \A n \in DOMAIN t : n + Len(s) \in DOMAIN (s \o t) /\ (s \o t)[n + Len(s)] = t[n]
  BY <1>1
<1>4. \A n \in DOMAIN (s \o t) :
        \/ n \in DOMAIN s /\ (s \o t)[n] = s[n]
        \/ n - Len(s) \in DOMAIN t /\ (s \o t)[n] = t[n - Len(s)]
  BY <1>1
<1>5. ToSet(s \o t) \subseteq ToSet(s) \union ToSet(t)
  BY <1>4 DEF ToSet
<1>6. ToSet(s) \subseteq ToSet(s \o t)
  BY <1>2 DEF ToSet
<1>7. ToSet(t) \subseteq ToSet(s \o t)
  BY <1>3 DEF ToSet
<1> QED
  BY <1>1, <1>5, <1>6, <1>7

LEMMA AppendPlaces ==
    ASSUME NEW S, NEW s \in Seq(S), NEW e \in S
    PROVE  /\ Append(s, e) \in Seq(S)
           /\ \A n \in DOMAIN Append(s, e) :
                \/ n \in DOMAIN s /\ Append(s, e)[n] = s[n]
                \/ n = Len(s) + 1 /\ Append(s, e)[n] = e
           /\ ToSet(Append(s, e)) = ToSet(s) \union {e}
<1>1. /\ Append(s, e) \in Seq(S) /\ Len(Append(s, e)) = Len(s) + 1
      /\ \A n \in 1 .. Len(s) : Append(s, e)[n] = s[n]
      /\ Append(s, e)[Len(s) + 1] = e
  BY AppendProperties
<1>2. /\ Len(s) \in Nat /\ DOMAIN s = 1 .. Len(s)
      /\ DOMAIN Append(s, e) = 1 .. Len(Append(s, e))
  BY <1>1, LenProperties
<1>3. \A n \in DOMAIN Append(s, e) :
        \/ n \in DOMAIN s /\ Append(s, e)[n] = s[n]
        \/ n = Len(s) + 1 /\ Append(s, e)[n] = e
  BY <1>1, <1>2
<1>4. \A n \in DOMAIN s : n \in DOMAIN Append(s, e) /\ Append(s, e)[n] = s[n]
  BY <1>1, <1>2
<1>5. Len(s) + 1 \in DOMAIN Append(s, e)
  BY <1>1, <1>2
<1>6. ToSet(Append(s, e)) \subseteq ToSet(s) \union {e}
  BY <1>3 DEF ToSet
<1>7. ToSet(s) \union {e} \subseteq ToSet(Append(s, e))
  BY <1>1, <1>4, <1>5 DEF ToSet
<1> QED
  BY <1>1, <1>3, <1>6, <1>7

\* A sequence with each element of a finite set once has all of them.
LEMMA EachOnce ==
    ASSUME NEW S, IsFiniteSet(S), NEW s \in SetToSeqs(S)
    PROVE  s \in Seq(S) /\ ToSet(s) = S
<1> DEFINE D == 1 .. Cardinality(S)
<1>1. Cardinality(S) \in Nat
  BY FS_CardinalityType
<1>2. s \in [D -> S] /\ \A i, j \in D : i # j => s[i] # s[j]
  BY DEF SetToSeqs
<1>3. IsFiniteSet(D) /\ Cardinality(D) = Cardinality(S)
  BY <1>1, FS_Interval
<1>4. s \in Seq(S)
  BY <1>1, <1>2, SeqDef
<1> HIDE DEF D
<1>5. s \in Injection(D, S)
  BY <1>2 DEF Injection, IsInjective
<1>6. s \in Surjection(D, S)
  BY <1>3, <1>5, FS_Injection
<1>7. \A x \in S : \E n \in D : s[n] = x
  BY <1>6 DEF Surjection
<1> QED
  BY <1>2, <1>4, <1>7 DEF ToSet

\* What get_all returns to a connection that becomes ready, and of an addition.
LEMMA AllKnown ==
    ASSUME NEW S, NEW all \in Seq(S)
    PROVE  GetAll(all, 0) = all
  BY SubSeqFull DEF GetAll

LEMMA OnlyNew ==
    ASSUME NEW S, NEW all \in Seq(S), NEW some \in Seq(S)
    PROVE  GetAll(all \o some, Len(all)) = some
<1> DEFINE m == Len(all)
           n == Len(some)
           both == all \o some
           new == SubSeq(both, m + 1, Len(both))
<1>1. /\ m \in Nat /\ n \in Nat /\ Len(both) = m + n
      /\ both \in Seq(S)
      /\ \A i \in 1 .. m + n : both[i] = IF i <= m THEN all[i] ELSE some[i - m]
  BY LenProperties, ConcatProperties
<1> HIDE DEF m, n, both
<1>2. \A i \in m + 1 .. m + n : both[i] \in S
  BY <1>1, LenProperties, ElementOfSeq
<1>3. /\ new \in Seq(S)
      /\ Len(new) = IF m + 1 <= m + n THEN (m + n) - (m + 1) + 1 ELSE 0
      /\ \A i \in 1 .. (m + n) - (m + 1) + 1 : new[i] = both[m + 1 + i - 1]
  BY <1>1, <1>2, SubSeqProperties
<1> HIDE DEF new
<1>4. Len(new) = n /\ \A i \in 1 .. n : new[i] = both[m + i]
  BY <1>1, <1>3
<1>5. \A i \in 1 .. n : new[i] = some[i]
  BY <1>1, <1>4
<1>6. new = some
  BY <1>3, <1>4, <1>5, SeqEqual DEF n
<1> QED
  BY <1>6 DEF GetAll, m, new, both

-----------------------------------------------------------------------------
(* Bags of requests. *)

LEMMA Added ==
    ASSUME NEW bag, IsABag(bag), NEW x
    PROVE  /\ IsABag(bag (+) SetToBag({x}))
           /\ BagToSet(bag (+) SetToBag({x})) = BagToSet(bag) \union {x}
  BY DEF IsABag, (+), SetToBag, BagToSet

LEMMA Removed ==
    ASSUME NEW bag, IsABag(bag), NEW x
    PROVE  /\ IsABag(bag (-) SetToBag({x}))
           /\ BagToSet(bag (-) SetToBag({x})) \subseteq BagToSet(bag)
           /\ BagToSet(bag) \ {x} \subseteq BagToSet(bag (-) SetToBag({x}))
  BY DEF IsABag, (-), SetToBag, BagToSet

LEMMA NoRequests == IsABag(EmptyBag) /\ BagToSet(EmptyBag) = {}
  BY DEF IsABag, EmptyBag, SetToBag, BagToSet

Requests == [symbol : Symbols, fresh : BOOLEAN, minute : Minutes]

\* The requests that were forgotten are as sent on an earlier connection, no others are.
LEMMA ForgottenBag ==
    ASSUME NEW bag, IsABag(bag), BagToSet(bag) \subseteq Requests
    PROVE  /\ IsABag(Forgotten(bag))
           /\ BagToSet(Forgotten(bag)) \subseteq Requests
           /\ \A r \in BagToSet(Forgotten(bag)) : \E q \in BagToSet(bag) : r.minute = q.minute
<1> DEFINE sent == {request \in BagToSet(bag) : request.fresh}
           stale == {[r EXCEPT !.fresh = FALSE] : r \in sent}
<1>1. IsABag(Forgotten(bag))
  BY DEF IsABag, Forgotten, (+), BagToSet, Requests
<1>2. BagToSet(Forgotten(bag)) = (BagToSet(bag) \ sent) \union stale
  BY DEF Forgotten, (+), BagToSet
<1>3. ASSUME NEW r \in stale
      PROVE  r \in Requests /\ \E q \in BagToSet(bag) : r.minute = q.minute
  <2>1. PICK q \in sent : r = [q EXCEPT !.fresh = FALSE]
    OBVIOUS
  <2>2. q \in BagToSet(bag) /\ q \in Requests
    BY <2>1
  <2>3. r.minute = q.minute /\ r \in Requests
    BY <2>1, <2>2 DEF Requests
  <2> QED
    BY <2>2, <2>3
<1> QED
  BY <1>1, <1>2, <1>3

-----------------------------------------------------------------------------
(* The inductive invariant. *)

Bar == [symbol : Symbols, bar : Minutes]

Messages == Seq((SUBSET Symbols) \ {{}})

\* Nothing is of a minute that is still to come.
UpToNow ==
    /\ minute # 0
    /\ \A n \in DOMAIN down : down[n].bar \in 1 .. minute - 1
    /\ \A request \in BagToSet(http) : request.minute <= minute

Types == TypeOK /\ UpToNow

\* What this connection of Business subscribes is known.
OnlyKnown ==
    /\ asked \subseteq ToSet(symbols)
    /\ \A n \in DOMAIN queue : queue[n] \subseteq ToSet(symbols)
    /\ status = "DISCONNECTED" => queue = <<>> /\ asked = {}

\* The confirmed bars of a history.
Past(m) == History(m) \ {m}

\* A bar of a channel was published or is on its way; a history was published.
OnItsWay ==
    /\ \A s \in channel : \A bar \in since[s] .. minute - 1 :
        bar \in confirmed[s] \/ [symbol |-> s, bar |-> bar] \in ToSet(down)
    /\ realtime => \A s \in Symbols : Past(upto[s]) \subseteq confirmed[s]

\* The symbols of the messages of a queue.
SymbolsOf(q) == UNION ToSet(q)

\* A READY connection asked for all that is known, or is about to, and what it asked for
\* is in the channel or on its way there.
AllAskedFor ==
    /\ status = "READY" => ToSet(symbols) \subseteq asked \union SymbolsOf(queue)
    /\ asked \subseteq channel \union SymbolsOf(up)

IInv == Types /\ OnlyKnown /\ NoDuplicates /\ FreshHistory /\ OnItsWay /\ AllAskedFor

LEMMA NoMessage == SymbolsOf(<<>>) = {}
  BY DEF SymbolsOf, ToSet

LEMMA UnionOfMore ==
    ASSUME NEW S, NEW e
    PROVE  UNION (S \union {e}) = (UNION S) \union e
  OBVIOUS

LEMMA SymbolsAppended ==
    ASSUME NEW S, NEW q \in Seq(S), NEW message \in S
    PROVE  SymbolsOf(Append(q, message)) = SymbolsOf(q) \union message
<1>1. ToSet(Append(q, message)) = ToSet(q) \union {message}
  BY AppendPlaces
<1> QED
  BY <1>1, UnionOfMore DEF SymbolsOf

LEMMA SymbolsOfTail ==
    ASSUME NEW S, NEW q \in Seq(S), q # <<>>
    PROVE  SymbolsOf(q) = SymbolsOf(Tail(q)) \union Head(q)
<1>1. ToSet(q) = ToSet(Tail(q)) \union {Head(q)}
  BY HeadAndTail
<1> QED
  BY <1>1, UnionOfMore DEF SymbolsOf

LEMMA InitIInv == Init => IInv
<1> SUFFICES ASSUME Init PROVE IInv
  OBVIOUS
<1>1. 1 .. 0 = {} /\ 1 \in Minutes /\ 0 \in Minutes
  BY MinutesAssumption DEF Minutes
<1>2. <<>> \in Seq(Symbols) /\ <<>> \in Messages /\ <<>> \in Seq(Bar)
  BY EmptySeq DEF Messages
<1>3. DOMAIN <<>> = {} /\ ToSet(<<>>) = {}
  BY DEF ToSet
<1>4. TypeOK
  <2>1. {realtime, rest} \subseteq BOOLEAN /\ {queue, up} \subseteq Messages
    BY <1>2 DEF Init
  <2>2. IsABag(http) /\ BagToSet(http) = {}
    BY NoRequests DEF Init
  <2>3. since \in [Symbols -> Minutes] /\ upto \in [Symbols -> Minutes]
    BY <1>1 DEF Init
  <2>4. confirmed \in [Symbols -> SUBSET (1 .. minute - 1)]
    BY DEF Init
  <2>5. disconnects \in [business : Nat, rest : Nat]
    BY DEF Init
  <2>6. {asked, channel, tried} \subseteq SUBSET Symbols
    BY DEF Init
  <2>7. symbols \in Seq(Symbols) /\ requests \in Seq(Symbols) /\ down \in Seq(Bar)
    BY <1>2 DEF Init
  <2>8. minute \in Minutes /\ status \in {"DISCONNECTED", "READY"}
    BY <1>1 DEF Init
  <2> QED
    BY <2>1, <2>2, <2>3, <2>4, <2>5, <2>6, <2>7, <2>8 DEF TypeOK, Messages, Bar
<1>8. Types
  BY <1>3, <1>4, NoRequests DEF Init, Types, UpToNow
<1>5. OnlyKnown /\ NoDuplicates
  BY <1>3 DEF Init, OnlyKnown, NoDuplicates
<1>6. FreshHistory
  BY DEF Init, FreshHistory
<1>7. OnItsWay
  <2>1. \A s \in Symbols : upto[s] = 0 /\ Past(0) = {}
    BY DEF Init, Past, History
  <2> QED
    BY <2>1 DEF Init, OnItsWay
<1>9. AllAskedFor
  BY <1>3 DEF Init, AllAskedFor
<1> QED
  BY <1>5, <1>6, <1>7, <1>8, <1>9 DEF IInv

\* What the types say of the sequences.
LEMMA Typed ==
    ASSUME Types
    PROVE  /\ symbols \in Seq(Symbols) /\ requests \in Seq(Symbols)
           /\ queue \in Messages /\ up \in Messages /\ down \in Seq(Bar)
           /\ asked \subseteq Symbols /\ channel \subseteq Symbols /\ tried \subseteq Symbols
           /\ realtime \in BOOLEAN /\ rest \in BOOLEAN
           /\ IsABag(http) /\ BagToSet(http) \subseteq Requests
           /\ minute \in 1 .. MaxMinutes
<1>1. minute \in Minutes /\ minute # 0
  BY DEF Types, TypeOK, UpToNow
<1>2. minute \in 1 .. MaxMinutes
  BY <1>1, MinutesAssumption DEF Minutes
<1> QED
  BY <1>2 DEF Types, TypeOK, Messages, Bar, Requests

\* The symbols of a message that is queued, or in the rest of the queue.
LEMMA QueueTail ==
    ASSUME IInv, queue # <<>>
    PROVE  /\ Head(queue) \in (SUBSET Symbols) \ {{}} /\ Tail(queue) \in Messages
           /\ Head(queue) \subseteq ToSet(symbols) /\ Head(queue) \intersect asked = {}
           /\ \A n \in DOMAIN Tail(queue) :
                /\ Tail(queue)[n] \subseteq ToSet(symbols)
                /\ Tail(queue)[n] \intersect Head(queue) = {}
                /\ Tail(queue)[n] \intersect asked = {}
                /\ \A m \in DOMAIN Tail(queue) :
                    m # n => Tail(queue)[n] \intersect Tail(queue)[m] = {}
<1>1. queue \in Seq((SUBSET Symbols) \ {{}})
  BY Typed DEF IInv, Messages
<1>2. /\ Head(queue) \in (SUBSET Symbols) \ {{}} /\ Tail(queue) \in Messages
      /\ 1 \in DOMAIN queue /\ Head(queue) = queue[1]
      /\ \A n \in DOMAIN Tail(queue) :
            n \in Nat \ {0} /\ n + 1 \in DOMAIN queue /\ Tail(queue)[n] = queue[n + 1]
  BY <1>1, HeadAndTail DEF Messages
<1>3. \A n \in DOMAIN queue :
        /\ queue[n] \subseteq ToSet(symbols) /\ queue[n] \intersect asked = {}
        /\ \A m \in DOMAIN queue : m # n => queue[n] \intersect queue[m] = {}
  BY DEF IInv, OnlyKnown, NoDuplicates
<1>4. ASSUME NEW n \in DOMAIN Tail(queue)
      PROVE  /\ Tail(queue)[n] \subseteq ToSet(symbols)
             /\ Tail(queue)[n] \intersect Head(queue) = {}
             /\ Tail(queue)[n] \intersect asked = {}
  <2>1. n \in Nat \ {0} /\ n + 1 \in DOMAIN queue /\ Tail(queue)[n] = queue[n + 1] /\ n + 1 # 1
    BY <1>2
  <2> QED
    BY <1>2, <1>3, <2>1
<1>5. ASSUME NEW n \in DOMAIN Tail(queue), NEW m \in DOMAIN Tail(queue), m # n
      PROVE  Tail(queue)[n] \intersect Tail(queue)[m] = {}
  <2>1. /\ n + 1 \in DOMAIN queue /\ Tail(queue)[n] = queue[n + 1]
        /\ m + 1 \in DOMAIN queue /\ Tail(queue)[m] = queue[m + 1]
        /\ n + 1 # m + 1
    BY <1>2, <1>5
  <2> QED
    BY <1>3, <2>1
<1> QED
  BY <1>2, <1>3, <1>4, <1>5

-----------------------------------------------------------------------------
(* What Business subscribes is new to this connection. *)

\* A message for symbols that are not known yet, or for all of a new connection.
LEMMA SubscribeNew ==
    ASSUME IInv, NEW some \in Seq(Symbols), Subscribe(some),
           \A n \in DOMAIN queue : queue[n] \intersect ToSet(some) = {},
           asked \intersect ToSet(some) = {}
    PROVE  /\ queue' \in Messages
           /\ \A n \in DOMAIN queue' :
                /\ queue'[n] \subseteq ToSet(symbols) \union ToSet(some)
                /\ queue'[n] \intersect asked = {}
                /\ \A m \in DOMAIN queue' : m # n => queue'[n] \intersect queue'[m] = {}
           /\ requests' \in Seq(Symbols)
           /\ ToSet(requests') = ToSet(requests) \union ToSet(some)
           /\ SymbolsOf(queue) \union ToSet(some) \subseteq SymbolsOf(queue')
<1>1. queue \in Messages /\ requests \in Seq(Symbols)
  BY Typed DEF IInv
<1>2. \A n \in DOMAIN queue :
        /\ queue[n] \subseteq ToSet(symbols) /\ queue[n] \intersect asked = {}
        /\ \A m \in DOMAIN queue : m # n => queue[n] \intersect queue[m] = {}
  BY DEF IInv, OnlyKnown, NoDuplicates
<1>3. requests' \in Seq(Symbols) /\ ToSet(requests') = ToSet(requests) \union ToSet(some)
  BY <1>1, ConcatElements DEF Subscribe
<1>4. CASE some = <<>>
  <2>1. queue' = queue
    BY <1>4 DEF Subscribe
  <2>2. ToSet(some) = {}
    BY <1>4 DEF ToSet
  <2> QED
    BY <1>1, <1>2, <1>3, <2>1, <2>2
<1>5. CASE some # <<>>
  <2> DEFINE new == ToSet(some)
  <2>1. new \subseteq Symbols /\ new # {}
    <3>1. ToSet(some) = {Head(some)} \union ToSet(Tail(some))
      BY <1>5, HeadAndTail
    <3> QED
      BY <3>1, Elements
  <2>2. queue' = Append(queue, new)
    BY <1>5 DEF Subscribe
  <2> HIDE DEF new
  <2>3. queue \in Seq((SUBSET Symbols) \ {{}}) /\ new \in (SUBSET Symbols) \ {{}}
    BY <1>1, <2>1 DEF Messages
  <2>4. /\ queue' \in Messages
        /\ \A n \in DOMAIN queue' :
            \/ n \in DOMAIN queue /\ queue'[n] = queue[n]
            \/ n = Len(queue) + 1 /\ queue'[n] = new
    BY <2>2, <2>3, AppendPlaces DEF Messages
  <2>5. (\A n \in DOMAIN queue : queue[n] \intersect new = {}) /\ asked \intersect new = {}
    BY DEF new
  <2>6. \A n \in DOMAIN queue' :
            /\ queue'[n] \subseteq ToSet(symbols) \union new
            /\ queue'[n] \intersect asked = {}
            /\ \A m \in DOMAIN queue' : m # n => queue'[n] \intersect queue'[m] = {}
    BY <1>2, <2>4, <2>5
  <2>7. SymbolsOf(queue) \union new \subseteq SymbolsOf(queue')
    <3>1. SymbolsOf(queue') = SymbolsOf(queue) \union new
      BY <2>2, <2>3, SymbolsAppended
    <3> QED
      BY <3>1
  <2> QED
    BY <1>3, <2>4, <2>6, <2>7 DEF new
<1> QED
  BY <1>4, <1>5

LEMMA ReadyIInv == IInv /\ Ready => IInv'
<1> SUFFICES ASSUME IInv, Ready PROVE IInv'
  OBVIOUS
<1>1. /\ status = "DISCONNECTED" /\ status' = "READY" /\ Subscribe(symbols)
      /\ symbols \in Seq(Symbols)
  BY Typed, AllKnown DEF IInv, Ready
<1>2. UNCHANGED <<realtime, symbols, asked, rest, http, up, down, channel, minute, since,
                  upto, tried, confirmed, disconnects>>
  BY DEF Ready, exchangeVars
<1>3. queue = <<>> /\ asked = {} /\ DOMAIN queue = {}
  <2>1. queue = <<>> /\ asked = {}
    BY <1>1 DEF IInv, OnlyKnown
  <2> QED
    BY <2>1
<1>4. /\ queue' \in Messages
      /\ \A n \in DOMAIN queue' :
            /\ queue'[n] \subseteq ToSet(symbols)
            /\ queue'[n] \intersect asked = {}
            /\ \A m \in DOMAIN queue' : m # n => queue'[n] \intersect queue'[m] = {}
      /\ requests' \in Seq(Symbols)
      /\ ToSet(requests') = ToSet(requests) \union ToSet(symbols)
      /\ SymbolsOf(queue) \union ToSet(symbols) \subseteq SymbolsOf(queue')
  BY <1>1, <1>3, SubscribeNew
<1>5. Types'
  BY <1>1, <1>2, <1>4 DEF IInv, Types, TypeOK, UpToNow, Messages
<1>6. OnlyKnown' /\ NoDuplicates'
  BY <1>1, <1>2, <1>3, <1>4 DEF OnlyKnown, NoDuplicates
<1>7. FreshHistory'
  BY <1>2, <1>4 DEF FreshHistory
<1>8. OnItsWay'
  BY <1>2 DEF IInv, OnItsWay
<1>9. AllAskedFor'
  BY <1>2, <1>3, <1>4 DEF AllAskedFor
<1> QED
  BY <1>5, <1>6, <1>7, <1>8, <1>9 DEF IInv

LEMMA SymbolsUpdateIInv ==
    ASSUME IInv, NEW new \in SUBSET Symbols, NEW some \in SetToSeqs(new), SymbolsUpdate(some)
    PROVE  IInv'
<1>1. IsFiniteSet(new)
  BY SymbolsAssumption, FS_Subset
<1>2. some \in Seq(Symbols) /\ symbols \in Seq(Symbols)
  <2>1. some \in Seq(new)
    BY <1>1, EachOnce
  <2> QED
    BY <2>1, SeqMonotonic, Typed DEF IInv
<1>3. /\ symbols' = symbols \o some /\ symbols' \in Seq(Symbols)
      /\ ToSet(symbols') = ToSet(symbols) \union ToSet(some)
  BY <1>2, ConcatElements DEF SymbolsUpdate
<1>4. ToSet(some) \intersect ToSet(symbols) = {}
  <2>1. \A n \in DOMAIN some : some[n] \notin ToSet(symbols)
    BY DEF SymbolsUpdate
  <2> QED
    BY <2>1 DEF ToSet
<1>5. UNCHANGED <<realtime, status, asked, rest, http, up, down, channel, minute, since,
                  upto, tried, confirmed, disconnects>>
  BY DEF SymbolsUpdate, exchangeVars
<1>6. /\ asked \subseteq ToSet(symbols)
      /\ \A n \in DOMAIN queue : queue[n] \subseteq ToSet(symbols)
      /\ status = "DISCONNECTED" => queue = <<>> /\ asked = {}
  BY DEF IInv, OnlyKnown
<1>7. OnItsWay'
  BY <1>5 DEF IInv, OnItsWay
<1>8. CASE status = "READY"
  <2>1. Subscribe(some)
    BY <1>2, <1>3, <1>8, OnlyNew DEF SymbolsUpdate
  <2>2. /\ queue' \in Messages
        /\ \A n \in DOMAIN queue' :
            /\ queue'[n] \subseteq ToSet(symbols) \union ToSet(some)
            /\ queue'[n] \intersect asked = {}
            /\ \A m \in DOMAIN queue' : m # n => queue'[n] \intersect queue'[m] = {}
        /\ requests' \in Seq(Symbols)
        /\ ToSet(requests') = ToSet(requests) \union ToSet(some)
        /\ SymbolsOf(queue) \union ToSet(some) \subseteq SymbolsOf(queue')
    <3>1. \A n \in DOMAIN queue : queue[n] \intersect ToSet(some) = {}
      BY <1>4, <1>6
    <3>2. asked \intersect ToSet(some) = {}
      BY <1>4, <1>6
    <3> QED
      BY <1>2, <2>1, <3>1, <3>2, SubscribeNew
  <2>3. Types'
    BY <1>3, <1>5, <2>2 DEF IInv, Types, TypeOK, UpToNow, Messages
  <2>4. OnlyKnown' /\ NoDuplicates'
    BY <1>3, <1>5, <1>6, <1>8, <2>2 DEF OnlyKnown, NoDuplicates
  <2>5. FreshHistory'
    BY <1>3, <1>5, <1>8, <2>2 DEF IInv, FreshHistory
  <2>6. AllAskedFor'
    <3>1. ToSet(symbols) \subseteq asked \union SymbolsOf(queue)
      BY <1>8 DEF IInv, AllAskedFor
    <3>2. ToSet(symbols') \subseteq asked' \union SymbolsOf(queue')
      BY <1>3, <1>5, <2>2, <3>1
    <3>3. asked' \subseteq channel' \union SymbolsOf(up')
      BY <1>5 DEF IInv, AllAskedFor
    <3> QED
      BY <3>2, <3>3 DEF AllAskedFor
  <2> QED
    BY <1>7, <2>3, <2>4, <2>5, <2>6 DEF IInv
<1>9. CASE status # "READY"
  <2>1. UNCHANGED <<queue, requests>>
    BY <1>9 DEF SymbolsUpdate
  <2>2. Types'
    BY <1>3, <1>5, <2>1 DEF IInv, Types, TypeOK, UpToNow
  <2>3. OnlyKnown' /\ NoDuplicates'
    BY <1>3, <1>5, <1>6, <2>1 DEF IInv, OnlyKnown, NoDuplicates
  <2>4. FreshHistory' /\ AllAskedFor'
    BY <1>5, <1>9 DEF IInv, FreshHistory, AllAskedFor
  <2> QED
    BY <1>7, <2>2, <2>3, <2>4 DEF IInv
<1> QED
  BY <1>8, <1>9

LEMMA BusinessTimerIInv == IInv /\ BusinessTimer => IInv'
<1> SUFFICES ASSUME IInv, BusinessTimer PROVE IInv'
  OBVIOUS
<1>1. /\ status = "READY" /\ queue # <<>> /\ queue' = Tail(queue)
      /\ asked' = asked \union Head(queue) /\ up' = Append(up, Head(queue))
      /\ UNCHANGED <<realtime, symbols, status, requests, rest, http, down, channel, minute,
                     since, upto, tried, confirmed, disconnects>>
  BY DEF BusinessTimer
<1>2. /\ Head(queue) \in (SUBSET Symbols) \ {{}} /\ Tail(queue) \in Messages
      /\ Head(queue) \subseteq ToSet(symbols) /\ Head(queue) \intersect asked = {}
      /\ \A n \in DOMAIN Tail(queue) :
            /\ Tail(queue)[n] \subseteq ToSet(symbols)
            /\ Tail(queue)[n] \intersect Head(queue) = {}
            /\ Tail(queue)[n] \intersect asked = {}
            /\ \A m \in DOMAIN Tail(queue) :
                m # n => Tail(queue)[n] \intersect Tail(queue)[m] = {}
  BY <1>1, QueueTail
<1>3. up' \in Messages
  BY <1>1, <1>2, Typed, AppendPlaces DEF IInv, Messages
<1>4. Types'
  BY <1>1, <1>2, <1>3 DEF IInv, Types, TypeOK, UpToNow, Messages
<1>5. OnlyKnown'
  BY <1>1, <1>2 DEF IInv, OnlyKnown
<1>6. NoDuplicates'
  BY <1>1, <1>2 DEF NoDuplicates
<1>7. FreshHistory'
  BY <1>1 DEF IInv, FreshHistory
<1>8. OnItsWay'
  BY <1>1 DEF IInv, OnItsWay
<1>9. AllAskedFor'
  <2>1. /\ SymbolsOf(up') = SymbolsOf(up) \union Head(queue)
        /\ SymbolsOf(queue) = SymbolsOf(queue') \union Head(queue)
    <3>1. /\ queue \in Seq((SUBSET Symbols) \ {{}}) /\ up \in Seq((SUBSET Symbols) \ {{}})
          /\ Head(queue) \in (SUBSET Symbols) \ {{}}
      BY <1>2, Typed DEF IInv, Messages
    <3>2. SymbolsOf(up') = SymbolsOf(up) \union Head(queue)
      BY <1>1, <3>1, SymbolsAppended
    <3>3. SymbolsOf(queue) = SymbolsOf(queue') \union Head(queue)
      BY <1>1, <3>1, SymbolsOfTail
    <3> QED
      BY <3>2, <3>3
  <2> QED
    BY <1>1, <2>1 DEF IInv, AllAskedFor
<1> QED
  BY <1>4, <1>5, <1>6, <1>7, <1>8, <1>9 DEF IInv

LEMMA BusinessDisconnectedIInv == IInv /\ BusinessDisconnected => IInv'
<1> SUFFICES ASSUME IInv, BusinessDisconnected PROVE IInv'
  OBVIOUS
<1>1. /\ status' = "DISCONNECTED" /\ queue' = <<>> /\ asked' = {} /\ up' = <<>> /\ down' = <<>>
      /\ channel' = {} /\ since' = [s \in Symbols |-> 0] /\ tried' = {} /\ http' = Forgotten(http)
      /\ disconnects' = [disconnects EXCEPT !.business = @ + 1]
      /\ UNCHANGED <<realtime, symbols, requests, rest, minute, upto, confirmed>>
  BY DEF BusinessDisconnected
<1>2. /\ IsABag(http') /\ BagToSet(http') \subseteq Requests
      /\ \A request \in BagToSet(http') : request.minute <= minute
  <2>1. /\ IsABag(Forgotten(http)) /\ BagToSet(Forgotten(http)) \subseteq Requests
        /\ \A r \in BagToSet(Forgotten(http)) : \E q \in BagToSet(http) : r.minute = q.minute
    BY Typed, ForgottenBag DEF IInv
  <2>2. \A q \in BagToSet(http) : q.minute <= minute
    BY DEF IInv, Types, UpToNow
  <2> QED
    BY <1>1, <2>1, <2>2
<1>3. <<>> \in Messages /\ <<>> \in Seq(Bar) /\ DOMAIN <<>> = {}
  BY EmptySeq DEF Messages
<1>4. Types'
  <2>1. since' \in [Symbols -> Minutes]
    BY <1>1, MinutesAssumption DEF Minutes
  <2>2. disconnects' \in [business : Nat, rest : Nat]
    <3>1. disconnects \in [business : Nat, rest : Nat]
      BY DEF IInv, Types, TypeOK
    <3>2. disconnects' = [disconnects EXCEPT !.business = @ + 1]
      BY <1>1
    <3> QED
      BY <3>1, <3>2
  <2>3. {realtime', rest'} \subseteq BOOLEAN /\ {queue', up'} \subseteq Messages
        /\ {asked', channel', tried'} \subseteq SUBSET Symbols /\ down' \in Seq(Bar)
    BY <1>1, <1>3, Typed DEF IInv
  <2>4. TypeOK'
    BY <1>1, <1>2, <2>1, <2>2, <2>3 DEF IInv, Types, TypeOK, Messages, Bar, Requests
  <2> QED
    BY <1>1, <1>2, <1>3, <2>4 DEF IInv, Types, UpToNow
<1>5. OnlyKnown' /\ NoDuplicates'
  BY <1>1, <1>3 DEF OnlyKnown, NoDuplicates
<1>6. FreshHistory' /\ AllAskedFor'
  BY <1>1, NoMessage DEF FreshHistory, AllAskedFor
<1>7. OnItsWay'
  BY <1>1 DEF IInv, OnItsWay
<1> QED
  BY <1>4, <1>5, <1>6, <1>7 DEF IInv

LEMMA CandleIInv == IInv /\ Candle => IInv'
<1> SUFFICES ASSUME IInv, Candle PROVE IInv'
  OBVIOUS
<1> DEFINE h == Head(down)
<1>1. /\ down # <<>> /\ down' = Tail(down)
      /\ confirmed' = [confirmed EXCEPT ![h.symbol] = @ \union {h.bar}]
      /\ UNCHANGED <<realtime, symbols, status, queue, asked, requests, rest, http, up, channel,
                     minute, since, upto, tried, disconnects>>
  BY DEF Candle, businessVars, BusinessBars
<1>2. /\ h \in Bar /\ Tail(down) \in Seq(Bar) /\ 1 \in DOMAIN down /\ h = down[1]
      /\ \A n \in DOMAIN Tail(down) :
            n \in Nat \ {0} /\ n + 1 \in DOMAIN down /\ Tail(down)[n] = down[n + 1]
      /\ ToSet(down) = {h} \union ToSet(Tail(down))
  BY <1>1, Typed, HeadAndTail DEF IInv
<1> HIDE DEF h
<1>3. h.symbol \in Symbols /\ h.bar \in 1 .. minute - 1
  BY <1>2 DEF IInv, Types, UpToNow, Bar
<1>4. /\ confirmed \in [Symbols -> SUBSET (1 .. minute - 1)]
      /\ confirmed' \in [Symbols -> SUBSET (1 .. minute - 1)]
      /\ h.bar \in confirmed'[h.symbol]
      /\ \A s \in Symbols : confirmed[s] \subseteq confirmed'[s]
  <2>1. confirmed \in [Symbols -> SUBSET (1 .. minute - 1)]
    BY DEF IInv, Types, TypeOK
  <2> QED
    BY <1>1, <1>3, <2>1
<1>5. Types'
  <2>1. \A n \in DOMAIN down' : down'[n].bar \in 1 .. minute - 1
    BY <1>1, <1>2 DEF IInv, Types, UpToNow
  <2>2. TypeOK'
    BY <1>1, <1>2, <1>4 DEF IInv, Types, TypeOK, Bar
  <2> QED
    BY <1>1, <2>1, <2>2 DEF IInv, Types, UpToNow
<1>6. OnlyKnown' /\ NoDuplicates'
  BY <1>1 DEF IInv, OnlyKnown, NoDuplicates
<1>7. FreshHistory' /\ AllAskedFor'
  BY <1>1 DEF IInv, FreshHistory, AllAskedFor
<1>8. OnItsWay'
  <2>1. ASSUME NEW s \in channel, NEW bar \in since[s] .. minute - 1
        PROVE  bar \in confirmed'[s] \/ [symbol |-> s, bar |-> bar] \in ToSet(down')
    <3>1. s \in Symbols
      BY Typed DEF IInv
    <3>2. bar \in confirmed[s] \/ [symbol |-> s, bar |-> bar] \in ToSet(down)
      BY DEF IInv, OnItsWay
    <3>3. CASE h = [symbol |-> s, bar |-> bar]
      BY <1>4, <3>3
    <3>4. CASE h # [symbol |-> s, bar |-> bar]
      BY <1>1, <1>2, <1>4, <3>1, <3>2, <3>4
    <3> QED
      BY <3>3, <3>4
  <2>2. realtime => \A s \in Symbols : Past(upto[s]) \subseteq confirmed'[s]
    BY <1>4 DEF IInv, OnItsWay
  <2> QED
    BY <1>1, <2>1, <2>2 DEF OnItsWay
<1> QED
  BY <1>5, <1>6, <1>7, <1>8 DEF IInv

-----------------------------------------------------------------------------
(* Rest. *)

\* What a step of Rest or an answer leaves alone.
LEMMA OthersKept ==
    ASSUME IInv, othersUnchanged
    PROVE  /\ UNCHANGED <<realtime, symbols, status, queue, asked, up, down, channel, minute, since>>
           /\ OnlyKnown' /\ NoDuplicates' /\ AllAskedFor'
<1>1. UNCHANGED <<realtime, symbols, status, queue, asked, up, down, channel, minute, since>>
  BY DEF othersUnchanged, businessVars, exchangeVars
<1> QED
  BY <1>1 DEF IInv, OnlyKnown, NoDuplicates, AllAskedFor

LEMMA RestConnectedIInv == IInv /\ RestConnected => IInv'
<1> SUFFICES ASSUME IInv, RestConnected PROVE IInv'
  OBVIOUS
<1>1. /\ rest' = TRUE /\ UNCHANGED <<requests, http, upto, tried, confirmed, disconnects>>
      /\ UNCHANGED <<realtime, symbols, status, queue, asked, up, down, channel, minute, since>>
      /\ OnlyKnown' /\ NoDuplicates' /\ AllAskedFor'
  BY OthersKept DEF RestConnected
<1>2. Types'
  BY <1>1 DEF IInv, Types, TypeOK, UpToNow
<1>3. FreshHistory' /\ OnItsWay'
  BY <1>1 DEF IInv, FreshHistory, OnItsWay
<1> QED
  BY <1>1, <1>2, <1>3 DEF IInv

LEMMA RestTimerIInv == IInv /\ RestTimer => IInv'
<1> SUFFICES ASSUME IInv, RestTimer PROVE IInv'
  OBVIOUS
<1> DEFINE sent == [symbol |-> Head(requests), fresh |-> status = "READY", minute |-> 0]
<1>1. /\ requests # <<>> /\ requests' = Tail(requests) /\ http' = http (+) SetToBag({sent})
      /\ UNCHANGED <<rest, upto, tried, confirmed, disconnects>>
      /\ UNCHANGED <<realtime, symbols, status, queue, asked, up, down, channel, minute, since>>
      /\ OnlyKnown' /\ NoDuplicates' /\ AllAskedFor'
  BY OthersKept DEF RestTimer
<1>2. /\ Head(requests) \in Symbols /\ Tail(requests) \in Seq(Symbols)
      /\ ToSet(requests) = {Head(requests)} \union ToSet(Tail(requests))
  BY <1>1, Typed, HeadAndTail DEF IInv
<1>3. sent \in Requests /\ sent.minute = 0
  <2>1. 0 \in Minutes
    BY MinutesAssumption DEF Minutes
  <2>2. (status = "READY") \in BOOLEAN
    BY Zenon
  <2> QED
    BY <1>2, <2>1, <2>2 DEF Requests
<1>4. sent.symbol = Head(requests) /\ (status = "READY" => sent.fresh)
  OBVIOUS
<1> HIDE DEF sent
<1>5. IsABag(http') /\ BagToSet(http') = BagToSet(http) \union {sent}
  BY <1>1, Typed, Added DEF IInv
<1>6. Types'
  <2>1. BagToSet(http') \subseteq Requests
    BY <1>3, <1>5, Typed DEF IInv
  <2>2. \A request \in BagToSet(http') : request.minute <= minute
    BY <1>3, <1>5, Typed DEF IInv, Types, UpToNow
  <2> QED
    BY <1>1, <1>2, <1>5, <2>1, <2>2 DEF IInv, Types, TypeOK, UpToNow, Requests
<1>7. FreshHistory'
  <2> SUFFICES ASSUME status = "READY", NEW s \in ToSet(symbols)
               PROVE  \/ s \in ToSet(requests')
                      \/ \E request \in BagToSet(http') : request.symbol = s /\ request.fresh
                      \/ s \in tried
    BY <1>1 DEF FreshHistory
  <2>1. \/ s \in ToSet(requests)
        \/ \E request \in BagToSet(http) : request.symbol = s /\ request.fresh
        \/ s \in tried
    BY DEF IInv, FreshHistory
  <2> QED
    BY <1>1, <1>2, <1>4, <1>5, <2>1
<1>8. OnItsWay'
  BY <1>1 DEF IInv, OnItsWay
<1> QED
  BY <1>1, <1>6, <1>7, <1>8 DEF IInv

\* A request that has ended, with an answer or without.
LEMMA EndedRequest ==
    ASSUME IInv, NEW request \in BagToSet(http),
           tried' = IF request.fresh THEN tried \union {request.symbol} ELSE tried,
           http' = http (-) SetToBag({request}),
           UNCHANGED <<requests, rest, disconnects>>, othersUnchanged
    PROVE  /\ request \in Requests /\ request.minute <= minute
           /\ IsABag(http') /\ BagToSet(http') \subseteq Requests
           /\ \A r \in BagToSet(http') : r.minute <= minute
           /\ tried' \subseteq Symbols
           /\ FreshHistory'
<1>1. UNCHANGED <<realtime, symbols, status, queue, asked, up, down, channel, minute, since>>
  BY OthersKept
<1>2. /\ IsABag(http') /\ BagToSet(http') \subseteq BagToSet(http)
      /\ BagToSet(http) \ {request} \subseteq BagToSet(http')
  BY Typed, Removed DEF IInv
<1>3. request \in Requests /\ request.symbol \in Symbols
  BY Typed DEF IInv, Requests
<1>4. tried' \subseteq Symbols
  BY <1>3, Typed DEF IInv
<1>5. \A r \in BagToSet(http) : r \in Requests /\ r.minute <= minute
  BY Typed DEF IInv, Types, UpToNow
<1>6. FreshHistory'
  <2> SUFFICES ASSUME status = "READY", NEW s \in ToSet(symbols)
               PROVE  \/ s \in ToSet(requests)
                      \/ \E r \in BagToSet(http') : r.symbol = s /\ r.fresh
                      \/ s \in tried'
    BY <1>1 DEF FreshHistory
  <2>1. \/ s \in ToSet(requests)
        \/ \E r \in BagToSet(http) : r.symbol = s /\ r.fresh
        \/ s \in tried
    BY DEF IInv, FreshHistory
  <2> QED
    BY <1>2, <2>1
<1> QED
  BY <1>2, <1>3, <1>4, <1>5, <1>6

LEMMA CandlesAckIInv ==
    ASSUME IInv, NEW request \in BagToSet(http), CandlesAck(request)
    PROVE  IInv'
<1> DEFINE s == request.symbol
           m == request.minute
           bars == RestBars(m)
<1>1. /\ m > 0
      /\ confirmed' = [confirmed EXCEPT ![s] = @ \union bars]
      /\ upto' = [upto EXCEPT ![s] = IF m > @ THEN m ELSE @]
      /\ tried' = (IF request.fresh THEN tried \union {s} ELSE tried)
      /\ http' = http (-) SetToBag({request})
      /\ UNCHANGED <<requests, rest, disconnects>> /\ othersUnchanged
  BY DEF CandlesAck
<1>2. /\ UNCHANGED <<realtime, symbols, status, queue, asked, up, down, channel, minute, since>>
      /\ OnlyKnown' /\ NoDuplicates' /\ AllAskedFor'
  BY <1>1, OthersKept
<1>3. /\ request \in Requests /\ m <= minute
      /\ IsABag(http') /\ BagToSet(http') \subseteq Requests
      /\ \A r \in BagToSet(http') : r.minute <= minute
      /\ tried' \subseteq Symbols
      /\ FreshHistory'
  BY <1>1, EndedRequest
<1>4. s \in Symbols /\ m \in Minutes /\ m \in Nat /\ minute \in Nat
  BY <1>3, Typed DEF IInv, Requests, Minutes
<1>5. bars \subseteq 1 .. minute - 1 /\ (realtime => bars = Past(m))
  BY <1>3, <1>4, LimitAssumption DEF RestBars, History, Past
<1> HIDE DEF s, m, bars
<1>6. confirmed \in [Symbols -> SUBSET (1 .. minute - 1)] /\ upto \in [Symbols -> Minutes]
  BY DEF IInv, Types, TypeOK
<1>7. /\ confirmed' \in [Symbols -> SUBSET (1 .. minute - 1)]
      /\ \A x \in Symbols : confirmed[x] \subseteq confirmed'[x]
      /\ bars \subseteq confirmed'[s]
  BY <1>1, <1>4, <1>5, <1>6
<1>8. /\ upto' \in [Symbols -> Minutes]
      /\ \A x \in Symbols : upto'[x] = upto[x] \/ (x = s /\ upto'[x] = m)
  BY <1>1, <1>4, <1>6
<1>9. Types'
  <2>1. /\ {realtime', rest'} \subseteq BOOLEAN /\ {queue', up'} \subseteq Messages
        /\ {asked', channel', tried'} \subseteq SUBSET Symbols
    BY <1>1, <1>2, <1>3, Typed DEF IInv
  <2>2. TypeOK'
    BY <1>1, <1>2, <1>3, <1>7, <1>8, <2>1 DEF IInv, Types, TypeOK, Requests, Messages
  <2> QED
    BY <1>2, <1>3, <2>2 DEF IInv, Types, UpToNow
<1>10. OnItsWay'
  <2>1. ASSUME NEW x \in channel, NEW bar \in since[x] .. minute - 1
        PROVE  bar \in confirmed'[x] \/ [symbol |-> x, bar |-> bar] \in ToSet(down)
    <3>1. x \in Symbols
      BY Typed DEF IInv
    <3>2. bar \in confirmed[x] \/ [symbol |-> x, bar |-> bar] \in ToSet(down)
      BY DEF IInv, OnItsWay
    <3> QED
      BY <1>7, <3>1, <3>2
  <2>2. ASSUME realtime, NEW x \in Symbols
        PROVE  Past(upto'[x]) \subseteq confirmed'[x]
    <3>1. CASE upto'[x] = upto[x]
      BY <1>7, <2>2, <3>1 DEF IInv, OnItsWay
    <3>2. CASE x = s /\ upto'[x] = m
      BY <1>5, <1>7, <2>2, <3>2
    <3> QED
      BY <1>8, <3>1, <3>2
  <2> QED
    BY <1>2, <2>1, <2>2 DEF OnItsWay
<1> QED
  BY <1>2, <1>3, <1>9, <1>10 DEF IInv

LEMMA CandlesErrorIInv ==
    ASSUME IInv, NEW request \in BagToSet(http), CandlesError(request)
    PROVE  IInv'
<1>1. /\ tried' = (IF request.fresh THEN tried \union {request.symbol} ELSE tried)
      /\ http' = http (-) SetToBag({request})
      /\ UNCHANGED <<requests, rest, upto, confirmed, disconnects>> /\ othersUnchanged
  BY DEF CandlesError
<1>2. /\ UNCHANGED <<realtime, symbols, status, queue, asked, up, down, channel, minute, since>>
      /\ OnlyKnown' /\ NoDuplicates' /\ AllAskedFor'
  BY <1>1, OthersKept
<1>3. /\ IsABag(http') /\ BagToSet(http') \subseteq Requests
      /\ \A r \in BagToSet(http') : r.minute <= minute
      /\ tried' \subseteq Symbols
      /\ FreshHistory'
  BY <1>1, EndedRequest
<1>4. Types'
  BY <1>1, <1>2, <1>3 DEF IInv, Types, TypeOK, UpToNow, Requests
<1>5. OnItsWay'
  BY <1>1, <1>2 DEF IInv, OnItsWay
<1> QED
  BY <1>2, <1>3, <1>4, <1>5 DEF IInv

LEMMA RestDisconnectedIInv == IInv /\ RestDisconnected => IInv'
<1> SUFFICES ASSUME IInv, RestDisconnected PROVE IInv'
  OBVIOUS
<1> DEFINE ended == {request.symbol : request \in {r \in BagToSet(http) : r.fresh}}
<1>1. /\ rest' = FALSE /\ http' = EmptyBag /\ tried' = tried \union ended
      /\ disconnects' = [disconnects EXCEPT !.rest = @ + 1]
      /\ UNCHANGED <<requests, upto, confirmed>>
      /\ UNCHANGED <<realtime, symbols, status, queue, asked, up, down, channel, minute, since>>
      /\ OnlyKnown' /\ NoDuplicates' /\ AllAskedFor'
  BY OthersKept DEF RestDisconnected
<1>2. IsABag(http') /\ BagToSet(http') = {}
  BY <1>1, NoRequests
<1>3. ended \subseteq Symbols
  <2>1. \A r \in BagToSet(http) : r.symbol \in Symbols
    BY Typed DEF IInv, Requests
  <2> QED
    BY <2>1
<1>4. Types'
  <2>1. disconnects' \in [business : Nat, rest : Nat]
    <3>1. disconnects \in [business : Nat, rest : Nat]
      BY DEF IInv, Types, TypeOK
    <3>2. disconnects' = [disconnects EXCEPT !.rest = @ + 1]
      BY <1>1
    <3> QED
      BY <3>1, <3>2
  <2>2. {realtime', rest'} \subseteq BOOLEAN /\ tried' \subseteq Symbols
    BY <1>1, <1>3, Typed DEF IInv
  <2> QED
    BY <1>1, <1>2, <2>1, <2>2 DEF IInv, Types, TypeOK, UpToNow
<1>5. FreshHistory'
  <2> SUFFICES ASSUME status = "READY", NEW s \in ToSet(symbols)
               PROVE  s \in ToSet(requests) \/ s \in tried'
    BY <1>1 DEF FreshHistory
  <2>1. \/ s \in ToSet(requests)
        \/ \E r \in BagToSet(http) : r.symbol = s /\ r.fresh
        \/ s \in tried
    BY DEF IInv, FreshHistory
  <2> QED
    BY <1>1, <2>1
<1>6. OnItsWay'
  BY <1>1 DEF IInv, OnItsWay
<1> QED
  BY <1>1, <1>4, <1>5, <1>6 DEF IInv

-----------------------------------------------------------------------------
(* The exchange. *)

LEMMA RestKept ==
    ASSUME IInv, exchangeOthersUnchanged
    PROVE  /\ UNCHANGED <<realtime, symbols, status, queue, asked, requests, rest, upto, tried,
                          confirmed, disconnects>>
           /\ OnlyKnown' /\ NoDuplicates'
<1>1. UNCHANGED <<realtime, symbols, status, queue, asked, requests, rest, upto, tried,
                  confirmed, disconnects>>
  BY DEF exchangeOthersUnchanged, businessVars
<1> QED
  BY <1>1 DEF IInv, OnlyKnown, NoDuplicates

LEMMA TakeSubscribeIInv == IInv /\ TakeSubscribe => IInv'
<1> SUFFICES ASSUME IInv, TakeSubscribe PROVE IInv'
  OBVIOUS
<1>1. /\ up # <<>> /\ up' = Tail(up) /\ channel' = channel \union Head(up)
      /\ since' = [s \in Symbols |-> IF s \in Head(up) THEN minute ELSE since[s]]
      /\ UNCHANGED <<http, down, minute>>
      /\ UNCHANGED <<realtime, symbols, status, queue, asked, requests, rest, upto, tried,
                     confirmed, disconnects>>
      /\ OnlyKnown' /\ NoDuplicates'
  BY RestKept DEF TakeSubscribe
<1>2. Head(up) \in (SUBSET Symbols) \ {{}} /\ Tail(up) \in Messages
  BY <1>1, Typed, HeadAndTail DEF IInv, Messages
<1>3. Types'
  <2>1. since' \in [Symbols -> Minutes]
    BY <1>1 DEF IInv, Types, TypeOK
  <2>2. {queue', up'} \subseteq Messages /\ channel' \subseteq Symbols
    BY <1>1, <1>2, Typed DEF IInv
  <2> QED
    BY <1>1, <2>1, <2>2 DEF IInv, Types, TypeOK, UpToNow, Messages
<1>4. FreshHistory' /\ AllAskedFor'
  <2>1. SymbolsOf(up) = SymbolsOf(up') \union Head(up)
    <3>1. up \in Seq((SUBSET Symbols) \ {{}})
      BY Typed DEF IInv, Messages
    <3> QED
      BY <1>1, <3>1, SymbolsOfTail
  <2> QED
    BY <1>1, <2>1 DEF IInv, FreshHistory, AllAskedFor
<1>5. OnItsWay'
  <2>1. ASSUME NEW s \in channel', NEW bar \in since'[s] .. minute - 1
        PROVE  bar \in confirmed[s] \/ [symbol |-> s, bar |-> bar] \in ToSet(down)
    <3>1. s \in Symbols /\ minute \in Nat
      BY <1>1, <1>2, Typed DEF IInv
    <3>2. s \notin Head(up)
      BY <1>1, <3>1
    <3>3. s \in channel /\ since'[s] = since[s]
      BY <1>1, <3>1, <3>2
    <3> QED
      BY <3>3 DEF IInv, OnItsWay
  <2> QED
    BY <1>1, <2>1 DEF IInv, OnItsWay
<1> QED
  BY <1>1, <1>3, <1>4, <1>5 DEF IInv

LEMMA TakeCandlesIInv ==
    ASSUME IInv, NEW request \in BagToSet(http), TakeCandles(request)
    PROVE  IInv'
<1> DEFINE answer == [request EXCEPT !.minute = minute]
           left == http (-) SetToBag({request})
<1>1. /\ http' = left (+) SetToBag({answer})
      /\ UNCHANGED <<up, down, channel, minute, since>>
      /\ UNCHANGED <<realtime, symbols, status, queue, asked, requests, rest, upto, tried,
                     confirmed, disconnects>>
      /\ OnlyKnown' /\ NoDuplicates'
  BY RestKept DEF TakeCandles, exchangeVars
<1>2. request \in Requests /\ minute \in Minutes /\ minute \in Nat
  BY Typed DEF IInv, Minutes
<1>3. /\ answer \in Requests /\ answer.minute = minute
      /\ answer.symbol = request.symbol /\ answer.fresh = request.fresh
  BY <1>2 DEF Requests
<1>4. /\ IsABag(left) /\ BagToSet(left) \subseteq BagToSet(http)
      /\ BagToSet(http) \ {request} \subseteq BagToSet(left)
  BY Typed, Removed DEF IInv
<1> HIDE DEF answer, left
<1>5. IsABag(http') /\ BagToSet(http') = BagToSet(left) \union {answer}
  BY <1>1, <1>4, Added
<1>6. Types'
  <2>1. \A r \in BagToSet(http') : r \in Requests /\ r.minute <= minute
    BY <1>2, <1>3, <1>4, <1>5, Typed DEF IInv, Types, UpToNow
  <2> QED
    BY <1>1, <1>5, <2>1 DEF IInv, Types, TypeOK, UpToNow, Requests
<1>7. FreshHistory'
  <2> SUFFICES ASSUME status = "READY", NEW s \in ToSet(symbols)
               PROVE  \/ s \in ToSet(requests)
                      \/ \E r \in BagToSet(http') : r.symbol = s /\ r.fresh
                      \/ s \in tried
    BY <1>1 DEF FreshHistory
  <2>1. \/ s \in ToSet(requests)
        \/ \E r \in BagToSet(http) : r.symbol = s /\ r.fresh
        \/ s \in tried
    BY DEF IInv, FreshHistory
  <2> QED
    BY <1>3, <1>4, <1>5, <2>1
<1>8. OnItsWay' /\ AllAskedFor'
  BY <1>1 DEF IInv, OnItsWay, AllAskedFor
<1> QED
  BY <1>1, <1>6, <1>7, <1>8 DEF IInv

LEMMA TickIInv == IInv /\ Tick => IInv'
<1> SUFFICES ASSUME IInv, Tick PROVE IInv'
  OBVIOUS
<1> DEFINE closed == {[symbol |-> s, bar |-> minute] : s \in channel}
<1>1. PICK bars \in SetToSeqs(closed) : down' = down \o bars
  BY DEF Tick
<1>2. /\ minute < MaxMinutes /\ minute' = minute + 1
      /\ UNCHANGED <<up, http, channel, since>>
      /\ UNCHANGED <<realtime, symbols, status, queue, asked, requests, rest, upto, tried,
                     confirmed, disconnects>>
      /\ OnlyKnown' /\ NoDuplicates'
  BY RestKept DEF Tick
<1>3. minute \in Nat \ {0} /\ minute \in Minutes /\ minute' \in Minutes
      /\ 1 .. minute - 1 \subseteq 1 .. minute' - 1 /\ minute \in 1 .. minute' - 1
  BY <1>2, MinutesAssumption, Typed DEF IInv, Minutes
<1>4. IsFiniteSet(closed)
  <2>1. IsFiniteSet(channel)
    BY SymbolsAssumption, FS_Subset, Typed DEF IInv
  <2>2. [s \in channel |-> [symbol |-> s, bar |-> minute]] \in Surjection(channel, closed)
    BY DEF Surjection
  <2> HIDE DEF closed
  <2> QED
    BY <2>1, <2>2, FS_Surjection
<1>5. bars \in Seq(closed) /\ ToSet(bars) = closed
  <2> HIDE DEF closed
  <2> QED
    BY <1>4, EachOnce
<1>6. closed \subseteq Bar
  BY <1>3, Typed DEF IInv, Bar
<1>7. bars \in Seq(Bar) /\ down \in Seq(Bar)
  <2> HIDE DEF closed
  <2> QED
    BY <1>5, <1>6, SeqMonotonic, Typed DEF IInv
<1>8. down' \in Seq(Bar) /\ ToSet(down') = ToSet(down) \union closed
  BY <1>1, <1>5, <1>7, ConcatElements
<1>9. \A n \in DOMAIN down' : down'[n].bar \in 1 .. minute' - 1
  <2>1. \A bar \in ToSet(down) : bar.bar \in 1 .. minute - 1
    BY DEF IInv, Types, UpToNow, ToSet
  <2>2. \A bar \in ToSet(down') : bar.bar \in 1 .. minute' - 1
    <3>1. \A bar \in closed : bar.bar = minute
      OBVIOUS
    <3> HIDE DEF closed
    <3> QED
      BY <1>3, <1>8, <2>1, <3>1
  <2> QED
    BY <2>2 DEF ToSet
<1>10. Types'
  <2>1. confirmed' \in [Symbols -> SUBSET (1 .. minute' - 1)]
    BY <1>2, <1>3 DEF IInv, Types, TypeOK
  <2>2. TypeOK'
    BY <1>2, <1>3, <1>8, <2>1 DEF IInv, Types, TypeOK, Bar
  <2>3. minute' # 0 /\ \A r \in BagToSet(http') : r.minute <= minute'
    <3>1. \A r \in BagToSet(http) : r.minute <= minute /\ r.minute \in Nat
      BY Typed DEF IInv, Types, UpToNow, Requests, Minutes
    <3> QED
      BY <1>2, <1>3, <3>1
  <2> QED
    BY <1>9, <2>2, <2>3 DEF Types, UpToNow
<1>11. FreshHistory' /\ AllAskedFor'
  BY <1>2 DEF IInv, FreshHistory, AllAskedFor
<1>12. OnItsWay'
  <2>1. ASSUME NEW s \in channel, NEW bar \in since[s] .. minute' - 1
        PROVE  bar \in confirmed[s] \/ [symbol |-> s, bar |-> bar] \in ToSet(down')
    <3>1. since[s] \in Nat
      BY Typed DEF IInv, Types, TypeOK, Minutes
    <3>2. CASE bar = minute
      BY <1>8, <3>2
    <3>3. CASE bar # minute
      <4>1. bar \in since[s] .. minute - 1
        BY <1>2, <1>3, <3>1, <3>3
      <4> QED
        BY <1>8, <4>1 DEF IInv, OnItsWay
    <3> QED
      BY <3>2, <3>3
  <2> QED
    BY <1>2, <2>1 DEF IInv, OnItsWay
<1> QED
  BY <1>2, <1>10, <1>11, <1>12 DEF IInv

-----------------------------------------------------------------------------
(* The theorems. *)

LEMMA NextIInv == IInv /\ [Next]_vars => IInv'
<1> SUFFICES ASSUME IInv, [Next]_vars PROVE IInv'
  OBVIOUS
<1>1. CASE \E new \in SUBSET Symbols : \E some \in SetToSeqs(new) : SymbolsUpdate(some)
  BY <1>1, SymbolsUpdateIInv
<1>2. CASE Ready
  BY <1>2, ReadyIInv
<1>3. CASE BusinessTimer
  BY <1>3, BusinessTimerIInv
<1>4. CASE Candle
  BY <1>4, CandleIInv
<1>5. CASE BusinessDisconnected
  BY <1>5, BusinessDisconnectedIInv
<1>6. CASE RestConnected
  BY <1>6, RestConnectedIInv
<1>7. CASE RestTimer
  BY <1>7, RestTimerIInv
<1>8. CASE RestDisconnected
  BY <1>8, RestDisconnectedIInv
<1>9. CASE \E request \in BagToSet(http) :
             TakeCandles(request) \/ CandlesAck(request) \/ CandlesError(request)
  BY <1>9, TakeCandlesIInv, CandlesAckIInv, CandlesErrorIInv
<1>10. CASE TakeSubscribe
  BY <1>10, TakeSubscribeIInv
<1>11. CASE Tick
  BY <1>11, TickIInv
<1>12. CASE UNCHANGED vars
  BY <1>12 DEF vars, IInv, Types, TypeOK, UpToNow, OnlyKnown, NoDuplicates, FreshHistory, OnItsWay,
             AllAskedFor
<1> QED
  BY <1>1, <1>2, <1>3, <1>4, <1>5, <1>6, <1>7, <1>8, <1>9, <1>10, <1>11, <1>12 DEF Next

LEMMA Invariance == Spec => []IInv
  BY InitIInv, NextIInv, PTL DEF Spec

\* What is sent, queued, answered and published is of the types declared.
THEOREM CandlesTypeCorrect == Spec => []TypeOK
<1>1. IInv => TypeOK
  BY DEF IInv, Types
<1> QED
  BY <1>1, Invariance, PTL

\* No connection of Business subscribes the candles of a symbol twice.
THEOREM CandlesNotTwice == Spec => []NoDuplicates
<1>1. IInv => NoDuplicates
  BY DEF IInv
<1> QED
  BY <1>1, Invariance, PTL

\* While Business is READY, the history of each symbol is queued or was asked for since.
THEOREM HistoryAskedAgain == Spec => []FreshHistory
<1>1. IInv => FreshHistory
  BY DEF IInv
<1> QED
  BY <1>1, Invariance, PTL

LEMMA DeliveredHolds == IInv => Delivered
<1> DEFINE recent(s) == {bar \in 1 .. minute - 1 : bar > upto[s] - HistoryLimit}
<1> SUFFICES ASSUME IInv, down = <<>>, NEW s \in channel
             PROVE  /\ since[s] .. minute - 1 \subseteq confirmed[s]
                    /\ realtime /\ upto[s] >= since[s] => recent(s) \subseteq confirmed[s]
  BY DEF Delivered
<1>1. ToSet(down) = {} /\ s \in Symbols
  BY Typed DEF IInv, ToSet
<1>2. since[s] .. minute - 1 \subseteq confirmed[s]
  BY <1>1 DEF IInv, OnItsWay
<1>3. ASSUME realtime, upto[s] >= since[s], NEW bar \in recent(s)
      PROVE  bar \in confirmed[s]
  <2>1. since[s] \in Nat /\ upto[s] \in Nat /\ minute \in Nat /\ HistoryLimit \in Nat
    BY <1>1, LimitAssumption DEF IInv, Types, TypeOK, Minutes
  <2>2. CASE bar >= upto[s]
    BY <1>2, <1>3, <2>1, <2>2
  <2>3. CASE bar < upto[s]
    <3>1. bar \in Past(upto[s])
      BY <1>3, <2>1, <2>3 DEF Past, History
    <3> QED
      BY <1>1, <1>3, <3>1 DEF IInv, OnItsWay
  <2> QED
    BY <1>3, <2>1, <2>2, <2>3
<1> QED
  BY <1>2, <1>3

\* A client misses no bar that was confirmed while its symbol was subscribed, and, with
\* realtime, none that a history taken since then reaches back to.
THEOREM OutagesAreMadeUpFor == Spec => []Delivered
  BY DeliveredHolds, Invariance, PTL

-----------------------------------------------------------------------------
(* Why nothing gets stuck: the safe half of EventuallyJoined.  None of the  *)
(* steps that Fairness is about is possible.                                *)

AtRest ==
    /\ status = "READY" /\ queue = <<>>
    /\ rest /\ requests = <<>>
    /\ up = <<>>
    /\ BagToSet(http) = {}

LEMMA JoinedAtRest == IInv /\ AtRest => ToSet(symbols) \subseteq channel \intersect tried
<1> SUFFICES ASSUME IInv, AtRest PROVE ToSet(symbols) \subseteq channel \intersect tried
  OBVIOUS
<1>1. status = "READY" /\ SymbolsOf(queue) = {} /\ SymbolsOf(up) = {} /\ ToSet(requests) = {}
  BY NoMessage DEF AtRest, ToSet
<1>2. ToSet(symbols) \subseteq channel
  BY <1>1 DEF IInv, AllAskedFor
<1>3. ToSet(symbols) \subseteq tried
  BY <1>1 DEF AtRest, IInv, FreshHistory
<1> QED
  BY <1>2, <1>3

\* Business and Rest only come to rest, with both connections up and nothing left to
\* send, take or answer, when every symbol known is subscribed and its history was asked for.
THEOREM CandlesNeverStuck ==
    Spec => [](AtRest => ToSet(symbols) \subseteq channel \intersect tried)
  BY JoinedAtRest, Invariance, PTL

=============================================================================

--------------------- MODULE MarketSubscriptionsProofs ---------------------
(***************************************************************************)
(* No channel of a symbol is subscribed twice and none is missing, for any *)
(* symbols, any limit of symbols per stream, with and without a login and  *)
(* for any number of lost connections.                                     *)
(*                                                                         *)
(* The argument: a stream only ever asks for symbols of its own slice, and *)
(* the slices have no symbol in common; a READY stream has asked for its   *)
(* slice as it was when it became READY, and for each addition since.      *)
(***************************************************************************)
EXTENDS MarketSubscriptions, TLAPS, SequenceTheorems, FunctionTheorems, FiniteSetTheorems

-----------------------------------------------------------------------------
(* Slices. *)

Limit == MaxSubscriptionsPerStream

\* Position n of the symbols belongs to stream i.
InSlice(n, i) == (i - 1) * Limit < n /\ n =< i * Limit

LEMMA LimitGrows ==
    ASSUME NEW i \in Nat, NEW j \in Nat, i <= j
    PROVE  i * Limit \in Nat /\ j * Limit \in Nat /\ i * Limit <= j * Limit
<1>1. \A d \in Nat : d * Limit \in Nat
  BY LimitAssumption DEF Limit
<1>2. j * Limit = i * Limit + (j - i) * Limit
  BY LimitAssumption DEF Limit
<1> QED
  BY <1>1, <1>2

LEMMA EnoughSlices ==
    ASSUME NEW all \in Seq(Symbols)
    PROVE  Slices(all) \in Nat /\ Len(all) <= Slices(all) * Limit
<1> DEFINE x == Len(all) + Limit - 1
<1>1. Len(all) \in Nat /\ Limit \in Nat /\ Limit > 0 /\ x \in Nat
  BY LimitAssumption, LenProperties DEF Limit
<1>2. Slices(all) = x \div Limit
  BY DEF Slices, Limit
<1> HIDE DEF x
<1>3. x = Limit * (x \div Limit) + (x % Limit) /\ (x % Limit) \in 0 .. Limit - 1
  BY <1>1
<1>4. (x \div Limit) \in Nat
  BY <1>1
<1> QED
  BY <1>1, <1>2, <1>3, <1>4 DEF x

LEMMA SlicesApart ==
    ASSUME NEW i \in Nat \ {0}, NEW j \in Nat \ {0}, NEW n \in Nat, InSlice(n, i), InSlice(n, j)
    PROVE  i = j
<1>1. ASSUME NEW k \in Nat \ {0}, NEW l \in Nat \ {0}, k < l, InSlice(n, k), InSlice(n, l)
      PROVE  FALSE
  <2>1. k <= l - 1 /\ l - 1 \in Nat
    BY <1>1
  <2>2. k * Limit <= (l - 1) * Limit /\ k * Limit \in Nat /\ (l - 1) * Limit \in Nat
    BY <2>1, LimitGrows
  <2> QED
    BY <1>1, <2>2 DEF InSlice
<1> QED
  BY <1>1

LEMMA SliceExists ==
    ASSUME NEW n \in Nat \ {0}, NEW streams \in Nat, n <= streams * Limit
    PROVE  \E i \in 1 .. streams : InSlice(n, i)
<1> DEFINE x == n - 1
           i == (x \div Limit) + 1
<1>1. Limit \in Nat /\ Limit > 0 /\ x \in Nat
  BY LimitAssumption DEF Limit
<1> HIDE DEF x
<1>2. x = Limit * (x \div Limit) + (x % Limit) /\ (x % Limit) \in 0 .. Limit - 1
      /\ (x \div Limit) \in Nat
  BY <1>1
<1>3. i \in Nat \ {0} /\ x \div Limit = i - 1
  BY <1>2
<1> HIDE DEF i
<1>4. i * Limit = (i - 1) * Limit + Limit /\ (i - 1) * Limit \in Nat
  BY <1>1, <1>3
<1>5. n = (i - 1) * Limit + (x % Limit) + 1
  BY <1>1, <1>2, <1>3 DEF x
<1>6. InSlice(n, i)
  BY <1>1, <1>2, <1>4, <1>5 DEF InSlice
<1>7. i <= streams
  <2> SUFFICES ASSUME i > streams PROVE FALSE
    BY <1>3
  <2>1. streams <= i - 1 /\ i - 1 \in Nat
    BY <1>3
  <2>2. streams * Limit <= (i - 1) * Limit /\ streams * Limit \in Nat
    BY <2>1, LimitGrows
  <2> QED
    BY <1>2, <1>4, <1>5, <2>2
<1> QED
  BY <1>3, <1>6, <1>7

\* What a slice is.
LEMMA SliceParts ==
    ASSUME NEW all, NEW i, NEW start
    PROVE  \A s : s \in Slice(all, i, start) <=>
                \E n \in DOMAIN all : n > start /\ InSlice(n, i) /\ s = all[n]
  BY DEF Slice, InSlice, Limit

\* A slice has no more symbols than the limit.
LEMMA SliceSize ==
    ASSUME NEW all \in Seq(Symbols), NEW i \in Nat \ {0}
    PROVE  /\ IsFiniteSet(Slice(all, i, 0))
           /\ Cardinality(Slice(all, i, 0)) \in Nat
           /\ Cardinality(Slice(all, i, 0)) =< Limit
<1> DEFINE positions == {n \in DOMAIN all : n > 0 /\ InSlice(n, i)}
           a == (i - 1) * Limit + 1
           b == i * Limit
<1>1. Limit \in Nat /\ (i - 1) * Limit \in Nat /\ i * Limit = (i - 1) * Limit + Limit
  BY LimitAssumption, LimitGrows DEF Limit
<1>2. IsFiniteSet(a .. b) /\ Cardinality(a .. b) = Limit
  <2>1. a \in Int /\ b \in Int /\ (IF a > b THEN 0 ELSE b - a + 1) = Limit
    BY <1>1
  <2> HIDE DEF a, b
  <2> QED
    BY <2>1, FS_Interval
<1>3. positions \subseteq a .. b
  <2>1. \A n \in positions : n \in Nat /\ (i - 1) * Limit < n /\ n <= i * Limit
    BY LenProperties DEF InSlice
  <2> QED
    BY <1>1, <2>1
<1> HIDE DEF a, b
<1>4. IsFiniteSet(positions) /\ Cardinality(positions) <= Limit /\ Cardinality(positions) \in Nat
  BY <1>2, <1>3, FS_Subset, FS_CardinalityType
<1>5. Slice(all, i, 0) = {all[n] : n \in positions}
  BY SliceParts
<1> HIDE DEF positions
<1>6. [n \in positions |-> all[n]] \in Surjection(positions, Slice(all, i, 0))
  BY <1>5 DEF Surjection
<1> QED
  BY <1>1, <1>4, <1>6, FS_Surjection, FS_CardinalityType

-----------------------------------------------------------------------------
(* Messages and what they subscribe. *)

Pairs(m) == {m.channel} \X m.symbols

Subscribes(q) == UNION {Pairs(q[n]) : n \in DOMAIN q}

\* No two messages subscribe the same.
Apart(q) == \A n, m \in DOMAIN q : n # m => Pairs(q[n]) \intersect Pairs(q[m]) = {}

LEMMA NoMessages == Subscribes(<<>>) = {} /\ Apart(<<>>)
<1>1. DOMAIN <<>> = {}
  BY EmptySeq, LenProperties
<1> QED
  BY <1>1 DEF Subscribes, Apart

LEMMA SubscribesConcat ==
    ASSUME NEW s \in Seq(Message), NEW t \in Seq(Message)
    PROVE  /\ s \o t \in Seq(Message)
           /\ Subscribes(s \o t) = Subscribes(s) \union Subscribes(t)
           /\ Apart(s) /\ Apart(t) /\ Subscribes(s) \intersect Subscribes(t) = {} => Apart(s \o t)
<1>1. /\ Len(s) \in Nat /\ DOMAIN s = 1 .. Len(s)
      /\ Len(t) \in Nat /\ DOMAIN t = 1 .. Len(t)
      /\ DOMAIN (s \o t) = 1 .. (Len(s) + Len(t))
      /\ s \o t \in Seq(Message)
  BY LenProperties, ConcatProperties
<1>2. \A i \in DOMAIN (s \o t) :
          \/ i \in DOMAIN s /\ (s \o t)[i] = s[i]
          \/ i - Len(s) \in DOMAIN t /\ i = (i - Len(s)) + Len(s) /\ (s \o t)[i] = t[i - Len(s)]
  BY <1>1, ConcatProperties
<1>3. \A i \in DOMAIN s : i \in DOMAIN (s \o t) /\ (s \o t)[i] = s[i]
  BY <1>1, ConcatProperties
<1>4. \A i \in DOMAIN t : i + Len(s) \in DOMAIN (s \o t) /\ (s \o t)[i + Len(s)] = t[i]
  BY <1>1, ConcatProperties
<1>5. Subscribes(s \o t) = Subscribes(s) \union Subscribes(t)
  BY <1>2, <1>3, <1>4 DEF Subscribes
<1>6. ASSUME Apart(s), Apart(t), Subscribes(s) \intersect Subscribes(t) = {},
             NEW n \in DOMAIN (s \o t), NEW m \in DOMAIN (s \o t), n # m
      PROVE  Pairs((s \o t)[n]) \intersect Pairs((s \o t)[m]) = {}
  <2>1. \A i \in DOMAIN s : Pairs(s[i]) \subseteq Subscribes(s)
    BY DEF Subscribes
  <2>2. \A i \in DOMAIN t : Pairs(t[i]) \subseteq Subscribes(t)
    BY DEF Subscribes
  <2>3. CASE n \in DOMAIN s /\ m \in DOMAIN s
    BY <1>3, <1>6, <2>3 DEF Apart
  <2>4. CASE n \notin DOMAIN s /\ m \notin DOMAIN s
    <3>1. /\ n - Len(s) \in DOMAIN t /\ (s \o t)[n] = t[n - Len(s)]
          /\ m - Len(s) \in DOMAIN t /\ (s \o t)[m] = t[m - Len(s)]
      BY <1>2, <2>4
    <3>2. n - Len(s) # m - Len(s)
      BY <1>1, <1>6
    <3> QED
      BY <1>6, <3>1, <3>2 DEF Apart
  <2>5. CASE n \in DOMAIN s /\ m \notin DOMAIN s
    <3>1. m - Len(s) \in DOMAIN t /\ (s \o t)[m] = t[m - Len(s)] /\ (s \o t)[n] = s[n]
      BY <1>2, <1>3, <2>5
    <3> QED
      BY <1>6, <2>1, <2>2, <2>5, <3>1
  <2>6. CASE n \notin DOMAIN s /\ m \in DOMAIN s
    <3>1. n - Len(s) \in DOMAIN t /\ (s \o t)[n] = t[n - Len(s)] /\ (s \o t)[m] = s[m]
      BY <1>2, <1>3, <2>6
    <3> QED
      BY <1>6, <2>1, <2>2, <2>6, <3>1
  <2> QED
    BY <2>3, <2>4, <2>5, <2>6
<1> QED
  BY <1>1, <1>5, <1>6 DEF Apart

LEMMA SubscribesTail ==
    ASSUME NEW s \in Seq(Message), s # <<>>
    PROVE  /\ Head(s) \in Message /\ Tail(s) \in Seq(Message)
           /\ Subscribes(s) = Pairs(Head(s)) \union Subscribes(Tail(s))
           /\ Apart(s) => /\ Apart(Tail(s))
                          /\ Pairs(Head(s)) \intersect Subscribes(Tail(s)) = {}
<1>1. /\ Len(s) \in Nat /\ Len(s) > 0
      /\ DOMAIN s = 1 .. Len(s)
      /\ Head(s) = s[1]
      /\ Head(s) \in Message /\ Tail(s) \in Seq(Message)
  BY EmptySeq, LenProperties, HeadTailProperties
<1>2. /\ DOMAIN Tail(s) = 1 .. (Len(s) - 1)
      /\ \A i \in DOMAIN Tail(s) : Tail(s)[i] = s[i + 1]
  BY <1>1, HeadTailProperties, LenProperties
<1>3. /\ 1 \in DOMAIN s
      /\ \A i \in DOMAIN Tail(s) : i \in Nat /\ i + 1 # 1 /\ i + 1 \in DOMAIN s
      /\ \A i \in DOMAIN s : i = 1 \/ (i - 1 \in DOMAIN Tail(s) /\ Tail(s)[i - 1] = s[i])
  BY <1>1, <1>2
<1>4. Subscribes(s) = Pairs(Head(s)) \union Subscribes(Tail(s))
  <2>1. \A i \in DOMAIN s : \A p \in Pairs(s[i]) : p \in Pairs(Head(s)) \union Subscribes(Tail(s))
    <3> SUFFICES ASSUME NEW i \in DOMAIN s, NEW p \in Pairs(s[i]), i # 1
                 PROVE  p \in Subscribes(Tail(s))
      BY <1>1
    <3>1. i - 1 \in DOMAIN Tail(s) /\ Tail(s)[i - 1] = s[i]
      BY <1>3
    <3> QED
      BY <3>1 DEF Subscribes
  <2>2. Pairs(Head(s)) \subseteq Subscribes(s)
    BY <1>1, <1>3 DEF Subscribes
  <2>3. \A i \in DOMAIN Tail(s) : Pairs(Tail(s)[i]) \subseteq Subscribes(s)
    BY <1>2, <1>3 DEF Subscribes
  <2>4. Subscribes(s) \subseteq Pairs(Head(s)) \union Subscribes(Tail(s))
    BY <2>1 DEF Subscribes
  <2>5. Subscribes(Tail(s)) \subseteq Subscribes(s)
    BY <2>3 DEF Subscribes
  <2> QED
    BY <2>2, <2>4, <2>5
<1>5. ASSUME Apart(s), NEW n \in DOMAIN Tail(s), NEW m \in DOMAIN Tail(s), n # m
      PROVE  Pairs(Tail(s)[n]) \intersect Pairs(Tail(s)[m]) = {}
  <2>1. n + 1 # m + 1 /\ n + 1 \in DOMAIN s /\ m + 1 \in DOMAIN s
    BY <1>3, <1>5
  <2> QED
    BY <1>2, <1>5, <2>1 DEF Apart
<1>6. ASSUME Apart(s) PROVE Pairs(Head(s)) \intersect Subscribes(Tail(s)) = {}
  <2>1. \A n \in DOMAIN Tail(s) : Pairs(Head(s)) \intersect Pairs(Tail(s)[n]) = {}
    BY <1>1, <1>2, <1>3, <1>6 DEF Apart
  <2> QED
    BY <2>1 DEF Subscribes
<1> QED
  BY <1>1, <1>4, <1>5, <1>6 DEF Apart

LEMMA FunctionIsSeq ==
    ASSUME NEW S, NEW k \in Nat, NEW f \in [1 .. k -> S]
    PROVE  f \in Seq(S) /\ Len(f) = k
<1>1. Seq(S) = UNION {[1 .. n -> S] : n \in Nat}
  BY SeqDef
<1>2. f \in Seq(S)
  BY <1>1, Zenon
<1>3. DOMAIN f = 1 .. Len(f) /\ Len(f) \in Nat
  BY <1>2, LenProperties
<1> QED
  BY <1>2, <1>3

\* A set as a sequence: each element once.
LEMMA SetAsSeq ==
    ASSUME NEW S, IsFiniteSet(S)
    PROVE  /\ SetToSeq(S) \in Seq(S)
           /\ \A n, m \in DOMAIN SetToSeq(S) : SetToSeq(S)[n] = SetToSeq(S)[m] => n = m
           /\ \A x \in S : \E n \in DOMAIN SetToSeq(S) : SetToSeq(S)[n] = x
<1> DEFINE D == 1 .. Cardinality(S)
           f == SetToSeq(S)
<1>1. Cardinality(S) \in Nat /\ ExistsBijection(D, S)
  BY FS_CardinalityType
<1>2. PICK g : g \in [D -> S] /\ IsInjective(g)
  BY <1>1 DEF ExistsBijection, Bijection, Injection, IsInjective
<1>3. f \in [D -> S] /\ IsInjective(f)
  BY <1>2 DEF SetToSeq
<1> HIDE DEF f
<1>4. f \in Seq(S)
  BY <1>1, <1>3, FunctionIsSeq
<1>5. IsFiniteSet(D) /\ Cardinality(D) = Cardinality(S)
  BY <1>1, FS_Interval
<1> HIDE DEF D
<1>6. f \in Injection(D, S)
  BY <1>3 DEF Injection, IsInjective
<1>7. f \in Surjection(D, S)
  BY <1>5, <1>6, FS_Injection
<1>8. \A x \in S : \E n \in D : f[n] = x
  BY <1>7 DEF Surjection
<1> QED
  BY <1>3, <1>4, <1>8 DEF IsInjective, f

LEMMA SubscribesOfSet ==
    ASSUME NEW S \in SUBSET Message, IsFiniteSet(S),
           \A m, k \in S : m # k => Pairs(m) \intersect Pairs(k) = {}
    PROVE  /\ SetToSeq(S) \in Seq(Message)
           /\ Apart(SetToSeq(S))
           /\ \A p : p \in Subscribes(SetToSeq(S)) <=> \E m \in S : p \in Pairs(m)
<1> DEFINE q == SetToSeq(S)
<1>1. /\ q \in Seq(S)
      /\ \A n, m \in DOMAIN q : q[n] = q[m] => n = m
      /\ \A x \in S : \E n \in DOMAIN q : q[n] = x
  BY SetAsSeq
<1> HIDE DEF q
<1>2. \A n \in DOMAIN q : q[n] \in S
  BY <1>1, ElementOfSeq, LenProperties
<1>3. q \in Seq(Message)
  BY <1>1, SeqDef
<1>4. Apart(q)
  BY <1>1, <1>2 DEF Apart
<1>5. \A p : p \in Subscribes(q) <=> \E m \in S : p \in Pairs(m)
  BY <1>1, <1>2 DEF Subscribes
<1> QED
  BY <1>3, <1>4, <1>5 DEF q

\* What one subscription asks for: all the base channels of each symbol, the funding rate
\* of those that are extended, nothing of other symbols and nothing twice.
LEMMA MessagesParts ==
    ASSUME NEW some \in SUBSET Symbols, NEW ext
    PROVE  /\ Messages(some, ext) \in Seq(Message)
           /\ Apart(Messages(some, ext))
           /\ Subscribes(Messages(some, ext)) \subseteq Channels \X some
           /\ BaseChannels \X some \subseteq Subscribes(Messages(some, ext))
           /\ {"funding-rate"} \X (some \intersect ext) \subseteq Subscribes(Messages(some, ext))
<1> DEFINE base == [channel : BaseChannels, symbols : {some}]
           extra == UNION {[channel : ExtraChannels(s, ext), symbols : {{s}}] : s \in some}
           f == [p \in Channels \X some |-> [channel |-> p[1], symbols |-> {p[2]}]]
           g == [c \in BaseChannels |-> [channel |-> c, symbols |-> some]]
           all == {f[p] : p \in Channels \X some}
<1>1. IsFiniteSet(BaseChannels) /\ IsFiniteSet(Channels)
  <2>1. \A a, b, c, d : IsFiniteSet({a, b, c, d})
    <3> TAKE a, b, c, d
    <3>1. IsFiniteSet({a}) /\ IsFiniteSet({b}) /\ IsFiniteSet({c}) /\ IsFiniteSet({d})
      BY FS_Singleton
    <3>2. IsFiniteSet({a} \union {b}) /\ IsFiniteSet({c} \union {d})
      BY <3>1, FS_Union
    <3>3. IsFiniteSet(({a} \union {b}) \union ({c} \union {d}))
      BY <3>2, FS_Union
    <3>4. {a, b, c, d} = ({a} \union {b}) \union ({c} \union {d})
      OBVIOUS
    <3> QED
      BY <3>3, <3>4
  <2>2. IsFiniteSet(BaseChannels)
    BY <2>1 DEF BaseChannels
  <2>3. IsFiniteSet({"funding-rate", "index-tickers", "funding-rate", "index-tickers"})
    BY <2>1
  <2>4. Channels = BaseChannels \union {"funding-rate", "index-tickers", "funding-rate", "index-tickers"}
    BY DEF Channels
  <2> QED
    BY <2>2, <2>3, <2>4, FS_Union
<1>2. IsFiniteSet(some)
  BY SymbolsAssumption, FS_Subset
<1>3. IsFiniteSet(Channels \X some)
  BY <1>1, <1>2, FS_Product
<1>4. IsFiniteSet(all)
  <2>1. f \in Surjection(Channels \X some, all)
    BY DEF Surjection
  <2> HIDE DEF f, all
  <2> QED
    BY <1>3, <2>1, FS_Surjection
<1>5. extra \subseteq all
  <2> SUFFICES ASSUME NEW s \in some, NEW m \in [channel : ExtraChannels(s, ext), symbols : {{s}}]
               PROVE  m \in all
    OBVIOUS
  <2>1. m.channel \in Channels /\ m = [channel |-> m.channel, symbols |-> {s}]
    BY DEF ExtraChannels, Channels
  <2>2. <<m.channel, s>> \in Channels \X some /\ f[<<m.channel, s>>] = m
    BY <2>1
  <2> QED
    BY <2>2
<1>6. IsFiniteSet(base)
  <2>1. g \in Surjection(BaseChannels, base)
    BY DEF Surjection
  <2> HIDE DEF g, base
  <2> QED
    BY <1>1, <2>1, FS_Surjection
<1>7. IsFiniteSet(extra)
  <2> HIDE DEF all, extra
  <2> QED
    BY <1>4, <1>5, FS_Subset
<1>8. base \in SUBSET Message /\ extra \in SUBSET Message
  BY DEF Message, Channels, ExtraChannels
<1>9. \A m, k \in base : m # k => Pairs(m) \intersect Pairs(k) = {}
  BY DEF Pairs
<1>10. \A m, k \in extra : m # k => Pairs(m) \intersect Pairs(k) = {}
  <2> SUFFICES ASSUME NEW m \in extra, NEW k \in extra, NEW p \in Pairs(m), p \in Pairs(k)
               PROVE  m = k
    OBVIOUS
  <2>1. PICK s \in some : m \in [channel : ExtraChannels(s, ext), symbols : {{s}}]
    OBVIOUS
  <2>2. PICK t \in some : k \in [channel : ExtraChannels(t, ext), symbols : {{t}}]
    OBVIOUS
  <2>3. /\ m = [channel |-> m.channel, symbols |-> {s}] /\ m.symbols = {s}
        /\ k = [channel |-> k.channel, symbols |-> {t}] /\ k.symbols = {t}
    BY <2>1, <2>2
  <2>4. p[1] = m.channel /\ p[1] = k.channel /\ p[2] = s /\ p[2] = t
    BY <2>3 DEF Pairs
  <2> QED
    BY <2>3, <2>4
<1>11. \A p : (\E m \in base : p \in Pairs(m)) <=> p \in BaseChannels \X some
  <2> TAKE p
  <2>1. ASSUME NEW m \in base, p \in Pairs(m) PROVE p \in BaseChannels \X some
    BY <2>1 DEF Pairs
  <2>2. ASSUME p \in BaseChannels \X some PROVE \E m \in base : p \in Pairs(m)
    <3> DEFINE m == [channel |-> p[1], symbols |-> some]
    <3>1. m \in base /\ p \in Pairs(m)
      BY <2>2 DEF Pairs
    <3> HIDE DEF m
    <3> QED
      BY <3>1
  <2> QED
    BY <2>1, <2>2
<1>12. \A p : (\E m \in extra : p \in Pairs(m))
              <=> \E s \in some : p \in ExtraChannels(s, ext) \X {s}
  <2> TAKE p
  <2>1. ASSUME NEW m \in extra, p \in Pairs(m)
        PROVE  \E s \in some : p \in ExtraChannels(s, ext) \X {s}
    <3>1. PICK s \in some : m \in [channel : ExtraChannels(s, ext), symbols : {{s}}]
      OBVIOUS
    <3> QED
      BY <2>1, <3>1 DEF Pairs
  <2>2. ASSUME NEW s \in some, p \in ExtraChannels(s, ext) \X {s}
        PROVE  \E m \in extra : p \in Pairs(m)
    <3> DEFINE m == [channel |-> p[1], symbols |-> {s}]
    <3>1. m \in [channel : ExtraChannels(s, ext), symbols : {{s}}] /\ p \in Pairs(m)
      BY <2>2 DEF Pairs
    <3> HIDE DEF m
    <3> QED
      BY <3>1
  <2> QED
    BY <2>1, <2>2
<1> HIDE DEF base, extra
<1>13. CASE some = {}
  <2>1. Messages(some, ext) = <<>>
    BY <1>13 DEF Messages
  <2> QED
    BY <1>13, <2>1, NoMessages, EmptySeq
<1>14. CASE some # {}
  <2>1. Messages(some, ext) = SetToSeq(base) \o SetToSeq(extra)
    BY <1>14 DEF Messages, base, extra
  <2>2. /\ SetToSeq(base) \in Seq(Message) /\ Apart(SetToSeq(base))
        /\ \A p : p \in Subscribes(SetToSeq(base)) <=> p \in BaseChannels \X some
    BY <1>6, <1>8, <1>9, <1>11, SubscribesOfSet
  <2>3. /\ SetToSeq(extra) \in Seq(Message) /\ Apart(SetToSeq(extra))
        /\ \A p : p \in Subscribes(SetToSeq(extra))
                  <=> \E s \in some : p \in ExtraChannels(s, ext) \X {s}
    BY <1>7, <1>8, <1>10, <1>12, SubscribesOfSet
  <2>4. \A s : ExtraChannels(s, ext) \subseteq Channels \ BaseChannels
    BY DEF ExtraChannels, Channels, BaseChannels
  <2>5. Subscribes(SetToSeq(base)) \intersect Subscribes(SetToSeq(extra)) = {}
    BY <2>2, <2>3, <2>4
  <2>6. /\ Messages(some, ext) \in Seq(Message)
        /\ Apart(Messages(some, ext))
        /\ Subscribes(Messages(some, ext))
              = Subscribes(SetToSeq(base)) \union Subscribes(SetToSeq(extra))
    BY <2>1, <2>2, <2>3, <2>5, SubscribesConcat
  <2>7. BaseChannels \X some \subseteq Subscribes(Messages(some, ext))
    BY <2>2, <2>6
  <2>8. Subscribes(Messages(some, ext)) \subseteq Channels \X some
    BY <2>2, <2>3, <2>4, <2>6 DEF Channels
  <2>9. {"funding-rate"} \X (some \intersect ext) \subseteq Subscribes(Messages(some, ext))
    <3>1. \A s \in some \intersect ext : "funding-rate" \in ExtraChannels(s, ext)
      BY DEF ExtraChannels
    <3> QED
      BY <2>3, <2>6, <3>1
  <2> QED
    BY <2>6, <2>7, <2>8, <2>9
<1> QED
  BY <1>13, <1>14

-----------------------------------------------------------------------------
(* The inductive invariant. *)

\* The symbols known are in one place each, there are streams for all of them, and those
\* that the exchange made known are known for what they are.
SymbolsInv ==
    /\ \A s : s \in allSymbols <=> \E n \in DOMAIN symbols : symbols[n] = s
    /\ \A n, m \in DOMAIN symbols : symbols[n] = symbols[m] => n = m
    /\ Len(symbols) <= Len(status) * Limit
    /\ listed \subseteq allSymbols
    /\ listed \intersect Extended \subseteq extended

\* A stream asks for its slice and nothing else, once.
StreamInv(i) ==
    LET slice == Slice(symbols, i, 0) IN
    /\ Apart(queue[i])
    /\ Subscribes(queue[i]) \intersect asked[i] = {}
    /\ Covered(i) \subseteq Channels \X slice
    /\ status[i] = "READY" =>
        /\ BaseChannels \X slice \subseteq Covered(i)
        /\ {"funding-rate"} \X (slice \intersect listed \intersect Extended) \subseteq Covered(i)
    /\ status[i] # "READY" => queue[i] = <<>> /\ asked[i] = {}

IInv ==
    /\ TypeOK
    /\ SymbolsInv
    /\ \A i \in Streams : StreamInv(i)

LEMMA CoveredParts ==
    ASSUME NEW i
    PROVE  Covered(i) = asked[i] \union Subscribes(queue[i])
  BY DEF Covered, Queued, Subscribes, Pairs

\* What is in the types.
LEMMA StreamTypes ==
    ASSUME TypeOK
    PROVE  /\ Len(status) \in Nat /\ Streams = 1 .. Len(status)
           /\ status \in [Streams -> {"DISCONNECTED", "LOGIN_SENT", "READY"}]
           /\ queue \in [Streams -> Seq(Message)]
           /\ asked \in [Streams -> SUBSET (Channels \X Symbols)]
           /\ Len(symbols) \in Nat /\ DOMAIN symbols = 1 .. Len(symbols)
           /\ \A n \in DOMAIN symbols : symbols[n] \in Symbols
<1>1. /\ symbols \in Seq(Symbols)
      /\ status \in Seq({"DISCONNECTED", "LOGIN_SENT", "READY"})
      /\ queue \in Seq(Seq(Message))
      /\ asked \in Seq(SUBSET (Channels \X Symbols))
      /\ DOMAIN queue = Streams
      /\ DOMAIN asked = Streams
  BY DEF TypeOK
<1>2. /\ Len(status) \in Nat /\ Streams = 1 .. Len(status)
      /\ Len(symbols) \in Nat /\ DOMAIN symbols = 1 .. Len(symbols)
      /\ \A n \in DOMAIN symbols : symbols[n] \in Symbols
  BY <1>1, LenProperties, ElementOfSeq DEF Streams
<1>3. status \in [Streams -> {"DISCONNECTED", "LOGIN_SENT", "READY"}]
  BY <1>1, <1>2, LenProperties DEF Streams
<1>4. queue \in [Streams -> Seq(Message)]
  BY <1>1, LenProperties
<1>5. asked \in [Streams -> SUBSET (Channels \X Symbols)]
  BY <1>1, LenProperties
<1> QED
  BY <1>2, <1>3, <1>4, <1>5

\* A slice is of symbols.
LEMMA SliceIsSymbols ==
    ASSUME TypeOK, NEW i, NEW start
    PROVE  Slice(symbols, i, start) \in SUBSET Symbols
  BY SliceParts, StreamTypes

LEMMA InitIInv == Init => IInv
<1> SUFFICES ASSUME Init PROVE IInv
  OBVIOUS
<1>1. DOMAIN <<>> = {} /\ Len(<<>>) = 0
  BY EmptySeq, LenProperties
<1>2. TypeOK
  BY <1>1, EmptySeq DEF Init, TypeOK, Streams
<1>3. 0 * Limit = 0
  BY LimitAssumption DEF Limit
<1>4. SymbolsInv
  BY <1>1, <1>3 DEF Init, SymbolsInv
<1>5. \A i \in Streams : StreamInv(i)
  BY <1>1 DEF Init, Streams
<1> QED
  BY <1>2, <1>4, <1>5 DEF IInv

-----------------------------------------------------------------------------
(* Steps of one stream. *)

\* A stream keeps what is said of it when nothing of its own changes.
LEMMA StreamKept ==
    ASSUME NEW i, StreamInv(i),
           status'[i] = status[i], queue'[i] = queue[i], asked'[i] = asked[i],
           UNCHANGED <<symbols, listed>>
    PROVE  StreamInv(i)'
<1>1. Covered(i)' = Covered(i)
  BY CoveredParts DEF Covered, Queued
<1>2. Slice(symbols, i, 0)' = Slice(symbols, i, 0)
  BY DEF Slice
<1> QED
  BY <1>1, <1>2 DEF StreamInv

LEMMA StreamStep ==
    ASSUME IInv, NEW i \in Streams,
           NEW s \in {"DISCONNECTED", "LOGIN_SENT", "READY"},
           NEW q \in Seq(Message), NEW a \in SUBSET (Channels \X Symbols),
           status' = [status EXCEPT ![i] = s],
           queue' = [queue EXCEPT ![i] = q],
           asked' = [asked EXCEPT ![i] = a],
           disconnects' \in Nat,
           UNCHANGED <<allSymbols, extended, symbols, listed>>,
           StreamInv(i)'
    PROVE  IInv'
<1>1. /\ Len(status) \in Nat /\ Streams = 1 .. Len(status)
      /\ status \in [Streams -> {"DISCONNECTED", "LOGIN_SENT", "READY"}]
      /\ queue \in [Streams -> Seq(Message)]
      /\ asked \in [Streams -> SUBSET (Channels \X Symbols)]
  BY StreamTypes DEF IInv
<1>2. /\ status' \in [1 .. Len(status) -> {"DISCONNECTED", "LOGIN_SENT", "READY"}]
      /\ queue' \in [1 .. Len(status) -> Seq(Message)]
      /\ asked' \in [1 .. Len(status) -> SUBSET (Channels \X Symbols)]
  BY <1>1
<1>3. /\ status' \in Seq({"DISCONNECTED", "LOGIN_SENT", "READY"}) /\ Len(status') = Len(status)
      /\ queue' \in Seq(Seq(Message))
      /\ asked' \in Seq(SUBSET (Channels \X Symbols))
  <2>1. status' \in Seq({"DISCONNECTED", "LOGIN_SENT", "READY"}) /\ Len(status') = Len(status)
    BY <1>1, <1>2, FunctionIsSeq
  <2>2. queue' \in Seq(Seq(Message))
    BY <1>1, <1>2, FunctionIsSeq
  <2>3. asked' \in Seq(SUBSET (Channels \X Symbols))
    BY <1>1, <1>2, FunctionIsSeq
  <2> QED
    BY <2>1, <2>2, <2>3
<1>4. DOMAIN status' = 1 .. Len(status) /\ Streams' = Streams
  BY <1>1, <1>2 DEF Streams
<1>5. TypeOK'
  BY <1>1, <1>2, <1>3, <1>4 DEF TypeOK, IInv, Message, Channels
<1>6. SymbolsInv'
  BY <1>3 DEF SymbolsInv, IInv
<1>7. ASSUME NEW j \in Streams, j # i PROVE StreamInv(j)'
  <2>1. status'[j] = status[j] /\ queue'[j] = queue[j] /\ asked'[j] = asked[j]
    BY <1>1, <1>7
  <2>2. StreamInv(j)
    BY <1>7 DEF IInv
  <2> QED
    BY <2>1, <2>2, StreamKept
<1>8. \A j \in Streams : StreamInv(j)'
  BY <1>7
<1> QED
  BY <1>4, <1>5, <1>6, <1>8 DEF IInv

\* A stream that becomes READY asks for its whole slice.
LEMMA DoneIInv ==
    ASSUME IInv, NEW i \in Streams, status[i] # "READY", Done(i),
           UNCHANGED <<allSymbols, extended, symbols, asked, listed, disconnects>>
    PROVE  IInv'
<1> DEFINE slice == Slice(symbols, i, 0)
           q == Messages(slice, extended)
<1>1. /\ queue \in [Streams -> Seq(Message)]
      /\ asked \in [Streams -> SUBSET (Channels \X Symbols)]
      /\ status \in [Streams -> {"DISCONNECTED", "LOGIN_SENT", "READY"}]
      /\ slice \in SUBSET Symbols
  BY StreamTypes, SliceIsSymbols DEF IInv
<1>2. queue[i] = <<>> /\ asked[i] = {}
  BY DEF IInv, StreamInv
<1>3. listed \intersect Extended \subseteq extended
  BY DEF IInv, SymbolsInv
<1> HIDE DEF slice
<1>4. /\ q \in Seq(Message)
      /\ Apart(q)
      /\ Subscribes(q) \subseteq Channels \X slice
      /\ BaseChannels \X slice \subseteq Subscribes(q)
      /\ {"funding-rate"} \X (slice \intersect extended) \subseteq Subscribes(q)
  BY <1>1, MessagesParts
<1>5. /\ status' = [status EXCEPT ![i] = "READY"]
      /\ queue' = [queue EXCEPT ![i] = <<>> \o q]
  BY <1>1, <1>2 DEF Done, slice
<1> HIDE DEF q
<1>6. <<>> \o q = q
  BY <1>4, ConcatEmptySeq
<1>7. asked' = [asked EXCEPT ![i] = {}]
  BY <1>1, <1>2
<1>8. queue'[i] = q /\ asked'[i] = {} /\ status'[i] = "READY"
  BY <1>1, <1>5, <1>6, <1>7
<1>9. StreamInv(i)'
  <2>1. Covered(i)' = Subscribes(q)
    BY <1>8, CoveredParts DEF Covered, Queued, Subscribes, Pairs
  <2>2. Slice(symbols, i, 0)' = slice
    BY DEF Slice, slice
  <2>3. slice \intersect listed \intersect Extended \subseteq slice \intersect extended
    BY <1>3
  <2>4. {"funding-rate"} \X (slice \intersect listed \intersect Extended) \subseteq Subscribes(q)
    BY <1>4, <2>3
  <2> QED
    BY <1>4, <1>8, <2>1, <2>2, <2>4 DEF StreamInv
<1>10. disconnects' \in Nat /\ {} \in SUBSET (Channels \X Symbols)
  BY DEF IInv, TypeOK
<1>11. queue' = [queue EXCEPT ![i] = q]
  BY <1>5, <1>6
<1> QED
  BY <1>4, <1>5, <1>7, <1>9, <1>10, <1>11, StreamStep

LEMMA ReadyIInv ==
    ASSUME IInv, NEW i \in Streams, Ready(i)
    PROVE  IInv'
<1>1. CASE Login
  <2>1. /\ status[i] = "DISCONNECTED"
        /\ status' = [status EXCEPT ![i] = "LOGIN_SENT"]
        /\ UNCHANGED <<queue, allSymbols, extended, symbols, asked, listed, disconnects>>
    BY <1>1 DEF Ready
  <2>2. /\ queue \in [Streams -> Seq(Message)]
        /\ asked \in [Streams -> SUBSET (Channels \X Symbols)]
        /\ status \in [Streams -> {"DISCONNECTED", "LOGIN_SENT", "READY"}]
    BY StreamTypes DEF IInv
  <2>3. StreamInv(i) /\ queue[i] = <<>> /\ asked[i] = {}
    BY <2>1 DEF IInv, StreamInv
  <2>4. StreamInv(i)'
    <3>1. status'[i] = "LOGIN_SENT"
      BY <2>1, <2>2
    <3>2. Covered(i)' = Covered(i)
      BY <2>1 DEF Covered, Queued
    <3>3. Slice(symbols, i, 0)' = Slice(symbols, i, 0)
      BY <2>1 DEF Slice
    <3> QED
      BY <2>1, <2>3, <3>1, <3>2, <3>3 DEF StreamInv
  <2>5. /\ queue' = [queue EXCEPT ![i] = queue[i]]
        /\ asked' = [asked EXCEPT ![i] = asked[i]]
        /\ queue[i] \in Seq(Message) /\ asked[i] \in SUBSET (Channels \X Symbols)
    BY <2>1, <2>2
  <2>6. disconnects' \in Nat
    BY <2>1 DEF IInv, TypeOK
  <2> QED
    BY <2>1, <2>4, <2>5, <2>6, StreamStep
<1>2. CASE ~Login
  BY <1>2, DoneIInv DEF Ready
<1> QED
  BY <1>1, <1>2

LEMMA TimerIInv ==
    ASSUME IInv, NEW i \in Streams, Timer(i)
    PROVE  IInv'
<1> DEFINE m == Head(queue[i])
           q == Tail(queue[i])
           a == asked[i] \union Pairs(m)
<1>1. /\ status[i] = "READY" /\ queue[i] # <<>>
      /\ asked' = [asked EXCEPT ![i] = a]
      /\ queue' = [queue EXCEPT ![i] = q]
      /\ UNCHANGED <<allSymbols, extended, symbols, status, listed, disconnects>>
  BY DEF Timer, Pairs
<1>2. /\ queue \in [Streams -> Seq(Message)]
      /\ asked \in [Streams -> SUBSET (Channels \X Symbols)]
      /\ status \in [Streams -> {"DISCONNECTED", "LOGIN_SENT", "READY"}]
      /\ StreamInv(i)
  BY StreamTypes DEF IInv
<1>3. /\ m \in Message /\ q \in Seq(Message)
      /\ Subscribes(queue[i]) = Pairs(m) \union Subscribes(q)
      /\ Apart(queue[i]) => Apart(q) /\ Pairs(m) \intersect Subscribes(q) = {}
  BY <1>1, <1>2, SubscribesTail
<1> HIDE DEF m, q
<1>4. a \in SUBSET (Channels \X Symbols)
  BY <1>2, <1>3 DEF Message, Pairs
<1>5. queue'[i] = q /\ asked'[i] = a /\ status'[i] = "READY"
  BY <1>1, <1>2
<1>6. Covered(i)' = Covered(i)
  <2>1. Covered(i)' = asked'[i] \union Subscribes(queue'[i])
    BY DEF Covered, Queued, Subscribes, Pairs
  <2> QED
    BY <1>3, <1>5, <2>1, CoveredParts
<1>7. Slice(symbols, i, 0)' = Slice(symbols, i, 0)
  BY <1>1 DEF Slice
<1>8. StreamInv(i)'
  <2>1. Apart(q) /\ Subscribes(q) \intersect a = {}
    BY <1>2, <1>3 DEF StreamInv
  <2> QED
    BY <1>1, <1>2, <1>5, <1>6, <1>7, <2>1 DEF StreamInv
<1>9. status' = [status EXCEPT ![i] = "READY"]
  BY <1>1, <1>2
<1>10. disconnects' \in Nat
  BY <1>1 DEF IInv, TypeOK
<1> HIDE DEF a
<1> QED
  BY <1>1, <1>3, <1>4, <1>8, <1>9, <1>10, StreamStep

LEMMA DisconnectedIInv ==
    ASSUME IInv, NEW i \in Streams, Disconnected(i)
    PROVE  IInv'
<1>1. /\ status' = [status EXCEPT ![i] = "DISCONNECTED"]
      /\ queue' = [queue EXCEPT ![i] = <<>>]
      /\ asked' = [asked EXCEPT ![i] = {}]
      /\ disconnects' \in Nat
      /\ UNCHANGED <<allSymbols, extended, symbols, listed>>
  BY DEF Disconnected, IInv, TypeOK
<1>2. /\ queue \in [Streams -> Seq(Message)]
      /\ asked \in [Streams -> SUBSET (Channels \X Symbols)]
      /\ status \in [Streams -> {"DISCONNECTED", "LOGIN_SENT", "READY"}]
  BY StreamTypes DEF IInv
<1>3. queue'[i] = <<>> /\ asked'[i] = {} /\ status'[i] = "DISCONNECTED"
  BY <1>1, <1>2
<1>4. StreamInv(i)'
  <2>1. Covered(i)' = asked'[i] \union Subscribes(queue'[i])
    BY DEF Covered, Queued, Subscribes, Pairs
  <2> QED
    BY <1>3, <2>1, NoMessages DEF StreamInv
<1>5. <<>> \in Seq(Message) /\ {} \in SUBSET (Channels \X Symbols)
  BY EmptySeq
<1> QED
  BY <1>1, <1>4, <1>5, StreamStep

LEMMA LoginAckIInv ==
    ASSUME IInv, NEW i \in Streams, LoginAck(i)
    PROVE  IInv'
  BY DoneIInv DEF LoginAck

-----------------------------------------------------------------------------
(* Symbols become known. *)

LEMMA ConcatPlaces ==
    ASSUME NEW S, NEW s \in Seq(S), NEW t \in Seq(S)
    PROVE  /\ s \o t \in Seq(S)
           /\ Len(s \o t) \in Nat /\ DOMAIN (s \o t) = 1 .. Len(s \o t)
           /\ \A n \in DOMAIN s : n \in DOMAIN (s \o t) /\ (s \o t)[n] = s[n]
           /\ \A n \in DOMAIN (s \o t) : n \notin DOMAIN s =>
                /\ n > Len(s)
                /\ n - Len(s) \in DOMAIN t
                /\ (s \o t)[n] = t[n - Len(s)]
           /\ \A n \in DOMAIN t : n + Len(s) \in DOMAIN (s \o t) /\ (s \o t)[n + Len(s)] = t[n]
<1>1. /\ Len(s) \in Nat /\ DOMAIN s = 1 .. Len(s)
      /\ Len(t) \in Nat /\ DOMAIN t = 1 .. Len(t)
      /\ s \o t \in Seq(S) /\ Len(s \o t) = Len(s) + Len(t)
      /\ DOMAIN (s \o t) = 1 .. (Len(s) + Len(t))
  BY LenProperties, ConcatProperties
<1>2. \A n \in DOMAIN s : n \in DOMAIN (s \o t) /\ (s \o t)[n] = s[n]
  BY <1>1, ConcatProperties
<1>3. \A n \in DOMAIN (s \o t) : n \notin DOMAIN s =>
        n > Len(s) /\ n - Len(s) \in DOMAIN t /\ (s \o t)[n] = t[n - Len(s)]
  BY <1>1, ConcatProperties
<1>4. \A n \in DOMAIN t : n + Len(s) \in DOMAIN (s \o t) /\ (s \o t)[n + Len(s)] = t[n]
  BY <1>1, ConcatProperties
<1>5. Len(s \o t) \in Nat /\ DOMAIN (s \o t) = 1 .. Len(s \o t)
  BY <1>1
<1> QED
  BY <1>1, <1>2, <1>3, <1>4, <1>5

\* The old symbols in their places, then those added, each once.
With(added, all) ==
    /\ all \in Seq(Symbols) /\ Len(all) \in Nat /\ DOMAIN all = 1 .. Len(all)
    /\ \A n \in DOMAIN symbols : n \in DOMAIN all /\ all[n] = symbols[n]
    /\ \A n \in DOMAIN all : n \notin DOMAIN symbols => n > Len(symbols) /\ all[n] \in added
    /\ \A s \in added : \E n \in DOMAIN all : all[n] = s
    /\ \A n, m \in DOMAIN all : all[n] = all[m] => n = m

LEMMA NewSymbols ==
    ASSUME IInv, NEW added \in SUBSET Symbols, added \intersect allSymbols = {}
    PROVE  With(added, symbols \o SetToSeq(added))
<1> DEFINE new == SetToSeq(added)
           all == symbols \o new
<1>1. IsFiniteSet(added)
  BY SymbolsAssumption, FS_Subset
<1>2. /\ new \in Seq(added)
      /\ \A n, m \in DOMAIN new : new[n] = new[m] => n = m
      /\ \A x \in added : \E n \in DOMAIN new : new[n] = x
  BY <1>1, SetAsSeq
<1> HIDE DEF new
<1>3. /\ Len(new) \in Nat /\ DOMAIN new = 1 .. Len(new)
      /\ \A n \in DOMAIN new : new[n] \in added
  BY <1>2, ElementOfSeq, LenProperties
<1>4. new \in Seq(Symbols)
  <2>1. new \in [1 .. Len(new) -> Symbols]
    BY <1>2, <1>3, LenProperties
  <2> QED
    BY <1>3, <2>1, FunctionIsSeq
<1>5. /\ symbols \in Seq(Symbols) /\ Len(symbols) \in Nat /\ DOMAIN symbols = 1 .. Len(symbols)
      /\ \A n, m \in DOMAIN symbols : symbols[n] = symbols[m] => n = m
      /\ \A n \in DOMAIN symbols : symbols[n] \in allSymbols
  <2>1. TypeOK /\ SymbolsInv
    BY DEF IInv
  <2> QED
    BY <2>1, StreamTypes DEF TypeOK, SymbolsInv
<1>6. /\ all \in Seq(Symbols)
      /\ Len(all) \in Nat /\ DOMAIN all = 1 .. Len(all)
      /\ \A n \in DOMAIN symbols : n \in DOMAIN all /\ all[n] = symbols[n]
      /\ \A n \in DOMAIN all : n \notin DOMAIN symbols =>
            n > Len(symbols) /\ n - Len(symbols) \in DOMAIN new /\ all[n] = new[n - Len(symbols)]
      /\ \A n \in DOMAIN new : n + Len(symbols) \in DOMAIN all /\ all[n + Len(symbols)] = new[n]
  BY <1>4, <1>5, ConcatPlaces
<1> HIDE DEF all
<1>7. \A s \in added : \E n \in DOMAIN all : all[n] = s
  <2> SUFFICES ASSUME NEW s \in added PROVE \E n \in DOMAIN all : all[n] = s
    OBVIOUS
  <2>1. PICK n \in DOMAIN new : new[n] = s
    BY <1>2
  <2> QED
    BY <1>6, <2>1
<1>8. \A n \in DOMAIN all : n \notin DOMAIN symbols => n > Len(symbols) /\ all[n] \in added
  BY <1>3, <1>6
<1>9. ASSUME NEW n \in DOMAIN all, NEW m \in DOMAIN all, all[n] = all[m] PROVE n = m
  <2>1. CASE n \in DOMAIN symbols /\ m \in DOMAIN symbols
    BY <1>5, <1>6, <1>9, <2>1
  <2>2. CASE n \notin DOMAIN symbols /\ m \notin DOMAIN symbols
    <3>1. n - Len(symbols) = m - Len(symbols)
      BY <1>2, <1>6, <1>9, <2>2
    <3>2. n \in Nat /\ m \in Nat
      BY <1>6
    <3> QED
      BY <1>5, <3>1, <3>2
  <2>3. CASE n \in DOMAIN symbols /\ m \notin DOMAIN symbols
    <3>1. all[n] \in allSymbols /\ all[m] \in added
      BY <1>5, <1>6, <1>8, <2>3
    <3> QED
      BY <1>9, <3>1
  <2>4. CASE n \notin DOMAIN symbols /\ m \in DOMAIN symbols
    <3>1. all[m] \in allSymbols /\ all[n] \in added
      BY <1>5, <1>6, <1>8, <2>4
    <3> QED
      BY <1>9, <3>1
  <2> QED
    BY <2>1, <2>2, <2>3, <2>4
<1>10. With(added, all)
  BY <1>6, <1>7, <1>8, <1>9 DEF With
<1> QED
  BY <1>10 DEF all, new

\* A slice is what it was and the additions to it, which were not known before.
LEMMA NewSlice ==
    ASSUME IInv, NEW added, NEW all, With(added, all), NEW i
    PROVE  /\ Slice(all, i, 0) = Slice(symbols, i, 0) \union Slice(all, i, Len(symbols))
           /\ Slice(symbols, i, 0) \subseteq allSymbols
           /\ Slice(all, i, Len(symbols)) \subseteq added
<1>1. /\ Len(all) \in Nat /\ DOMAIN all = 1 .. Len(all)
      /\ \A n \in DOMAIN symbols : n \in DOMAIN all /\ all[n] = symbols[n]
      /\ \A n \in DOMAIN all : n \notin DOMAIN symbols =>
            n > Len(symbols) /\ all[n] \in added
  BY DEF With
<1>2. /\ Len(symbols) \in Nat /\ DOMAIN symbols = 1 .. Len(symbols)
      /\ \A n \in DOMAIN symbols : symbols[n] \in allSymbols
  BY StreamTypes DEF IInv, SymbolsInv
<1>3. Slice(symbols, i, 0) \subseteq allSymbols
  BY <1>2, SliceParts
<1>4. \A n \in DOMAIN all : n > Len(symbols) => n \notin DOMAIN symbols
  BY <1>1, <1>2
<1>5. Slice(all, i, Len(symbols)) \subseteq added
  <2> SUFFICES ASSUME NEW s \in Slice(all, i, Len(symbols)) PROVE s \in added
    OBVIOUS
  <2>1. PICK n \in DOMAIN all : n > Len(symbols) /\ InSlice(n, i) /\ s = all[n]
    BY SliceParts
  <2> QED
    BY <1>1, <1>4, <2>1
<1>6. ASSUME NEW s \in Slice(all, i, 0)
      PROVE  s \in Slice(symbols, i, 0) \union Slice(all, i, Len(symbols))
  <2>1. PICK n \in DOMAIN all : n > 0 /\ InSlice(n, i) /\ s = all[n]
    BY <1>6, SliceParts
  <2>2. CASE n \in DOMAIN symbols
    <3>1. s = symbols[n]
      BY <1>1, <2>1, <2>2
    <3> QED
      BY <2>1, <2>2, <3>1, SliceParts
  <2>3. CASE n \notin DOMAIN symbols
    <3>1. n > Len(symbols)
      BY <1>1, <2>3
    <3> QED
      BY <2>1, <3>1, SliceParts
  <2> QED
    BY <2>2, <2>3
<1>7. ASSUME NEW s \in Slice(symbols, i, 0) PROVE s \in Slice(all, i, 0)
  <2>1. PICK n \in DOMAIN symbols : n > 0 /\ InSlice(n, i) /\ s = symbols[n]
    BY <1>7, SliceParts
  <2>2. n \in DOMAIN all /\ s = all[n]
    BY <1>1, <2>1
  <2> QED
    BY <2>1, <2>2, SliceParts
<1>8. ASSUME NEW s \in Slice(all, i, Len(symbols)) PROVE s \in Slice(all, i, 0)
  <2>1. PICK n \in DOMAIN all : n > Len(symbols) /\ InSlice(n, i) /\ s = all[n]
    BY <1>8, SliceParts
  <2>2. n > 0
    BY <1>1, <1>2, <2>1
  <2> QED
    BY <2>1, <2>2, SliceParts
<1> QED
  BY <1>3, <1>5, <1>6, <1>7, <1>8

\* A READY stream that asks for the additions to its slice has asked for all of it.
LEMMA AskedForAdditions ==
    ASSUME IInv, NEW added \in SUBSET Symbols, added \intersect allSymbols = {},
           NEW all, With(added, all), NEW ext, NEW i \in Streams, status[i] = "READY",
           symbols' = all, status'[i] = "READY", asked'[i] = asked[i],
           queue'[i] = queue[i] \o Messages(Slice(all, i, Len(symbols)), ext),
           listed' \intersect allSymbols \subseteq listed,
           listed' \intersect Extended \intersect added \subseteq ext
    PROVE  queue'[i] \in Seq(Message) /\ StreamInv(i)'
<1> DEFINE slice == Slice(symbols, i, 0)
           more == Slice(all, i, Len(symbols))
           q == Messages(more, ext)
<1>1. /\ queue[i] \in Seq(Message)
      /\ StreamInv(i)
  BY StreamTypes DEF IInv
<1>2. /\ Slice(all, i, 0) = slice \union more
      /\ slice \subseteq allSymbols
      /\ more \subseteq added
  BY NewSlice
<1>3. Covered(i) = asked[i] \union Subscribes(queue[i])
  BY CoveredParts
<1> HIDE DEF slice, more
<1>4. /\ q \in Seq(Message)
      /\ Apart(q)
      /\ Subscribes(q) \subseteq Channels \X more
      /\ BaseChannels \X more \subseteq Subscribes(q)
      /\ {"funding-rate"} \X (more \intersect ext) \subseteq Subscribes(q)
  BY <1>2, MessagesParts
<1>5. queue'[i] = queue[i] \o q
  BY DEF more
<1> HIDE DEF q
<1>6. /\ Apart(queue[i])
      /\ Subscribes(queue[i]) \intersect asked[i] = {}
      /\ Covered(i) \subseteq Channels \X slice
      /\ BaseChannels \X slice \subseteq Covered(i)
      /\ {"funding-rate"} \X (slice \intersect listed \intersect Extended) \subseteq Covered(i)
  BY <1>1 DEF StreamInv, slice
<1>7. slice \intersect more = {}
  BY <1>2
<1>8. Subscribes(q) \intersect Covered(i) = {}
  BY <1>4, <1>6, <1>7
<1>9. /\ queue'[i] \in Seq(Message)
      /\ Subscribes(queue'[i]) = Subscribes(queue[i]) \union Subscribes(q)
      /\ Apart(queue'[i])
  BY <1>1, <1>3, <1>4, <1>5, <1>6, <1>8, SubscribesConcat
<1>10. Covered(i)' = Covered(i) \union Subscribes(q)
  <2>1. Covered(i)' = asked'[i] \union Subscribes(queue'[i])
    BY DEF Covered, Queued, Subscribes, Pairs
  <2> QED
    BY <1>3, <1>9, <2>1
<1>11. Slice(symbols, i, 0)' = slice \union more
  <2>1. Slice(symbols, i, 0)' = Slice(all, i, 0)
    BY DEF Slice
  <2> QED
    BY <1>2, <2>1
<1>12. /\ Subscribes(queue'[i]) \intersect asked'[i] = {}
       /\ Covered(i)' \subseteq Channels \X (slice \union more)
       /\ BaseChannels \X (slice \union more) \subseteq Covered(i)'
  BY <1>3, <1>4, <1>6, <1>8, <1>9, <1>10
<1>13. {"funding-rate"} \X ((slice \union more) \intersect listed' \intersect Extended)
          \subseteq Covered(i)'
  <2>1. slice \intersect listed' \intersect Extended \subseteq slice \intersect listed \intersect Extended
    BY <1>2
  <2>2. more \intersect listed' \intersect Extended \subseteq more \intersect ext
    BY <1>2
  <2> QED
    BY <1>4, <1>6, <1>10, <2>1, <2>2
<1> QED
  BY <1>9, <1>11, <1>12, <1>13 DEF StreamInv

\* A stream that is not READY is told nothing.
LEMMA NothingToAsk ==
    ASSUME NEW i, status'[i] # "READY", queue'[i] = <<>>, asked'[i] = {}
    PROVE  StreamInv(i)'
<1>1. Covered(i)' = asked'[i] \union Subscribes(queue'[i])
  BY DEF Covered, Queued, Subscribes, Pairs
<1> QED
  BY <1>1, NoMessages DEF StreamInv

LEMMA UpdateIInv ==
    ASSUME IInv, NEW some \in SUBSET Symbols, NEW ext,
           SymbolsUpdate(SetToSeq(some \ allSymbols), ext),
           allSymbols' = allSymbols \union some,
           extended' \subseteq Extended,
           listed' \subseteq allSymbols', listed' \intersect allSymbols \subseteq listed,
           listed' \intersect Extended \subseteq extended',
           listed' \intersect Extended \intersect (some \ allSymbols) \subseteq ext,
           disconnects' = disconnects
    PROVE  IInv'
<1> DEFINE added == some \ allSymbols
           all == symbols \o SetToSeq(added)
           k == IF Slices(all) > Len(status) THEN Slices(all) ELSE Len(status)
           Q(i) == queue[i] \o Messages(Slice(all, i, Len(symbols)), ext)
<1>1. /\ added \in SUBSET Symbols /\ added \intersect allSymbols = {}
      /\ With(added, all)
  BY NewSymbols
<1>2. /\ symbols' = all
      /\ status' = [i \in 1 .. k |-> IF i \in Streams THEN status[i] ELSE "DISCONNECTED"]
      /\ asked' = [i \in 1 .. k |-> IF i \in Streams THEN asked[i] ELSE {}]
      /\ queue' = [i \in 1 .. k |->
            CASE i \notin Streams -> <<>>
              [] i \in Streams /\ status[i] = "READY" -> Q(i)
              [] OTHER -> queue[i]]
  BY DEF SymbolsUpdate
<1>3. /\ listed' \intersect Extended \intersect added \subseteq ext
      /\ allSymbols' = allSymbols \union added
  OBVIOUS
<1>4. /\ Len(status) \in Nat /\ Streams = 1 .. Len(status)
      /\ status \in [Streams -> {"DISCONNECTED", "LOGIN_SENT", "READY"}]
      /\ queue \in [Streams -> Seq(Message)]
      /\ asked \in [Streams -> SUBSET (Channels \X Symbols)]
      /\ Len(symbols) \in Nat /\ DOMAIN symbols = 1 .. Len(symbols)
  BY StreamTypes DEF IInv
<1> HIDE DEF added, all
<1>5. all \in Seq(Symbols) /\ Len(all) \in Nat
  BY <1>1 DEF With
<1>6. k \in Nat /\ Len(status) <= k /\ Len(all) <= k * Limit
  <2>1. Slices(all) \in Nat /\ Len(all) <= Slices(all) * Limit
    BY <1>5, EnoughSlices
  <2>2. k \in Nat /\ Len(status) <= k /\ Slices(all) <= k
    BY <1>4, <2>1
  <2> HIDE DEF k
  <2>3. Slices(all) * Limit <= k * Limit /\ Slices(all) * Limit \in Nat /\ k * Limit \in Nat
    BY <2>1, <2>2, LimitGrows
  <2> QED
    BY <1>5, <2>1, <2>2, <2>3
<1> HIDE DEF k
<1>7. \A i \in Streams : i \in 1 .. k
  BY <1>4, <1>6
<1>8. ASSUME NEW i \in Streams, status[i] = "READY"
      PROVE  queue'[i] \in Seq(Message) /\ StreamInv(i)'
  <2>1. status'[i] = "READY" /\ asked'[i] = asked[i] /\ queue'[i] = Q(i)
    BY <1>2, <1>7, <1>8
  <2> QED
    BY <1>1, <1>2, <1>3, <1>8, <2>1, AskedForAdditions
<1>9. ASSUME NEW i \in Streams, status[i] # "READY"
      PROVE  queue'[i] = <<>> /\ StreamInv(i)'
  <2>1. queue[i] = <<>> /\ asked[i] = {}
    BY <1>9 DEF IInv, StreamInv
  <2>2. status'[i] = status[i] /\ asked'[i] = asked[i] /\ queue'[i] = queue[i]
    BY <1>2, <1>7, <1>9
  <2> QED
    BY <1>9, <2>1, <2>2, NothingToAsk
<1>10. ASSUME NEW i \in 1 .. k, i \notin Streams
       PROVE  queue'[i] = <<>> /\ StreamInv(i)'
  <2>1. status'[i] = "DISCONNECTED" /\ asked'[i] = {} /\ queue'[i] = <<>>
    BY <1>2, <1>10
  <2> QED
    BY <2>1, NothingToAsk
<1>11. \A i \in 1 .. k : queue'[i] \in Seq(Message) /\ StreamInv(i)'
  <2>1. <<>> \in Seq(Message)
    BY EmptySeq
  <2> QED
    BY <1>8, <1>9, <1>10, <2>1
<1>12. status' \in Seq({"DISCONNECTED", "LOGIN_SENT", "READY"}) /\ Len(status') = k
  <2>1. status' \in [1 .. k -> {"DISCONNECTED", "LOGIN_SENT", "READY"}]
    BY <1>2, <1>4
  <2> QED
    BY <1>6, <2>1, FunctionIsSeq
<1>13. asked' \in Seq(SUBSET (Channels \X Symbols))
  <2>1. asked' \in [1 .. k -> SUBSET (Channels \X Symbols)]
    BY <1>2, <1>4
  <2> QED
    BY <1>6, <2>1, FunctionIsSeq
<1>14. DOMAIN queue' = 1 .. k /\ DOMAIN asked' = 1 .. k /\ Streams' = 1 .. k
  BY <1>2 DEF Streams
<1>15. queue' \in Seq(Seq(Message))
  <2>1. queue' = [i \in 1 .. k |-> queue'[i]]
    BY <1>2
  <2>2. queue' \in [1 .. k -> Seq(Message)]
    BY <1>11, <2>1
  <2> QED
    BY <1>6, <2>2, FunctionIsSeq
<1>16. TypeOK'
  <2>1. allSymbols' \subseteq Symbols /\ listed' \subseteq Symbols /\ disconnects' \in Nat
    BY DEF IInv, TypeOK
  <2>2. Message' = Message
    BY DEF Message
  <2> QED
    BY <1>2, <1>5, <1>12, <1>13, <1>14, <1>15, <2>1, <2>2 DEF TypeOK
<1>17. SymbolsInv'
  <2>1. /\ \A n \in DOMAIN symbols : n \in DOMAIN all /\ all[n] = symbols[n]
        /\ \A n \in DOMAIN all : n \notin DOMAIN symbols => all[n] \in added
        /\ \A s \in added : \E n \in DOMAIN all : all[n] = s
        /\ \A n, m \in DOMAIN all : all[n] = all[m] => n = m
    BY <1>1 DEF With
  <2>2. \A s : s \in allSymbols <=> \E n \in DOMAIN symbols : symbols[n] = s
    BY DEF IInv, SymbolsInv
  <2>3. \A s : s \in allSymbols' <=> \E n \in DOMAIN all : all[n] = s
    BY <1>3, <2>1, <2>2
  <2> QED
    BY <1>2, <1>6, <1>12, <2>1, <2>3 DEF SymbolsInv
<1>18. \A i \in Streams' : StreamInv(i)'
  BY <1>11, <1>14
<1> QED
  BY <1>16, <1>17, <1>18 DEF IInv

LEMMA SubscribeIInv ==
    ASSUME IInv, NEW some \in SUBSET Symbols, Subscribe(some)
    PROVE  IInv'
<1>1. /\ allSymbols' = allSymbols \union some
      /\ SymbolsUpdate(SetToSeq(some \ allSymbols), extended)
      /\ extended' = extended /\ listed' = listed /\ disconnects' = disconnects
  BY DEF Subscribe
<1>2. listed \subseteq allSymbols /\ listed \intersect Extended \subseteq extended
  BY DEF IInv, SymbolsInv
<1>3. extended \subseteq Extended
  BY DEF IInv, TypeOK
<1>4. /\ extended' \subseteq Extended
      /\ listed' \subseteq allSymbols' /\ listed' \intersect allSymbols \subseteq listed
      /\ listed' \intersect Extended \subseteq extended'
      /\ listed' \intersect Extended \intersect (some \ allSymbols) \subseteq extended
  BY <1>1, <1>2, <1>3
<1> QED
  BY <1>1, <1>4, UpdateIInv

LEMMA InstrumentsIInv ==
    ASSUME IInv, NEW some \in SUBSET Symbols, Instruments(some)
    PROVE  IInv'
<1> DEFINE added == some \ allSymbols
           new == SetToSeq(added)
<1>1. /\ allSymbols' = allSymbols \union some
      /\ extended' = extended \union (some \intersect Extended)
      /\ listed' = listed \union added
      /\ disconnects' = disconnects
      /\ new # <<>> => SymbolsUpdate(new, extended')
      /\ new = <<>> => UNCHANGED <<symbols, streamVars>>
  BY DEF Instruments
<1>2. /\ listed \subseteq allSymbols /\ listed \intersect Extended \subseteq extended
      /\ extended \subseteq Extended
      /\ IsFiniteSet(added)
  BY SymbolsAssumption, FS_Subset DEF IInv, SymbolsInv, TypeOK
<1>3. /\ extended' \subseteq Extended
      /\ listed' \subseteq allSymbols' /\ listed' \intersect allSymbols \subseteq listed
      /\ listed' \intersect Extended \subseteq extended'
      /\ listed' \intersect Extended \intersect added \subseteq extended'
  BY <1>1, <1>2
<1>4. CASE new # <<>>
  BY <1>1, <1>3, <1>4, UpdateIInv
<1>5. CASE new = <<>>
  <2>1. added = {}
    <3>1. \A x \in added : \E n \in DOMAIN new : new[n] = x
      BY <1>2, SetAsSeq
    <3>2. DOMAIN new = {}
      BY <1>5, EmptySeq, LenProperties
    <3> HIDE DEF added, new
    <3> QED
      BY <3>1, <3>2
  <2>2. UNCHANGED <<allSymbols, symbols, status, queue, asked, listed, disconnects>>
    BY <1>1, <1>5, <2>1 DEF streamVars
  <2>3. TypeOK'
    BY <1>3, <2>2 DEF IInv, TypeOK, Streams, Message
  <2>4. SymbolsInv'
    BY <1>3, <2>2 DEF IInv, SymbolsInv
  <2>5. \A i \in Streams : StreamInv(i)'
    BY <2>2, StreamKept DEF IInv
  <2>6. Streams' = Streams
    BY <2>2 DEF Streams
  <2> QED
    BY <2>3, <2>4, <2>5, <2>6 DEF IInv
<1> QED
  BY <1>4, <1>5

-----------------------------------------------------------------------------
(* The theorems. *)

LEMMA NextIInv == IInv /\ [Next]_vars => IInv'
<1> SUFFICES ASSUME IInv, [Next]_vars PROVE IInv'
  OBVIOUS
<1>1. CASE \E some \in SUBSET Symbols : Subscribe(some)
  BY <1>1, SubscribeIInv
<1>2. CASE \E some \in SUBSET Symbols : Instruments(some)
  BY <1>2, InstrumentsIInv
<1>3. CASE \E i \in Streams : Ready(i)
  BY <1>3, ReadyIInv
<1>4. CASE \E i \in Streams : LoginAck(i)
  BY <1>4, LoginAckIInv
<1>5. CASE \E i \in Streams : Timer(i)
  BY <1>5, TimerIInv
<1>6. CASE \E i \in Streams : Disconnected(i)
  BY <1>6, DisconnectedIInv
<1>7. CASE UNCHANGED vars
  <2>1. UNCHANGED <<allSymbols, extended, symbols, status, queue, asked, listed, disconnects>>
    BY <1>7 DEF vars
  <2>2. TypeOK'
    BY <2>1 DEF IInv, TypeOK, Streams, Message
  <2>3. SymbolsInv'
    BY <2>1 DEF IInv, SymbolsInv
  <2>4. \A i \in Streams : StreamInv(i)'
    BY <2>1, StreamKept DEF IInv
  <2>5. Streams' = Streams
    BY <2>1 DEF Streams
  <2> QED
    BY <2>2, <2>3, <2>4, <2>5 DEF IInv
<1> QED
  BY <1>1, <1>2, <1>3, <1>4, <1>5, <1>6, <1>7 DEF Next

LEMMA Invariance == Spec => []IInv
<1> QED
  BY InitIInv, NextIInv, PTL DEF Spec

\* Shared, the streams and their queues keep their types.
THEOREM SubscriptionsTypeCorrect == Spec => []TypeOK
<1>1. IInv => TypeOK
  BY DEF IInv
<1> QED
  BY <1>1, Invariance, PTL

LEMMA NoDuplicatesHolds == IInv => NoDuplicates
<1> SUFFICES ASSUME IInv, NEW i \in Streams
             PROVE  /\ \A n \in DOMAIN queue[i] :
                        /\ Queued(i, n) \intersect asked[i] = {}
                        /\ \A m \in DOMAIN queue[i] :
                            m # n => Queued(i, n) \intersect Queued(i, m) = {}
                    /\ \A j \in Streams : i # j => Covered(i) \intersect Covered(j) = {}
  BY DEF NoDuplicates
<1>1. StreamInv(i)
  BY DEF IInv
<1>2. \A n \in DOMAIN queue[i] : Queued(i, n) = Pairs(queue[i][n])
  BY DEF Queued, Pairs
<1>3. Apart(queue[i]) /\ Subscribes(queue[i]) \intersect asked[i] = {}
  BY <1>1 DEF StreamInv
<1>4. ASSUME NEW n \in DOMAIN queue[i]
      PROVE  /\ Queued(i, n) \intersect asked[i] = {}
             /\ \A m \in DOMAIN queue[i] : m # n => Queued(i, n) \intersect Queued(i, m) = {}
  <2>1. Pairs(queue[i][n]) \subseteq Subscribes(queue[i])
    BY DEF Subscribes
  <2> QED
    BY <1>2, <1>3, <2>1 DEF Apart
<1>5. ASSUME NEW j \in Streams, i # j PROVE Covered(i) \intersect Covered(j) = {}
  <2>1. /\ Covered(i) \subseteq Channels \X Slice(symbols, i, 0)
        /\ Covered(j) \subseteq Channels \X Slice(symbols, j, 0)
    BY DEF IInv, StreamInv
  <2>2. /\ i \in Nat \ {0} /\ j \in Nat \ {0}
        /\ \A n \in DOMAIN symbols : n \in Nat
        /\ \A n, m \in DOMAIN symbols : symbols[n] = symbols[m] => n = m
    <3>1. Len(status) \in Nat /\ Streams = 1 .. Len(status) /\ DOMAIN symbols = 1 .. Len(symbols)
      BY StreamTypes DEF IInv
    <3>2. i \in Nat \ {0} /\ j \in Nat \ {0} /\ \A n \in DOMAIN symbols : n \in Nat
      BY <3>1
    <3> QED
      BY <3>2 DEF IInv, SymbolsInv
  <2>3. Slice(symbols, i, 0) \intersect Slice(symbols, j, 0) = {}
    <3> SUFFICES ASSUME NEW s, s \in Slice(symbols, i, 0), s \in Slice(symbols, j, 0)
                 PROVE  FALSE
      OBVIOUS
    <3>1. PICK n \in DOMAIN symbols : InSlice(n, i) /\ s = symbols[n]
      BY SliceParts
    <3>2. PICK m \in DOMAIN symbols : InSlice(m, j) /\ s = symbols[m]
      BY SliceParts
    <3>3. n = m /\ n \in Nat
      BY <2>2, <3>1, <3>2
    <3> QED
      BY <1>5, <2>2, <3>1, <3>2, <3>3, SlicesApart
  <2> QED
    BY <2>1, <2>3
<1> QED
  BY <1>4, <1>5

\* No channel of a symbol is subscribed twice, on one connection or on two: symbols may be
\* made known by any number of clients and lists of the exchange, in any order, and
\* connections may be lost and restored between them.
THEOREM NothingTwice == Spec => []NoDuplicates
  BY Invariance, NoDuplicatesHolds, PTL

LEMMA NothingMissingHolds == IInv => NothingMissing
<1> SUFFICES ASSUME IInv PROVE NothingMissing
  OBVIOUS
<1>1. /\ Len(status) \in Nat /\ Streams = 1 .. Len(status)
      /\ Len(symbols) \in Nat /\ DOMAIN symbols = 1 .. Len(symbols)
  BY StreamTypes DEF IInv
<1>2. /\ \A s : s \in allSymbols <=> \E n \in DOMAIN symbols : symbols[n] = s
      /\ Len(symbols) <= Len(status) * Limit
  BY DEF IInv, SymbolsInv
<1>3. ASSUME NEW s \in allSymbols PROVE \E i \in Streams : s \in Slice(symbols, i, 0)
  <2>1. PICK n \in DOMAIN symbols : symbols[n] = s
    BY <1>2
  <2>2. n \in Nat \ {0} /\ n <= Len(status) * Limit /\ n > 0
    <3>1. Len(status) * Limit \in Nat
      BY <1>1, LimitGrows
    <3> QED
      BY <1>1, <1>2, <3>1
  <2>3. PICK i \in 1 .. Len(status) : InSlice(n, i)
    BY <1>1, <2>2, SliceExists
  <2>4. s \in Slice(symbols, i, 0)
    BY <2>1, <2>2, <2>3, SliceParts
  <2> QED
    BY <1>1, <2>3, <2>4
<1>4. ASSUME NEW i \in Streams, NEW s \in Slice(symbols, i, 0) PROVE s \in allSymbols
  <2>1. PICK n \in DOMAIN symbols : s = symbols[n]
    BY SliceParts
  <2> QED
    BY <1>2, <2>1
<1>5. allSymbols = UNION {Slice(symbols, i, 0) : i \in Streams}
  BY <1>3, <1>4
<1>6. ASSUME NEW i \in Streams, status[i] = "READY"
      PROVE  /\ BaseChannels \X Slice(symbols, i, 0) \subseteq Covered(i)
             /\ {"funding-rate"} \X (Slice(symbols, i, 0) \intersect listed \intersect Extended)
                    \subseteq Covered(i)
  BY <1>6 DEF IInv, StreamInv
<1> QED
  BY <1>5, <1>6 DEF NothingMissing

\* Every symbol known belongs to a stream, and a stream that is READY has asked for all
\* that its symbols need, whenever they became known.
THEOREM NothingForgotten == Spec => []NothingMissing
  BY Invariance, NothingMissingHolds, PTL

LEMMA WithinLimitHolds == IInv => WithinLimit
<1> SUFFICES ASSUME IInv, NEW i \in Streams
             PROVE  Cardinality({pair[2] : pair \in Covered(i)}) =< MaxSubscriptionsPerStream
  BY DEF WithinLimit
<1>1. Len(status) \in Nat /\ Streams = 1 .. Len(status) /\ symbols \in Seq(Symbols)
  BY StreamTypes DEF IInv, TypeOK
<1>2. i \in Nat \ {0}
  BY <1>1
<1>3. Covered(i) \subseteq Channels \X Slice(symbols, i, 0)
  BY DEF IInv, StreamInv
<1>4. {pair[2] : pair \in Covered(i)} \subseteq Slice(symbols, i, 0)
  BY <1>3
<1>5. /\ IsFiniteSet(Slice(symbols, i, 0))
      /\ Cardinality(Slice(symbols, i, 0)) \in Nat
      /\ Cardinality(Slice(symbols, i, 0)) =< Limit
  BY <1>1, <1>2, SliceSize
<1> DEFINE subscribed == {pair[2] : pair \in Covered(i)}
<1> HIDE DEF subscribed
<1>6. /\ IsFiniteSet(subscribed)
      /\ Cardinality(subscribed) =< Cardinality(Slice(symbols, i, 0))
  BY <1>4, <1>5, FS_Subset DEF subscribed
<1>7. Cardinality(subscribed) \in Nat
  BY <1>6, FS_CardinalityType
<1> QED
  BY <1>5, <1>6, <1>7, LimitAssumption DEF subscribed, Limit

\* No connection subscribes more symbols than the limit, whatever the limit is.
THEOREM LimitHonoured == Spec => []WithinLimit
  BY Invariance, WithinLimitHolds, PTL

\* None of the steps that Fairness is about is possible.
AtRest == \A i \in Streams : status[i] = "READY" /\ queue[i] = <<>>

LEMMA SubscribedAtRest ==
    IInv /\ AtRest => \A s \in allSymbols : \E i \in Streams : BaseChannels \X {s} \subseteq asked[i]
<1> SUFFICES ASSUME IInv, AtRest, NEW s \in allSymbols
             PROVE  \E i \in Streams : BaseChannels \X {s} \subseteq asked[i]
  OBVIOUS
<1>1. NothingMissing
  BY NothingMissingHolds
<1>2. PICK i \in Streams : s \in Slice(symbols, i, 0)
  BY <1>1 DEF NothingMissing
<1>3. status[i] = "READY" /\ queue[i] = <<>>
  BY DEF AtRest
<1>4. BaseChannels \X Slice(symbols, i, 0) \subseteq Covered(i)
  BY <1>1, <1>3 DEF NothingMissing
<1>5. Covered(i) = asked[i]
  BY <1>3, CoveredParts, NoMessages
<1>6. BaseChannels \X {s} \subseteq asked[i]
  BY <1>2, <1>4, <1>5
<1> QED
  BY <1>6

\* The streams only come to rest, all READY and with nothing left to send, when every symbol
\* known is subscribed: the safe half of AllSubscribed.
THEOREM StreamsNeverStuck ==
    Spec => [](AtRest =>
        \A s \in allSymbols : \E i \in Streams : BaseChannels \X {s} \subseteq asked[i])
  BY Invariance, SubscribedAtRest, PTL

=============================================================================

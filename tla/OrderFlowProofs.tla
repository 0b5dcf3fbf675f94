------------------------- MODULE OrderFlowProofs -------------------------
(***************************************************************************)
(* OrderFlow implements OrderLifecycle, a Response never lies, every       *)
(* request is answered and the order manager ends in step with the         *)
(* exchange, for any finite set of orders, any number of requests and of   *)
(* lost connections.                                                       *)
(*                                                                         *)
(* The argument follows each request of an action: it is in one place at a *)
(* time, on its way to the exchange, in an amendment that is not done or   *)
(* in a message on its way back, and is answered only when it leaves the   *)
(* last of them.  Each message on its way back tells what remains true     *)
(* however long it travels: what the exchange refused stays refused, and   *)
(* an order that it finished stays finished.  And while the channel is     *)
(* subscribed, what the order manager does not know yet of an order is in  *)
(* a message on its way, or in the open orders that are being downloaded.  *)
(***************************************************************************)
EXTENDS OrderFlow, TLAPS, SequenceTheorems, FiniteSetTheorems

-----------------------------------------------------------------------------
(* Sequences that hold elements of a set A nowhere, or in one place at most. *)

Nowhere(s, A) == \A n \in DOMAIN s : s[n] \notin A

AtMostOnce(s, A) == \A n, m \in DOMAIN s : s[n] \in A /\ s[m] \in A => n = m

LEMMA NowhereInEmpty ==
    ASSUME NEW A
    PROVE  Nowhere(<<>>, A) /\ AtMostOnce(<<>>, A)
<1>1. DOMAIN <<>> = {}
  BY EmptySeq, LenProperties
<1> QED
  BY <1>1 DEF Nowhere, AtMostOnce

LEMMA OnceInTail ==
    ASSUME NEW S, NEW s \in Seq(S), s # <<>>, NEW A
    PROVE  /\ Nowhere(s, A) => Head(s) \notin A /\ Nowhere(Tail(s), A)
           /\ AtMostOnce(s, A) => AtMostOnce(Tail(s), A)
           /\ AtMostOnce(s, A) /\ Head(s) \in A => Nowhere(Tail(s), A)
<1>1. /\ Len(s) \in Nat /\ Len(s) > 0
      /\ DOMAIN s = 1 .. Len(s)
      /\ Head(s) = s[1]
  BY EmptySeq, LenProperties
<1>2. /\ DOMAIN Tail(s) = 1 .. (Len(s) - 1)
      /\ \A i \in DOMAIN Tail(s) : Tail(s)[i] = s[i + 1]
  BY <1>1, HeadTailProperties, LenProperties
<1>3. \A i \in DOMAIN Tail(s) : i \in Nat /\ i > 0 /\ i + 1 \in DOMAIN s
  BY <1>1, <1>2
<1>4. 1 \in DOMAIN s
  BY <1>1
<1> HIDE DEF Nowhere, AtMostOnce
<1>5. Nowhere(s, A) => Head(s) \notin A /\ Nowhere(Tail(s), A)
  BY <1>1, <1>2, <1>3, <1>4 DEF Nowhere
<1>6. AtMostOnce(s, A) => AtMostOnce(Tail(s), A)
  <2> SUFFICES ASSUME AtMostOnce(s, A),
                      NEW n \in DOMAIN Tail(s), NEW m \in DOMAIN Tail(s),
                      Tail(s)[n] \in A, Tail(s)[m] \in A
               PROVE  n = m
    BY DEF AtMostOnce
  <2>1. n + 1 = m + 1
    BY <1>2, <1>3 DEF AtMostOnce
  <2> QED
    BY <2>1, <1>3
<1>7. AtMostOnce(s, A) /\ Head(s) \in A => Nowhere(Tail(s), A)
  <2> SUFFICES ASSUME AtMostOnce(s, A), Head(s) \in A, NEW n \in DOMAIN Tail(s),
                      Tail(s)[n] \in A
               PROVE  FALSE
    BY DEF Nowhere
  <2>1. n + 1 = 1
    BY <1>1, <1>2, <1>3, <1>4 DEF AtMostOnce
  <2> QED
    BY <2>1, <1>3
<1> QED
  BY <1>5, <1>6, <1>7

LEMMA OnceInConcat ==
    ASSUME NEW S, NEW s \in Seq(S), NEW t \in Seq(S), NEW A
    PROVE  /\ Nowhere(s, A) /\ Nowhere(t, A) => Nowhere(s \o t, A)
           /\ Nowhere(s, A) /\ AtMostOnce(t, A) => AtMostOnce(s \o t, A)
           /\ AtMostOnce(s, A) /\ Nowhere(t, A) => AtMostOnce(s \o t, A)
<1>1. /\ Len(s) \in Nat /\ DOMAIN s = 1 .. Len(s)
      /\ Len(t) \in Nat /\ DOMAIN t = 1 .. Len(t)
      /\ DOMAIN (s \o t) = 1 .. (Len(s) + Len(t))
  BY LenProperties, ConcatProperties
<1>2. \A i \in DOMAIN (s \o t) :
          /\ i <= Len(s) => i \in DOMAIN s /\ (s \o t)[i] = s[i]
          /\ i > Len(s) => i - Len(s) \in DOMAIN t /\ (s \o t)[i] = t[i - Len(s)]
  BY <1>1, ConcatProperties
<1>3. \A i \in DOMAIN (s \o t) : i \in Nat /\ (i <= Len(s) \/ i > Len(s))
  BY <1>1
<1>4. Nowhere(s, A) /\ Nowhere(t, A) => Nowhere(s \o t, A)
  BY <1>2, <1>3 DEF Nowhere
<1>5. Nowhere(s, A) /\ AtMostOnce(t, A) => AtMostOnce(s \o t, A)
  <2> SUFFICES ASSUME Nowhere(s, A), AtMostOnce(t, A),
                      NEW n \in DOMAIN (s \o t), NEW m \in DOMAIN (s \o t),
                      (s \o t)[n] \in A, (s \o t)[m] \in A
               PROVE  n = m
    BY DEF AtMostOnce
  <2>1. n > Len(s) /\ m > Len(s)
    BY <1>2, <1>3 DEF Nowhere
  <2>2. n - Len(s) = m - Len(s)
    BY <2>1, <1>2 DEF AtMostOnce
  <2> QED
    BY <2>2, <1>1, <1>3
<1>6. AtMostOnce(s, A) /\ Nowhere(t, A) => AtMostOnce(s \o t, A)
  <2> SUFFICES ASSUME AtMostOnce(s, A), Nowhere(t, A),
                      NEW n \in DOMAIN (s \o t), NEW m \in DOMAIN (s \o t),
                      (s \o t)[n] \in A, (s \o t)[m] \in A
               PROVE  n = m
    BY DEF AtMostOnce
  <2>1. n <= Len(s) /\ m <= Len(s)
    BY <1>2, <1>3 DEF Nowhere
  <2> QED
    BY <2>1, <1>2 DEF AtMostOnce
<1> QED
  BY <1>4, <1>5, <1>6

LEMMA OnceInSingle ==
    ASSUME NEW x, NEW A
    PROVE  /\ x \notin A => Nowhere(<<x>>, A)
           /\ AtMostOnce(<<x>>, A)
<1>1. DOMAIN <<x>> = {1} /\ <<x>>[1] = x
  OBVIOUS
<1> QED
  BY <1>1 DEF Nowhere, AtMostOnce

LEMMA OnceInAppend ==
    ASSUME NEW S, NEW s \in Seq(S), NEW x \in S, NEW A
    PROVE  /\ Nowhere(s, A) /\ x \notin A => Nowhere(Append(s, x), A)
           /\ Nowhere(s, A) => AtMostOnce(Append(s, x), A)
           /\ AtMostOnce(s, A) /\ x \notin A => AtMostOnce(Append(s, x), A)
<1>1. Append(s, x) = s \o <<x>>
  BY AppendIsConcat
<1>2. <<x>> \in Seq(S)
  OBVIOUS
<1>3. /\ Nowhere(s, A) /\ Nowhere(<<x>>, A) => Nowhere(s \o <<x>>, A)
      /\ Nowhere(s, A) /\ AtMostOnce(<<x>>, A) => AtMostOnce(s \o <<x>>, A)
      /\ AtMostOnce(s, A) /\ Nowhere(<<x>>, A) => AtMostOnce(s \o <<x>>, A)
  BY <1>2, OnceInConcat
<1> QED
  BY <1>1, <1>3, OnceInSingle, Zenon

-----------------------------------------------------------------------------
(* The inductive invariant. *)

\* What an acknowledgement tells of what the exchange did.
SoundAck(m) ==
    /\ m.refused \subseteq m.orders
    /\ m.op # "cancel all" => \E o \in Orders : m.orders = {o}
    /\ \A o \in m.orders :
        /\ ~m.data => o \in m.refused /\ result[<<o, m.op>>] = "forbidden"
        /\ m.data /\ o \in m.refused => result[<<o, m.op>>] = "refused"
        /\ m.data /\ o \notin m.refused /\ m.op # "modify" => result[<<o, m.op>>] = "accepted"

\* What the ORDERS channel tells: an order that was live may have finished since, one that
\* was finished is.
SoundPush(m) ==
    /\ m.state # "none"
    /\ exchange[m.order] # "none"
    /\ m.state # "live" => exchange[m.order] = m.state
    /\ m.amend = "failed" => result[<<m.order, "modify">>] = "refused"

SoundMessages ==
    {m \in ExchangeMessage :
        /\ m.kind = "ack" => SoundAck(m)
        /\ m.kind = "push" => SoundPush(m)}

\* Only CancelAllOrders asks for several orders.
SoundRequests ==
    {r \in RequestMessage :
        r.op \notin {"cancel all", "subscribe"} => \E o \in Orders : r.orders = {o}}

\* Requests for an action, and messages that will be answered with a Response to it.
Asks(a) == {r \in RequestMessage : a \in r.orders \X {r.op}}

Replies(a) ==
    {m \in ExchangeMessage :
        \/ m.kind = "ack" /\ a \in Acknowledged(m) \X {m.op}
        \/ m.kind = "push" /\ m.amend = "failed" /\ a = <<m.order, "modify">>}

\* A request for an action is in one place, and not answered before it has left it.
ActionInv(a) ==
    /\ AtMostOnce(up, Asks(a))
    /\ AtMostOnce(down, Replies(a))
    /\ Nowhere(up, Asks(a)) \/
        /\ a \in requested
        /\ answers[a] = 0
        /\ result[a] = "none"
        /\ Nowhere(down, Replies(a))
    /\ Nowhere(down, Replies(a)) \/
        /\ a \in requested
        /\ answers[a] = 0
        /\ a[2] = "modify" => a[1] \notin amending
    /\ a[2] = "modify" /\ a[1] \in amending =>
        /\ a \in requested
        /\ answers[a] = 0
        /\ result[a] = "accepted"
    /\ result[a] # "none" => a \in requested
    /\ answers[a] # 0 => a \in requested
    /\ answers[a] = 0 <=> verdict[a] = "none"

\* What the order manager makes of an order is what the exchange made of it, or an earlier
\* moment of it.
OrderInv(o) ==
    /\ status[o] = "none" <=> <<o, "create">> \notin requested
    /\ exchange[o] # "none" => result[<<o, "create">>] = "accepted"
    /\ status[o] = "WORKING" => exchange[o] # "none"
    /\ status[o] = "COMPLETED" => exchange[o] = "filled"
    /\ status[o] = "CANCELED" => exchange[o] = "canceled"
    /\ status[o] = "REJECTED" => result[<<o, "create">>] \in {"refused", "forbidden"}
    /\ snapshot[o] # "none" => exchange[o] # "none"
    /\ o \in amending => exchange[o] # "none"

IInv ==
    /\ TypeOK
    /\ up \in Seq(SoundRequests)
    /\ down \in Seq(SoundMessages)
    /\ \A a \in Actions : ActionInv(a)
    /\ \A o \in Orders : OrderInv(o)
    /\ Truthful

-----------------------------------------------------------------------------
(* Messages. *)

LEMMA ActionParts ==
    ASSUME NEW a \in Actions
    PROVE  a[1] \in Orders /\ a[2] \in Operations /\ a = <<a[1], a[2]>>
  BY DEF Actions

LEMMA ActionOf ==
    ASSUME NEW o \in Orders, NEW op \in Operations
    PROVE  <<o, op>> \in Actions
  BY DEF Actions

LEMMA MessageParts ==
    ASSUME NEW m \in ExchangeMessage
    PROVE  /\ m.kind \in {"ack", "push", "subscribed"}
           /\ m.kind = "ack" =>
                /\ m.op \in Operations
                /\ m.orders \subseteq Orders
                /\ m.refused \subseteq Orders
                /\ m.data \in BOOLEAN
           /\ m.kind = "push" =>
                /\ m.order \in Orders
                /\ m.state \in ExchangeStates
                /\ m.amend \in {"none", "done", "failed"}
  BY DEF ExchangeMessage

LEMMA AckIsMessage ==
    ASSUME NEW r \in RequestMessage, r.op # "subscribe",
           NEW refused \in SUBSET Orders, NEW data \in BOOLEAN
    PROVE  Ack(r, refused, data) \in ExchangeMessage
  BY DEF Ack, RequestMessage, ExchangeMessage

LEMMA PushIsMessage ==
    ASSUME NEW o \in Orders, NEW state \in ExchangeStates, NEW amend \in {"none", "done", "failed"}
    PROVE  Push(o, state, amend) \in ExchangeMessage
  BY DEF Push, ExchangeMessage

\* Only orders that the message names are answered.
LEMMA AcknowledgedOrders ==
    ASSUME NEW m \in ExchangeMessage, m.kind = "ack"
    PROVE  Acknowledged(m) \subseteq Orders
  BY MessageParts DEF Acknowledged, Operations

LEMMA FunctionIsSeq ==
    ASSUME NEW S, NEW k \in Nat, NEW f \in [1 .. k -> S]
    PROVE  f \in Seq(S)
<1>1. Seq(S) = UNION {[1 .. n -> S] : n \in Nat}
  BY SeqDef
<1> QED
  BY <1>1, Zenon

LEMMA PushesAreSeqs ==
    ASSUME NEW orders \in SUBSET Orders, NEW state, NEW S,
           \A o \in orders : Push(o, state, "none") \in S
    PROVE  Pushes(orders, state) \subseteq Seq(S)
<1> DEFINE P == {Push(o, state, "none") : o \in orders}
<1>1. IsFiniteSet(orders)
  BY OrdersAssumption, FS_Subset
<1>2. [o \in orders |-> Push(o, state, "none")] \in Surjection(orders, P)
  BY DEF Surjection
<1>3. Cardinality(P) \in Nat
  BY <1>1, <1>2, FS_Surjection, FS_CardinalityType
<1>4. P \subseteq S
  OBVIOUS
<1>5. ASSUME NEW messages \in SetToSeqs(P) PROVE messages \in Seq(S)
  <2>1. messages \in [1 .. Cardinality(P) -> P]
    BY DEF SetToSeqs
  <2>2. messages \in [1 .. Cardinality(P) -> S]
    BY <2>1, <1>4
  <2> QED
    BY <2>2, <1>3, FunctionIsSeq
<1>6. <<>> \in Seq(S)
  BY EmptySeq
<1> QED
  BY <1>5, <1>6 DEF Pushes

LEMMA PushesNowhere ==
    ASSUME NEW orders \in SUBSET Orders, NEW state, NEW A,
           \A o \in orders : Push(o, state, "none") \notin A
    PROVE  \A messages \in Pushes(orders, state) : Nowhere(messages, A)
<1> DEFINE P == {Push(o, state, "none") : o \in orders}
<1>1. Pushes(orders, state) \subseteq Seq(P)
  BY PushesAreSeqs
<1>2. \A messages \in Seq(P) : \A n \in DOMAIN messages : messages[n] \in P
  BY LenProperties
<1> QED
  BY <1>1, <1>2 DEF Nowhere

\* What a reply adds to what is on its way.
LEMMA ReplyAdds ==
    ASSUME NEW S, NEW A, NEW refused, NEW pushes, Reply(refused, pushes),
           down \in Seq(S), Ack(Request, refused, TRUE) \in S, pushes \subseteq Seq(S),
           \A messages \in pushes : Nowhere(messages, A)
    PROVE  /\ down' \in Seq(S)
           /\ Nowhere(down, A) /\ Ack(Request, refused, TRUE) \notin A => Nowhere(down', A)
           /\ Nowhere(down, A) => AtMostOnce(down', A)
           /\ AtMostOnce(down, A) /\ Ack(Request, refused, TRUE) \notin A => AtMostOnce(down', A)
<1> DEFINE ack == <<Ack(Request, refused, TRUE)>>
<1>1. PICK messages \in pushes : \/ down' = (down \o ack) \o messages
                                 \/ down' = (down \o messages) \o ack
  BY DEF Reply
<1>2. ack \in Seq(S) /\ messages \in Seq(S)
  <2>1. \A x \in S : <<x>> \in Seq(S)
    OBVIOUS
  <2> QED
    BY <2>1, Zenon
<1>3. AtMostOnce(ack, A) /\ (Ack(Request, refused, TRUE) \notin A => Nowhere(ack, A))
  BY OnceInSingle
<1>4. Nowhere(messages, A)
  OBVIOUS
<1> HIDE DEF ack
<1>5. CASE down' = (down \o ack) \o messages
  <2>1. /\ down \o ack \in Seq(S)
        /\ (down \o ack) \o messages \in Seq(S)
    BY <1>2, ConcatProperties
  <2>2. /\ Nowhere(down, A) /\ Nowhere(ack, A) => Nowhere(down \o ack, A)
        /\ Nowhere(down, A) /\ AtMostOnce(ack, A) => AtMostOnce(down \o ack, A)
        /\ AtMostOnce(down, A) /\ Nowhere(ack, A) => AtMostOnce(down \o ack, A)
    BY <1>2, OnceInConcat
  <2>3. /\ Nowhere(down \o ack, A) => Nowhere(down', A)
        /\ AtMostOnce(down \o ack, A) => AtMostOnce(down', A)
    BY <2>1, <1>2, <1>4, <1>5, OnceInConcat
  <2> QED
    BY <2>1, <2>2, <2>3, <1>3, <1>5, Zenon
<1>6. CASE down' = (down \o messages) \o ack
  <2>1. /\ down \o messages \in Seq(S)
        /\ (down \o messages) \o ack \in Seq(S)
    BY <1>2, ConcatProperties
  <2>2. /\ Nowhere(down, A) => Nowhere(down \o messages, A)
        /\ AtMostOnce(down, A) => AtMostOnce(down \o messages, A)
    BY <1>2, <1>4, OnceInConcat
  <2>3. /\ Nowhere(down \o messages, A) /\ Nowhere(ack, A) => Nowhere(down', A)
        /\ Nowhere(down \o messages, A) /\ AtMostOnce(ack, A) => AtMostOnce(down', A)
        /\ AtMostOnce(down \o messages, A) /\ Nowhere(ack, A) => AtMostOnce(down', A)
    BY <2>1, <1>2, <1>6, OnceInConcat
  <2> QED
    BY <2>1, <2>2, <2>3, <1>3, <1>6, Zenon
<1> QED
  BY <1>1, <1>5, <1>6

-----------------------------------------------------------------------------
(* Type correctness. *)

Statuses == {"none", "sent", "WORKING", "COMPLETED", "CANCELED", "REJECTED"}

LEMMA NextStages ==
    /\ StageAfter("on") = "subscribing"
    /\ StageAfter("subscribing") = "snapshot"
    /\ StageAfter("snapshot") = "ready"
<1>1. DOMAIN Stages = 1 .. 4
  BY DEF Stages
<1>2. (CHOOSE n \in DOMAIN Stages : Stages[n] = "on") = 1
  BY <1>1 DEF Stages
<1>3. (CHOOSE n \in DOMAIN Stages : Stages[n] = "subscribing") = 2
  BY <1>1 DEF Stages
<1>4. (CHOOSE n \in DOMAIN Stages : Stages[n] = "snapshot") = 3
  BY <1>1 DEF Stages
<1>5. StageAfter("on") = Stages[1 + 1] /\ StageAfter("subscribing") = Stages[1 + 2]
      /\ StageAfter("snapshot") = Stages[1 + 3]
  BY <1>2, <1>3, <1>4 DEF StageAfter
<1> QED
  BY <1>5 DEF Stages

LEMMA RequestParts ==
    ASSUME IInv, up # <<>>
    PROVE  /\ Request \in SoundRequests
           /\ Request \in RequestMessage
           /\ Request.op \in Operations \union {"subscribe"}
           /\ Request.orders \subseteq Orders
           /\ Tail(up) \in Seq(SoundRequests)
           /\ Tail(up) \in Seq(RequestMessage)
<1>1. Request \in SoundRequests /\ Tail(up) \in Seq(SoundRequests)
  BY HeadTailProperties DEF IInv, Request
<1>2. Request \in RequestMessage /\ Tail(up) \in Seq(RequestMessage)
  BY HeadTailProperties DEF IInv, TypeOK, Request
<1> QED
  BY <1>1, <1>2 DEF RequestMessage

LEMMA InitTypeOK == Init => TypeOK
<1> SUFFICES ASSUME Init PROVE TypeOK
  OBVIOUS
<1>1. /\ asked \in BOOLEAN
      /\ response \in BOOLEAN
      /\ obtained \in BOOLEAN
      /\ subscribed \in BOOLEAN
  BY Zenon DEF Init
<1>2. up \in Seq(RequestMessage) /\ down \in Seq(ExchangeMessage)
  BY EmptySeq DEF Init
<1>3. /\ snapshot \in [Orders -> ExchangeStates]
      /\ exchange \in [Orders -> ExchangeStates]
      /\ status \in [Orders -> {"none", "sent", "WORKING", "COMPLETED", "CANCELED", "REJECTED"}]
      /\ result \in [Actions -> {"none", "accepted", "refused", "forbidden"}]
      /\ answers \in [Actions -> Nat]
      /\ verdict \in [Actions -> {"none", "ACCEPTED", "REJECTED"}]
  BY DEF Init, ExchangeStates
<1> QED
  BY <1>1, <1>2, <1>3 DEF Init, TypeOK

LEMMA SubmitTypeOK ==
    ASSUME IInv, NEW op \in Operations, NEW orders \in SUBSET Orders, Submit(op, orders),
           status' \in [Orders -> Statuses]
    PROVE  TypeOK'
<1>1. [op |-> op, orders |-> orders] \in RequestMessage
  BY DEF RequestMessage
<1>2. up' \in Seq(RequestMessage)
  BY <1>1, AppendProperties DEF Submit, IInv, TypeOK
<1>3. requested' \subseteq Actions /\ lost' \subseteq requested'
  BY DEF Submit, IInv, TypeOK, Actions
<1> QED
  BY <1>2, <1>3 DEF Submit, IInv, TypeOK, Statuses, downloadVars, exchangeVars

LEMMA EnterTypeOK ==
    ASSUME IInv, NEW s \in {"subscribing", "snapshot", "ready"}, Enter(s)
    PROVE  /\ stage' \in {"off", "on", "subscribing", "snapshot", "ready"}
           /\ asked' \in BOOLEAN
           /\ response' \in BOOLEAN
           /\ obtained' \in BOOLEAN
           /\ up' \in Seq(RequestMessage)
           /\ UNCHANGED <<http, snapshot>>
<1>1. [op |-> "subscribe", orders |-> {}] \in RequestMessage
  BY DEF RequestMessage
<1>2. up' \in Seq(RequestMessage)
  BY <1>1, AppendProperties DEF Enter, IInv, TypeOK
<1>3. asked' \in BOOLEAN /\ response' \in BOOLEAN /\ obtained' \in BOOLEAN
  BY Zenon DEF Enter
<1> QED
  BY <1>2, <1>3 DEF Enter

\* The exchange takes a request: what changes of the types.
LEMMA TakeTypeOK ==
    ASSUME IInv, up # <<>>, exchangeUnchanged, UNCHANGED subscribed,
           up' = Tail(up),
           down' \in Seq(ExchangeMessage),
           exchange' \in [Orders -> ExchangeStates],
           result' \in [Actions -> {"none", "accepted", "refused", "forbidden"}],
           amending' \subseteq Orders,
           here' \subseteq Orders
    PROVE  TypeOK'
  BY RequestParts DEF IInv, TypeOK, exchangeUnchanged, downloadVars, managerVars

LEMMA ReplyTypeOK ==
    ASSUME IInv, up # <<>>, Request.op # "subscribe",
           NEW refused \in SUBSET Orders, NEW pushes, Reply(refused, pushes),
           pushes \subseteq Seq(ExchangeMessage)
    PROVE  /\ up' = Tail(up)
           /\ down' \in Seq(ExchangeMessage)
           /\ result' \in [Actions -> {"none", "accepted", "refused", "forbidden"}]
<1>1. Ack(Request, refused, TRUE) \in ExchangeMessage
  BY RequestParts, AckIsMessage
<1>2. \A messages \in pushes : Nowhere(messages, {})
  BY DEF Nowhere
<1>3. down' \in Seq(ExchangeMessage)
  BY <1>1, <1>2, ReplyAdds DEF IInv, TypeOK
<1>4. result' \in [Actions -> {"none", "accepted", "refused", "forbidden"}]
  BY DEF Reply, IInv, TypeOK
<1> QED
  BY <1>3, <1>4 DEF Reply

LEMMA NoPushesAreSeqs == \A S : {<<>>} \subseteq Seq(S)
  BY EmptySeq

LEMMA StatePushesAreSeqs ==
    ASSUME NEW orders \in SUBSET Orders, NEW state \in ExchangeStates
    PROVE  Pushes(orders, state) \subseteq Seq(ExchangeMessage)
<1>1. \A o \in orders : Push(o, state, "none") \in ExchangeMessage
  BY PushIsMessage
<1> QED
  BY <1>1, PushesAreSeqs

LEMMA RespondTypeOK ==
    ASSUME TypeOK, NEW actions, NEW requestStatus \in {"ACCEPTED", "REJECTED"},
           Respond(actions, requestStatus)
    PROVE  /\ answers' \in [Actions -> Nat]
           /\ verdict' \in [Actions -> {"none", "ACCEPTED", "REJECTED"}]
  BY DEF Respond, TypeOK

LEMMA UpdatedIsStatus ==
    ASSUME NEW old \in Statuses, NEW new \in Statuses
    PROVE  Updated(old, new) \in Statuses
  BY DEF Updated

LEMMA ReceiveTypeOK == IInv /\ Receive => TypeOK'
<1> SUFFICES ASSUME IInv, Receive PROVE TypeOK'
  OBVIOUS
<1> DEFINE m == Head(down)
<1>1. m \in SoundMessages /\ down' \in Seq(ExchangeMessage)
  BY HeadTailProperties DEF Receive, IInv, TypeOK
<1>2. m \in ExchangeMessage /\ TypeOK
  BY <1>1 DEF SoundMessages, IInv
<1> HIDE DEF m
<1>3. CASE m.kind = "ack" /\ ReceiveAck(m)
  <2>1. RequestStatus(m) \in {"ACCEPTED", "REJECTED"}
    BY DEF RequestStatus
  <2>2. /\ answers' \in [Actions -> Nat]
        /\ verdict' \in [Actions -> {"none", "ACCEPTED", "REJECTED"}]
    BY <1>2, <1>3, <2>1, RespondTypeOK DEF ReceiveAck
  <2>3. external' \subseteq Orders
    BY <1>2, <1>3, AcknowledgedOrders DEF ReceiveAck, TypeOK
  <2>4. \A o \in Orders : Updated(status[o], "REJECTED") \in Statuses
    <3>1. \A o \in Orders : status[o] \in Statuses
      BY <1>2 DEF TypeOK, Statuses
    <3>2. "REJECTED" \in Statuses
      BY DEF Statuses
    <3> QED
      BY <3>1, <3>2, UpdatedIsStatus
  <2>5. status' \in [Orders -> Statuses]
    BY <1>2, <1>3, <2>4 DEF ReceiveAck, TypeOK, Statuses
  <2> QED
    BY <1>1, <1>2, <1>3, <2>2, <2>3, <2>5
    DEF ReceiveAck, Receive, TypeOK, Statuses, downloadVars, exchangeVars
<1>4. CASE m.kind = "push" /\ ReceivePush(m)
  <2>1. /\ answers' \in [Actions -> Nat]
        /\ verdict' \in [Actions -> {"none", "ACCEPTED", "REJECTED"}]
    BY <1>2, <1>4, RespondTypeOK DEF ReceivePush
  <2>2. m.order \in Orders /\ m.state \in ExchangeStates
    BY <1>2, <1>4, MessageParts
  <2>3. OrderStatus(m.state) \in Statuses
    BY <1>1, <1>4, <2>2 DEF SoundMessages, SoundPush, OrderStatus, ExchangeStates, Statuses
  <2>4. status' \in [Orders -> Statuses]
    <3>1. status \in [Orders -> Statuses]
      BY <1>2 DEF TypeOK, Statuses
    <3>2. Updated(status[m.order], OrderStatus(m.state)) \in Statuses
      BY <3>1, <2>2, <2>3, UpdatedIsStatus
    <3> QED
      BY <1>4, <2>2, <3>1, <3>2 DEF ReceivePush
  <2>5. external' \subseteq Orders
    BY <1>2, <1>4, <2>2 DEF ReceivePush, TypeOK
  <2> QED
    BY <1>1, <1>2, <1>4, <2>1, <2>4, <2>5
    DEF ReceivePush, Receive, TypeOK, Statuses, downloadVars, exchangeVars
<1>5. CASE m.kind = "subscribed" /\ ReceiveSubscribed
  <2>1. Enter("snapshot")
    BY <1>5, NextStages DEF ReceiveSubscribed
  <2> QED
    BY <1>1, <1>2, <1>5, <2>1, EnterTypeOK
    DEF ReceiveSubscribed, Receive, TypeOK, managerVars, exchangeVars
<1> QED
  BY <1>3, <1>4, <1>5 DEF Receive, m

LEMMA ExchangeTypeOK ==
    ASSUME IInv,
           \/ TakeSubscribe \/ TakeCreate \/ TakeModify \/ TakeCancel \/ Refuse \/ Forbid
    PROVE  TypeOK'
<1>1. TypeOK /\ up # <<>>
  BY DEF IInv, TakeSubscribe, TakeCreate, TakeModify, TakeCancel, Refuse, Forbid
<1>2. Request.orders \subseteq Orders
  BY <1>1, RequestParts
<1>3. CASE TakeSubscribe
  <2>1. [kind |-> "subscribed"] \in ExchangeMessage
    BY DEF ExchangeMessage
  <2>2. down' \in Seq(ExchangeMessage)
    BY <1>1, <1>3, <2>1, AppendProperties DEF TakeSubscribe, TypeOK
  <2>3. subscribed' \in BOOLEAN
    BY <1>3, Zenon DEF TakeSubscribe
  <2> QED
    BY <1>1, <1>3, <2>2, <2>3, RequestParts
    DEF TakeSubscribe, TypeOK, exchangeUnchanged, downloadVars, managerVars
<1>4. CASE TakeCreate
  <2>1. Pushes(Request.orders, "live") \subseteq Seq(ExchangeMessage)
    BY <1>2, StatePushesAreSeqs DEF ExchangeStates
  <2>2. /\ up' = Tail(up)
        /\ down' \in Seq(ExchangeMessage)
        /\ result' \in [Actions -> {"none", "accepted", "refused", "forbidden"}]
    BY <1>1, <1>4, <2>1, ReplyTypeOK DEF TakeCreate
  <2>3. exchange' \in [Orders -> ExchangeStates]
    BY <1>1, <1>4 DEF TakeCreate, TypeOK, ExchangeStates
  <2> QED
    BY <1>1, <1>4, <2>2, <2>3, TakeTypeOK DEF TakeCreate, TypeOK
<1>5. CASE TakeModify
  <2>1. /\ up' = Tail(up)
        /\ down' \in Seq(ExchangeMessage)
        /\ result' \in [Actions -> {"none", "accepted", "refused", "forbidden"}]
    BY <1>1, <1>5, NoPushesAreSeqs, ReplyTypeOK DEF TakeModify
  <2> QED
    BY <1>1, <1>2, <1>5, <2>1, TakeTypeOK DEF TakeModify, TypeOK
<1>6. CASE TakeCancel
  <2> DEFINE live == {o \in Request.orders : exchange[o] = "live"}
  <2>1. live \subseteq Orders /\ Request.orders \ live \subseteq Orders
    BY <1>2
  <2>2. Pushes(live, "canceled") \subseteq Seq(ExchangeMessage)
    BY <2>1, StatePushesAreSeqs DEF ExchangeStates
  <2>3. /\ Request.op # "subscribe"
        /\ exchange' = [o \in Orders |-> IF o \in live THEN "canceled" ELSE exchange[o]]
        /\ Reply(Request.orders \ live, Pushes(live, "canceled"))
        /\ here' = IF subscribed THEN here \union live ELSE here
        /\ UNCHANGED <<amending, subscribed>>
        /\ exchangeUnchanged
    BY <1>6 DEF TakeCancel
  <2> HIDE DEF live
  <2>4. /\ up' = Tail(up)
        /\ down' \in Seq(ExchangeMessage)
        /\ result' \in [Actions -> {"none", "accepted", "refused", "forbidden"}]
    BY <1>1, <2>1, <2>2, <2>3, ReplyTypeOK
  <2>5. exchange' \in [Orders -> ExchangeStates] /\ here' \subseteq Orders
    BY <1>1, <2>1, <2>3 DEF TypeOK, ExchangeStates
  <2> QED
    BY <1>1, <2>3, <2>4, <2>5, TakeTypeOK DEF TypeOK
<1>7. CASE Refuse
  <2>1. /\ up' = Tail(up)
        /\ down' \in Seq(ExchangeMessage)
        /\ result' \in [Actions -> {"none", "accepted", "refused", "forbidden"}]
    BY <1>1, <1>2, <1>7, NoPushesAreSeqs, ReplyTypeOK DEF Refuse
  <2> QED
    BY <1>1, <1>7, <2>1, TakeTypeOK DEF Refuse, TypeOK
<1>8. CASE Forbid
  <2>1. Ack(Request, Request.orders, FALSE) \in ExchangeMessage
    BY <1>1, <1>2, <1>8, RequestParts, AckIsMessage DEF Forbid
  <2>2. down' \in Seq(ExchangeMessage)
    BY <1>1, <1>8, <2>1, AppendProperties DEF Forbid, TypeOK
  <2>3. result' \in [Actions -> {"none", "accepted", "refused", "forbidden"}]
    BY <1>1, <1>8 DEF Forbid, TypeOK
  <2> QED
    BY <1>1, <1>8, <2>2, <2>3, TakeTypeOK DEF Forbid, TypeOK
<1> QED
  BY <1>3, <1>4, <1>5, <1>6, <1>7, <1>8

LEMMA NextTypeOK == IInv /\ [Next]_vars => TypeOK'
<1> SUFFICES ASSUME IInv, [Next]_vars PROVE TypeOK'
  OBVIOUS
<1>1. TypeOK /\ "modify" \in Operations
  BY DEF IInv, Operations
<1>2. ASSUME NEW o \in Orders, CreateOrder(o) \/ ModifyOrder(o) \/ CancelOrder(o)
      PROVE  TypeOK'
  <2>1. status' \in [Orders -> Statuses]
    BY <1>1, <1>2 DEF CreateOrder, ModifyOrder, CancelOrder, TypeOK, Statuses
  <2>2. \E op \in Operations : Submit(op, {o})
    BY <1>2 DEF CreateOrder, ModifyOrder, CancelOrder, Operations
  <2> QED
    BY <2>1, <2>2, SubmitTypeOK
<1>3. CASE CancelAllOrders
  <2>1. status' \in [Orders -> Statuses]
    BY <1>1, <1>3 DEF CancelAllOrders, TypeOK, Statuses
  <2>2. Open \intersect external \subseteq Orders /\ "cancel all" \in Operations
    BY DEF Open, Operations
  <2> QED
    BY <1>3, <2>1, <2>2, SubmitTypeOK DEF CancelAllOrders
<1>4. ASSUME NEW o \in Orders, Fill(o) PROVE TypeOK'
  <2>1. Pushes({o}, "filled") \subseteq Seq(ExchangeMessage)
    BY StatePushesAreSeqs DEF ExchangeStates
  <2>2. down' \in Seq(ExchangeMessage)
    BY <1>1, <1>4, <2>1, ConcatProperties DEF Fill, TypeOK
  <2>3. exchange' \in [Orders -> ExchangeStates] /\ here' \subseteq Orders
    BY <1>1, <1>4 DEF Fill, TypeOK, ExchangeStates
  <2> QED
    BY <1>1, <1>4, <2>2, <2>3 DEF Fill, TypeOK, exchangeUnchanged, downloadVars, managerVars
<1>5. ASSUME NEW o \in Orders, NEW amend \in {"done", "failed"}, Amended(o, amend)
      PROVE  TypeOK'
  <2>1. Push(o, exchange[o], amend) \in ExchangeMessage
    BY <1>1, PushIsMessage DEF TypeOK
  <2>2. down' \in Seq(ExchangeMessage)
    BY <1>1, <1>5, <2>1, AppendProperties DEF Amended, TypeOK
  <2>3. <<o, "modify">> \in requested
    <3>1. ActionInv(<<o, "modify">>)
      BY <1>1, ActionOf DEF IInv
    <3> QED
      BY <1>5, <3>1 DEF ActionInv, Amended
  <2>4. lost' \subseteq requested' /\ requested' \subseteq Actions
    BY <1>1, <1>5, <2>3 DEF Amended, TypeOK
  <2>5. result' \in [Actions -> {"none", "accepted", "refused", "forbidden"}]
    BY <1>1, <1>5 DEF Amended, TypeOK
  <2> QED
    BY <1>1, <1>5, <2>2, <2>4, <2>5 DEF Amended, TypeOK, downloadVars, managerVars
<1>6. CASE LoggedIn
  BY <1>1, <1>6 DEF LoggedIn, TypeOK, downloadVars, exchangeVars, managerVars
<1>7. CASE Downloaded
  <2>1. Enter("subscribing")
    BY <1>7, NextStages DEF Downloaded
  <2> QED
    BY <1>1, <1>7, <2>1, EnterTypeOK DEF Downloaded, TypeOK, exchangeVars, managerVars
<1>8. CASE DropCopyTimer
  <2>1. Enter("ready")
    BY <1>8, NextStages DEF DropCopyTimer
  <2> QED
    BY <1>1, <1>8, <2>1, EnterTypeOK DEF DropCopyTimer, TypeOK, exchangeVars, managerVars
<1>9. CASE Disconnected
  <2>1. up' \in Seq(RequestMessage) /\ down' \in Seq(ExchangeMessage)
    BY <1>9, EmptySeq DEF Disconnected
  <2>2. subscribed' \in BOOLEAN
    BY <1>9, Zenon DEF Disconnected
  <2> QED
    BY <1>1, <1>9, <2>1, <2>2 DEF Disconnected, TypeOK, downloadVars, managerVars
<1>10. CASE GetOpenOrders
  <2>1. asked' \in BOOLEAN
    BY <1>10, Zenon DEF GetOpenOrders
  <2> QED
    BY <1>1, <1>10, <2>1 DEF GetOpenOrders, TypeOK, othersUnchanged, exchangeVars
<1>11. CASE TakeOpenOrders
  BY <1>1, <1>11 DEF TakeOpenOrders, TypeOK, othersUnchanged, exchangeVars
<1>12. ASSUME NEW success \in BOOLEAN, Commit(success)
       PROVE  /\ http' \in {"none", "sent", "taken"}
              /\ asked' \in BOOLEAN
              /\ response' \in BOOLEAN
              /\ obtained' \in BOOLEAN
              /\ snapshot' \in [Orders -> ExchangeStates]
  <2>1. response' \in BOOLEAN /\ obtained' \in BOOLEAN
    BY <1>12, Zenon DEF Commit
  <2> QED
    BY <1>1, <1>12, <2>1 DEF Commit, TypeOK, ExchangeStates
<1>13. CASE OpenOrdersAck
  <2>1. OrderStatus("live") \in Statuses
    BY DEF OrderStatus, Statuses
  <2>2. status \in [Orders -> Statuses]
    BY <1>1 DEF TypeOK, Statuses
  <2>3. \A o \in Orders : Updated(status[o], OrderStatus("live")) \in Statuses
    BY <2>1, <2>2, UpdatedIsStatus
  <2>4. status' \in [Orders -> Statuses]
    BY <1>13, <2>2, <2>3 DEF OpenOrdersAck
  <2> QED
    BY <1>1, <1>12, <1>13, <2>4 DEF OpenOrdersAck, TypeOK, Statuses, exchangeVars
<1>14. CASE OpenOrdersError
  BY <1>1, <1>12, <1>14 DEF OpenOrdersError, TypeOK, othersUnchanged, exchangeVars
<1>15. CASE UNCHANGED vars
  BY <1>1, <1>15 DEF vars, TypeOK
<1> QED
  BY <1>2, <1>3, <1>4, <1>5, <1>6, <1>7, <1>8, <1>9, <1>10, <1>11, <1>13, <1>14, <1>15,
     ExchangeTypeOK, ReceiveTypeOK DEF Next

-----------------------------------------------------------------------------
(* What the exchange did does not change, except that it may fail an       *)
(* amendment that it accepted, and finish an order that is live.           *)

Stable ==
    /\ \A a \in Actions :
        \/ result'[a] = result[a]
        \/ result[a] = "none"
        \/ a[2] = "modify" /\ a[1] \in amending /\ result'[a] = "refused"
    /\ \A o \in Orders :
        \/ exchange'[o] = exchange[o]
        \/ exchange[o] = "none"
        \/ exchange[o] = "live" /\ exchange'[o] # "none"

\* The request that the exchange takes is nowhere else.
LEMMA TakenOnce ==
    ASSUME IInv, up # <<>>, Request.op # "subscribe",
           NEW a \in Request.orders \X {Request.op}
    PROVE  /\ a \in Actions
           /\ Nowhere(Tail(up), Asks(a))
           /\ Nowhere(down, Replies(a))
           /\ a \in requested
           /\ answers[a] = 0
           /\ result[a] = "none"
<1>1. a \in Actions
  BY RequestParts DEF Actions
<1>2. Request \in Asks(a)
  BY RequestParts DEF Asks
<1>3. ActionInv(a)
  BY <1>1 DEF IInv
<1>4. ~Nowhere(up, Asks(a)) /\ Nowhere(Tail(up), Asks(a))
  BY <1>2, <1>3, OnceInTail DEF ActionInv, IInv, TypeOK, Request
<1> QED
  BY <1>1, <1>3, <1>4 DEF ActionInv

LEMMA NextStable == IInv /\ [Next]_vars => Stable
<1> SUFFICES ASSUME IInv, [Next]_vars PROVE Stable
  OBVIOUS
<1>1. TypeOK
  BY DEF IInv
<1>2. ASSUME UNCHANGED <<result, exchange>> PROVE Stable
  BY <1>2 DEF Stable
<1>3. ASSUME NEW refused, NEW pushes, Reply(refused, pushes), Request.op # "subscribe", up # <<>>,
             NEW a \in Actions
      PROVE  result'[a] = result[a] \/ result[a] = "none"
  BY <1>1, <1>3, TakenOnce DEF Reply, TypeOK
<1>4. CASE TakeCreate
  <2>1. \A a \in Actions : result'[a] = result[a] \/ result[a] = "none"
    BY <1>3, <1>4 DEF TakeCreate
  <2>2. ASSUME NEW o \in Orders PROVE exchange'[o] = exchange[o] \/ exchange[o] = "none"
    <3>1. CASE o \in Request.orders
      <4>1. <<o, "create">> \in Request.orders \X {Request.op}
        BY <1>4, <3>1 DEF TakeCreate
      <4>2. result[<<o, "create">>] = "none"
        BY <1>4, <4>1, TakenOnce DEF TakeCreate
      <4>3. OrderInv(o)
        BY DEF IInv
      <4> QED
        BY <4>2, <4>3 DEF OrderInv
    <3>2. CASE o \notin Request.orders
      BY <1>1, <1>4, <3>2 DEF TakeCreate, TypeOK
    <3> QED
      BY <3>1, <3>2
  <2> QED
    BY <2>1, <2>2 DEF Stable
<1>5. CASE TakeModify \/ Refuse
  <2>1. \A a \in Actions : result'[a] = result[a] \/ result[a] = "none"
    BY <1>3, <1>5 DEF TakeModify, Refuse
  <2>2. UNCHANGED exchange
    BY <1>5 DEF TakeModify, Refuse
  <2> QED
    BY <2>1, <2>2 DEF Stable
<1>6. CASE TakeCancel
  <2>1. \A a \in Actions : result'[a] = result[a] \/ result[a] = "none"
    BY <1>3, <1>6 DEF TakeCancel
  <2>2. \A o \in Orders :
            \/ exchange'[o] = exchange[o]
            \/ exchange[o] = "live" /\ exchange'[o] = "canceled"
    BY <1>1, <1>6 DEF TakeCancel, TypeOK
  <2> QED
    BY <2>1, <2>2 DEF Stable
<1>7. CASE Forbid
  <2>1. \A a \in Actions : result'[a] = result[a] \/ result[a] = "none"
    BY <1>1, <1>7, TakenOnce DEF Forbid, TypeOK
  <2>2. UNCHANGED exchange
    BY <1>7 DEF Forbid
  <2> QED
    BY <2>1, <2>2 DEF Stable
<1>8. ASSUME NEW o \in Orders, Fill(o) PROVE Stable
  BY <1>1, <1>8 DEF Fill, TypeOK, Stable
<1>9. ASSUME NEW o \in Orders, NEW amend \in {"done", "failed"}, Amended(o, amend) PROVE Stable
  <2>1. \A a \in Actions :
            \/ result'[a] = result[a]
            \/ a = <<o, "modify">> /\ result'[a] = "refused"
    BY <1>1, <1>9 DEF Amended, TypeOK
  <2>2. o \in amending /\ UNCHANGED exchange
    BY <1>9 DEF Amended
  <2> QED
    BY <2>1, <2>2 DEF Stable
<1>10. ASSUME NEW o \in Orders, CreateOrder(o) \/ ModifyOrder(o) \/ CancelOrder(o)
       PROVE  Stable
  BY <1>2, <1>10 DEF CreateOrder, ModifyOrder, CancelOrder, Submit, exchangeVars
<1>11. CASE CancelAllOrders \/ TakeSubscribe \/ Receive
  BY <1>2, <1>11 DEF CancelAllOrders, Submit, TakeSubscribe, Receive, exchangeVars
<1>12. CASE LoggedIn \/ Downloaded \/ DropCopyTimer \/ Disconnected
  BY <1>2, <1>12 DEF LoggedIn, Downloaded, DropCopyTimer, Disconnected, exchangeVars
<1>13. CASE GetOpenOrders \/ TakeOpenOrders \/ OpenOrdersAck \/ OpenOrdersError
  BY <1>2, <1>13 DEF GetOpenOrders, TakeOpenOrders, OpenOrdersAck, OpenOrdersError,
     othersUnchanged, exchangeVars
<1>14. CASE UNCHANGED vars
  BY <1>2, <1>14 DEF vars
<1> QED
  BY <1>4, <1>5, <1>6, <1>7, <1>8, <1>9, <1>10, <1>11, <1>12, <1>13, <1>14 DEF Next

\* So what a message tells remains true.
LEMMA SoundStays ==
    ASSUME IInv, Stable
    PROVE  SoundMessages \subseteq SoundMessages'
<1> SUFFICES ASSUME NEW m \in SoundMessages PROVE m \in SoundMessages'
  OBVIOUS
<1>1. m \in ExchangeMessage
  BY DEF SoundMessages
<1>2. ASSUME m.kind = "ack" PROVE SoundAck(m)'
  <2>1. SoundAck(m) /\ m.op \in Operations /\ m.orders \subseteq Orders
    BY <1>1, <1>2, MessageParts DEF SoundMessages
  <2>2. ASSUME NEW o \in m.orders
        PROVE  /\ ~m.data => o \in m.refused /\ result'[<<o, m.op>>] = "forbidden"
               /\ m.data /\ o \in m.refused => result'[<<o, m.op>>] = "refused"
               /\ m.data /\ o \notin m.refused /\ m.op # "modify"
                    => result'[<<o, m.op>>] = "accepted"
    <3>1. <<o, m.op>> \in Actions
      BY <2>1, ActionOf
    <3>2. ActionInv(<<o, m.op>>)
      BY <3>1 DEF IInv
    <3>3. m.op = "modify" /\ o \in amending => result[<<o, m.op>>] = "accepted"
      BY <3>2 DEF ActionInv
    <3>4. \/ result'[<<o, m.op>>] = result[<<o, m.op>>]
          \/ result[<<o, m.op>>] = "none"
          \/ m.op = "modify" /\ o \in amending /\ result'[<<o, m.op>>] = "refused"
      BY <3>1 DEF Stable
    <3> QED
      BY <2>1, <3>3, <3>4 DEF SoundAck
  <2> QED
    BY <2>1, <2>2 DEF SoundAck
<1>3. ASSUME m.kind = "push" PROVE SoundPush(m)'
  <2>1. SoundPush(m) /\ m.order \in Orders
    BY <1>1, <1>3, MessageParts DEF SoundMessages
  <2>2. <<m.order, "modify">> \in Actions
    BY <2>1, ActionOf DEF Operations
  <2>3. \/ exchange'[m.order] = exchange[m.order]
        \/ exchange[m.order] = "live" /\ exchange'[m.order] # "none"
    BY <2>1 DEF Stable, SoundPush
  <2>4. m.amend = "failed" => result'[<<m.order, "modify">>] = "refused"
    BY <2>1, <2>2 DEF Stable, SoundPush
  <2> QED
    BY <2>1, <2>3, <2>4 DEF SoundPush
<1> QED
  BY <1>1, <1>2, <1>3 DEF SoundMessages, ExchangeMessage

-----------------------------------------------------------------------------
(* What is on its way is sound. *)

LEMMA SubmitSound ==
    ASSUME IInv, NEW op \in Operations, NEW orders \in SUBSET Orders, Submit(op, orders),
           op # "cancel all" => \E o \in Orders : orders = {o}
    PROVE  up' \in Seq(SoundRequests) /\ UNCHANGED down
<1>1. [op |-> op, orders |-> orders] \in SoundRequests
  BY DEF SoundRequests, RequestMessage
<1> QED
  BY <1>1, AppendProperties DEF Submit, IInv

\* When an acknowledgement, or a message of the ORDERS channel, is sound after a step.
LEMMA AckSound ==
    ASSUME NEW m \in ExchangeMessage, m.kind = "ack",
           m.refused \subseteq m.orders,
           m.op # "cancel all" => \E o \in Orders : m.orders = {o},
           \A o \in m.orders :
                /\ ~m.data => o \in m.refused /\ result'[<<o, m.op>>] = "forbidden"
                /\ m.data /\ o \in m.refused => result'[<<o, m.op>>] = "refused"
                /\ m.data /\ o \notin m.refused /\ m.op # "modify"
                        => result'[<<o, m.op>>] = "accepted"
    PROVE  m \in SoundMessages'
<1>1. SoundAck(m)'
  BY DEF SoundAck
<1> QED
  BY <1>1 DEF SoundMessages, ExchangeMessage

LEMMA PushSound ==
    ASSUME NEW m \in ExchangeMessage, m.kind = "push",
           m.state # "none",
           exchange'[m.order] # "none",
           m.state # "live" => exchange'[m.order] = m.state,
           m.amend = "failed" => result'[<<m.order, "modify">>] = "refused"
    PROVE  m \in SoundMessages'
<1>1. SoundPush(m)'
  BY DEF SoundPush
<1> QED
  BY <1>1 DEF SoundMessages, ExchangeMessage

LEMMA ReplySound ==
    ASSUME IInv, Stable, up # <<>>, Request.op # "subscribe",
           NEW refused \in SUBSET Request.orders, NEW pushes, Reply(refused, pushes),
           pushes \subseteq Seq(SoundMessages')
    PROVE  down' \in Seq(SoundMessages')
<1> DEFINE m == Ack(Request, refused, TRUE)
<1>1. /\ m \in ExchangeMessage
      /\ m.kind = "ack" /\ m.op = Request.op /\ m.orders = Request.orders
      /\ m.refused = refused /\ m.data = TRUE
  BY RequestParts, AckIsMessage DEF Ack
<1>2. m.op # "cancel all" => \E o \in Orders : m.orders = {o}
  BY <1>1, RequestParts DEF SoundRequests
<1>3. \A o \in Request.orders :
          result'[<<o, Request.op>>] = IF o \in refused THEN "refused" ELSE "accepted"
  <2> SUFFICES ASSUME NEW o \in Request.orders
               PROVE  result'[<<o, Request.op>>] = IF o \in refused THEN "refused" ELSE "accepted"
    OBVIOUS
  <2>1. <<o, Request.op>> \in Request.orders \X {Request.op}
    OBVIOUS
  <2>2. <<o, Request.op>> \in Actions
    BY <2>1, TakenOnce
  <2> QED
    BY <2>1, <2>2 DEF Reply
<1> HIDE DEF m
<1>5. m \in SoundMessages'
  BY <1>1, <1>2, <1>3, AckSound
<1>6. down \in Seq(SoundMessages')
  BY SoundStays, SeqMonotonic DEF IInv
<1>7. \A messages \in pushes : Nowhere(messages, {})
  BY DEF Nowhere
<1> QED
  BY <1>5, <1>6, <1>7, ReplyAdds DEF m

\* What the ORDERS channel sends when some orders get a state.
LEMMA PushesSound ==
    ASSUME NEW orders \in SUBSET Orders, NEW state \in ExchangeStates \ {"none"},
           \A o \in orders : exchange'[o] = state
    PROVE  Pushes(orders, state) \subseteq Seq(SoundMessages')
<1>1. ASSUME NEW o \in orders PROVE Push(o, state, "none") \in SoundMessages'
  <2>1. Push(o, state, "none") \in ExchangeMessage
    BY PushIsMessage
  <2> QED
    BY <2>1, PushSound DEF Push
<1> QED
  BY <1>1, PushesAreSeqs

LEMMA NextSound ==
    IInv /\ [Next]_vars => up' \in Seq(SoundRequests) /\ down' \in Seq(SoundMessages')
<1> SUFFICES ASSUME IInv, [Next]_vars
             PROVE  up' \in Seq(SoundRequests) /\ down' \in Seq(SoundMessages')
  OBVIOUS
<1>1. /\ TypeOK
      /\ Stable
      /\ up \in Seq(SoundRequests)
      /\ down \in Seq(SoundMessages')
  BY NextStable, SoundStays, SeqMonotonic DEF IInv
<1>2. up # <<>> => Tail(up) \in Seq(SoundRequests)
  BY RequestParts
<1>3. ASSUME NEW o \in Orders, CreateOrder(o) \/ ModifyOrder(o) \/ CancelOrder(o)
      PROVE  up' \in Seq(SoundRequests) /\ UNCHANGED down
  <2>1. \E op \in Operations : Submit(op, {o})
    BY <1>3 DEF CreateOrder, ModifyOrder, CancelOrder, Operations
  <2> QED
    BY <2>1, SubmitSound
<1>4. CASE CancelAllOrders
  <2>1. Open \intersect external \subseteq Orders /\ "cancel all" \in Operations
    BY DEF Open, Operations
  <2>2. up' \in Seq(SoundRequests) /\ UNCHANGED down
    BY <1>4, <2>1, SubmitSound DEF CancelAllOrders
  <2> QED
    BY <2>2, <1>1
<1>5. CASE TakeSubscribe
  <2>1. [kind |-> "subscribed"] \in SoundMessages'
    BY DEF SoundMessages, ExchangeMessage
  <2> QED
    BY <1>1, <1>2, <1>5, <2>1, AppendProperties DEF TakeSubscribe
<1>6. CASE TakeCreate
  <2>1. Request.orders \subseteq Orders
    BY <1>6, RequestParts DEF TakeCreate
  <2>2. \A o \in Request.orders : exchange'[o] = "live"
    BY <1>6, <2>1 DEF TakeCreate
  <2>3. Pushes(Request.orders, "live") \subseteq Seq(SoundMessages')
    BY <2>1, <2>2, PushesSound DEF ExchangeStates
  <2> QED
    BY <1>1, <1>2, <1>6, <2>3, ReplySound DEF TakeCreate, Reply
<1>7. CASE TakeModify
  BY <1>1, <1>2, <1>7, NoPushesAreSeqs, ReplySound DEF TakeModify, Reply
<1>8. CASE Refuse
  BY <1>1, <1>2, <1>8, NoPushesAreSeqs, ReplySound DEF Refuse, Reply
<1>9. CASE TakeCancel
  <2> DEFINE live == {o \in Request.orders : exchange[o] = "live"}
  <2>1. Request.orders \subseteq Orders /\ live \subseteq Orders
    BY <1>9, RequestParts DEF TakeCancel
  <2>2. /\ up # <<>> /\ Request.op # "subscribe"
        /\ exchange' = [o \in Orders |-> IF o \in live THEN "canceled" ELSE exchange[o]]
        /\ Reply(Request.orders \ live, Pushes(live, "canceled"))
    BY <1>9 DEF TakeCancel
  <2> HIDE DEF live
  <2>3. \A o \in live : exchange'[o] = "canceled"
    BY <2>1, <2>2
  <2>4. Pushes(live, "canceled") \subseteq Seq(SoundMessages')
    BY <2>1, <2>3, PushesSound DEF ExchangeStates
  <2>5. down' \in Seq(SoundMessages')
    BY <1>1, <2>2, <2>4, ReplySound
  <2> QED
    BY <1>2, <2>2, <2>5 DEF Reply
<1>10. CASE Forbid
  <2> DEFINE m == Ack(Request, Request.orders, FALSE)
  <2>1. up # <<>> /\ Request.op # "subscribe" /\ Request.orders \subseteq Orders
    BY <1>10, RequestParts DEF Forbid
  <2>2. /\ m \in ExchangeMessage
        /\ m.kind = "ack" /\ m.op = Request.op /\ m.orders = Request.orders
        /\ m.refused = Request.orders /\ m.data = FALSE
    BY <2>1, RequestParts, AckIsMessage DEF Ack
  <2>3. m.op # "cancel all" => \E o \in Orders : m.orders = {o}
    BY <2>1, <2>2, RequestParts DEF SoundRequests
  <2>4. \A o \in Request.orders : result'[<<o, Request.op>>] = "forbidden"
    BY <1>10, <2>1, TakenOnce DEF Forbid
  <2>5. down' = Append(down, m) /\ up' = Tail(up)
    BY <1>10 DEF Forbid
  <2> HIDE DEF m
  <2>7. m \in SoundMessages'
    BY <2>2, <2>3, <2>4, AckSound
  <2> QED
    BY <1>1, <1>2, <2>1, <2>5, <2>7, AppendProperties
<1>11. ASSUME NEW o \in Orders, Fill(o) PROVE down' \in Seq(SoundMessages') /\ UNCHANGED up
  <2>1. \A p \in {o} : exchange'[p] = "filled"
    BY <1>1, <1>11 DEF Fill, TypeOK
  <2>2. Pushes({o}, "filled") \subseteq Seq(SoundMessages')
    BY <2>1, PushesSound DEF ExchangeStates
  <2> QED
    BY <1>1, <1>11, <2>2, ConcatProperties DEF Fill
<1>12. ASSUME NEW o \in Orders, NEW amend \in {"done", "failed"}, Amended(o, amend)
       PROVE  down' \in Seq(SoundMessages') /\ UNCHANGED up
  <2> DEFINE m == Push(o, exchange[o], amend)
  <2>1. m \in ExchangeMessage
    BY <1>1, PushIsMessage DEF TypeOK
  <2>2. m.kind = "push" /\ m.order = o /\ m.state = exchange[o] /\ m.amend = amend
    BY DEF Push
  <2>3. exchange[o] # "none" /\ UNCHANGED exchange
    BY <1>12 DEF Amended, IInv, OrderInv
  <2>4. amend = "failed" => result'[<<o, "modify">>] = "refused"
    <3>1. <<o, "modify">> \in Actions
      BY ActionOf DEF Operations
    <3> QED
      BY <1>1, <1>12, <3>1 DEF Amended, TypeOK
  <2>5. down' = IF subscribed THEN Append(down, m) ELSE down
    BY <1>12 DEF Amended
  <2> HIDE DEF m
  <2>7. m \in SoundMessages'
    BY <2>1, <2>2, <2>3, <2>4, PushSound
  <2> QED
    BY <1>1, <1>12, <2>5, <2>7, AppendProperties DEF Amended
<1>13. ASSUME NEW s, Enter(s) PROVE up' \in Seq(SoundRequests)
  <2>1. [op |-> "subscribe", orders |-> {}] \in SoundRequests
    BY DEF SoundRequests, RequestMessage
  <2> QED
    BY <1>1, <1>13, <2>1, AppendProperties DEF Enter
<1>14. CASE Receive
  <2>1. down' \in Seq(SoundMessages')
    BY <1>1, <1>14, HeadTailProperties DEF Receive
  <2>2. up' \in Seq(SoundRequests)
    BY <1>1, <1>13, <1>14 DEF Receive, ReceiveAck, ReceivePush, ReceiveSubscribed
  <2> QED
    BY <2>1, <2>2
<1>15. CASE Downloaded \/ DropCopyTimer
  BY <1>1, <1>13, <1>15 DEF Downloaded, DropCopyTimer
<1>16. CASE Disconnected
  BY <1>16, EmptySeq DEF Disconnected
<1>17. CASE \/ LoggedIn \/ GetOpenOrders \/ TakeOpenOrders \/ OpenOrdersAck \/ OpenOrdersError
            \/ UNCHANGED vars
  <2>1. UNCHANGED <<up, down>>
    BY <1>17 DEF LoggedIn, GetOpenOrders, TakeOpenOrders, OpenOrdersAck, OpenOrdersError,
       othersUnchanged, vars
  <2> QED
    BY <1>1, <2>1
<1> QED
  BY <1>1, <1>3, <1>4, <1>5, <1>6, <1>7, <1>8, <1>9, <1>10, <1>11, <1>12, <1>14, <1>15, <1>16,
     <1>17 DEF Next

-----------------------------------------------------------------------------
(* A request for an action is in one place at a time. *)

\* A step that neither asks for, moves nor answers it.
LEMMA ActionKept ==
    ASSUME NEW a \in Actions, ActionInv(a),
           Nowhere(up, Asks(a)) => Nowhere(up', Asks(a)),
           AtMostOnce(up, Asks(a)) => AtMostOnce(up', Asks(a)),
           Nowhere(down, Replies(a)) => Nowhere(down', Replies(a)),
           AtMostOnce(down, Replies(a)) => AtMostOnce(down', Replies(a)),
           requested \subseteq requested',
           answers'[a] = answers[a],
           verdict'[a] = verdict[a],
           result'[a] = result[a],
           a[2] = "modify" /\ a[1] \in amending' => a[1] \in amending
    PROVE  ActionInv(a)'
  BY DEF ActionInv

LEMMA SubmitActions ==
    ASSUME IInv, NEW op \in Operations, NEW orders \in SUBSET Orders, Submit(op, orders),
           NEW a \in Actions
    PROVE  ActionInv(a)'
<1> DEFINE r == [op |-> op, orders |-> orders]
<1>1. r \in RequestMessage
  BY DEF RequestMessage
<1>2. ActionInv(a) /\ up \in Seq(RequestMessage)
  BY DEF IInv, TypeOK
<1>3. /\ up' = Append(up, r)
      /\ requested' = requested \union (orders \X {op})
      /\ UNCHANGED <<down, answers, verdict, result, amending>>
  BY DEF Submit, exchangeVars
<1>4. CASE a \in orders \X {op}
  <2>1. a \notin requested
    BY <1>4 DEF Submit
  <2>2. /\ Nowhere(up, Asks(a))
        /\ Nowhere(down, Replies(a))
        /\ answers[a] = 0
        /\ result[a] = "none"
        /\ ~(a[2] = "modify" /\ a[1] \in amending)
    BY <1>2, <2>1 DEF ActionInv
  <2>3. AtMostOnce(up', Asks(a))
    BY <1>1, <1>2, <1>3, <2>2, OnceInAppend
  <2> QED
    BY <1>2, <1>3, <1>4, <2>2, <2>3 DEF ActionInv
<1>5. CASE a \notin orders \X {op}
  <2>1. r \notin Asks(a)
    BY <1>5 DEF Asks
  <2>2. /\ Nowhere(up, Asks(a)) => Nowhere(up', Asks(a))
        /\ AtMostOnce(up, Asks(a)) => AtMostOnce(up', Asks(a))
    BY <1>1, <1>2, <1>3, <2>1, OnceInAppend
  <2> QED
    BY <1>2, <1>3, <2>2, ActionKept
<1> QED
  BY <1>4, <1>5

LEMMA ReplyActions ==
    ASSUME IInv, up # <<>>, Request.op # "subscribe",
           NEW refused \in SUBSET Request.orders, NEW pushes, Reply(refused, pushes),
           pushes \subseteq Seq(ExchangeMessage),
           NEW a \in Actions,
           \A messages \in pushes : Nowhere(messages, Replies(a)),
           UNCHANGED <<requested, answers, verdict>>,
           \/ amending' = amending
           \/ /\ amending' = amending \union Request.orders
              /\ Request.op = "modify"
              /\ refused = {}
    PROVE  ActionInv(a)'
<1> DEFINE ack == Ack(Request, refused, TRUE)
<1>1. /\ ack \in ExchangeMessage
      /\ ack.kind = "ack" /\ ack.op = Request.op /\ ack.orders = Request.orders
      /\ ack.refused = refused /\ ack.data = TRUE
  BY RequestParts, AckIsMessage DEF Ack
<1>2. /\ ActionInv(a)
      /\ up \in Seq(RequestMessage)
      /\ down \in Seq(ExchangeMessage)
      /\ result \in [Actions -> {"none", "accepted", "refused", "forbidden"}]
  BY DEF IInv, TypeOK
<1>3. /\ Nowhere(down, Replies(a)) /\ ack \notin Replies(a) => Nowhere(down', Replies(a))
      /\ Nowhere(down, Replies(a)) => AtMostOnce(down', Replies(a))
      /\ AtMostOnce(down, Replies(a)) /\ ack \notin Replies(a) => AtMostOnce(down', Replies(a))
  BY <1>1, <1>2, ReplyAdds
<1>4. /\ Nowhere(up, Asks(a)) => Nowhere(up', Asks(a))
      /\ AtMostOnce(up, Asks(a)) => AtMostOnce(up', Asks(a))
  BY <1>2, OnceInTail DEF Reply
<1>5. ack \in Replies(a) => a \in Acknowledged(ack) \X {Request.op}
  BY <1>1 DEF Replies
<1>6. Acknowledged(ack) \subseteq Request.orders
  BY <1>1 DEF Acknowledged
<1>7. Request.op = "modify" => Acknowledged(ack) = refused
  BY <1>1 DEF Acknowledged
<1> HIDE DEF ack
<1>8. CASE a \in Request.orders \X {Request.op}
  <2>1. /\ Nowhere(Tail(up), Asks(a))
        /\ Nowhere(down, Replies(a))
        /\ a \in requested
        /\ answers[a] = 0
        /\ result[a] = "none"
    BY <1>8, TakenOnce
  <2>2. Nowhere(up', Asks(a)) /\ AtMostOnce(up', Asks(a))
    BY <2>1 DEF Reply, Nowhere, AtMostOnce
  <2>3. result'[a] = IF a[1] \in refused THEN "refused" ELSE "accepted"
    BY <1>2, <1>8 DEF Reply
  <2>4. ~(a[2] = "modify" /\ a[1] \in amending)
    BY <1>2, <2>1 DEF ActionInv
  <2>5. CASE amending' = amending
    BY <1>2, <1>3, <2>1, <2>2, <2>4, <2>5 DEF ActionInv
  <2>6. CASE Request.op = "modify" /\ refused = {}
    <3>1. ack \notin Replies(a)
      BY <1>5, <1>7, <2>6
    <3> QED
      BY <1>2, <1>3, <2>1, <2>2, <2>3, <2>6, <3>1 DEF ActionInv
  <2> QED
    BY <2>5, <2>6
<1>9. CASE a \notin Request.orders \X {Request.op}
  <2>1. ack \notin Replies(a)
    BY <1>5, <1>6, <1>9
  <2>2. result'[a] = result[a]
    BY <1>2, <1>9 DEF Reply
  <2>3. a[2] = "modify" /\ a[1] \in amending' => a[1] \in amending
    BY <1>9, ActionParts
  <2> QED
    BY <1>2, <1>3, <1>4, <2>1, <2>2, <2>3, ActionKept
<1> QED
  BY <1>8, <1>9

\* A message that answers nothing yet, a push or the acknowledgement of a subscription.
LEMMA PlainPushes ==
    ASSUME NEW a \in Actions, NEW o, NEW state
    PROVE  Push(o, state, "none") \notin Replies(a)
  BY DEF Push, Replies

LEMMA StatePushesAnswerNothing ==
    ASSUME NEW orders \in SUBSET Orders, NEW state, NEW a \in Actions
    PROVE  \A messages \in Pushes(orders, state) : Nowhere(messages, Replies(a))
  BY PlainPushes, PushesNowhere

LEMMA NoPushesAnswerNothing ==
    ASSUME NEW a \in Actions
    PROVE  \A messages \in {<<>>} : Nowhere(messages, Replies(a))
  BY NowhereInEmpty

\* A Response to an action is the end of its request.
LEMMA ReceiveActions == IInv /\ Receive => \A a \in Actions : ActionInv(a)'
<1> SUFFICES ASSUME IInv, Receive, NEW a \in Actions PROVE ActionInv(a)'
  OBVIOUS
<1> DEFINE m == Head(down)
<1>1. /\ down # <<>> /\ down' = Tail(down)
      /\ UNCHANGED <<requested, result, amending>>
  BY DEF Receive, exchangeVars
<1>2. /\ ActionInv(a)
      /\ down \in Seq(ExchangeMessage)
      /\ up \in Seq(RequestMessage)
      /\ answers \in [Actions -> Nat]
      /\ verdict \in [Actions -> {"none", "ACCEPTED", "REJECTED"}]
      /\ m \in ExchangeMessage
  BY <1>1, HeadTailProperties DEF IInv, TypeOK
<1>3. /\ Nowhere(down, Replies(a)) => m \notin Replies(a) /\ Nowhere(down', Replies(a))
      /\ AtMostOnce(down, Replies(a)) => AtMostOnce(down', Replies(a))
      /\ AtMostOnce(down, Replies(a)) /\ m \in Replies(a) => Nowhere(down', Replies(a))
  BY <1>1, <1>2, OnceInTail
<1> HIDE DEF m
<1>4. ASSUME NEW actions, NEW requestStatus \in {"ACCEPTED", "REJECTED"},
             Respond(actions, requestStatus), UNCHANGED up,
             a \in actions <=> m \in Replies(a)
      PROVE  ActionInv(a)'
  <2>1. CASE m \in Replies(a)
    <3>1. /\ answers'[a] = answers[a] + 1
          /\ verdict'[a] = requestStatus
      BY <1>2, <1>4, <2>1 DEF Respond
    <3>2. ~Nowhere(down, Replies(a)) /\ Nowhere(down', Replies(a))
      BY <1>2, <1>3, <2>1 DEF ActionInv
    <3>3. /\ answers[a] = 0 /\ a \in requested
          /\ a[2] = "modify" => a[1] \notin amending
          /\ Nowhere(up, Asks(a))
      BY <1>2, <3>2 DEF ActionInv
    <3>4. answers'[a] = 1 /\ verdict'[a] # "none"
      BY <3>1, <3>3
    <3> QED
      BY <1>1, <1>2, <1>3, <1>4, <3>2, <3>3, <3>4 DEF ActionInv
  <2>2. CASE m \notin Replies(a)
    <3>1. answers'[a] = answers[a] /\ verdict'[a] = verdict[a]
      BY <1>2, <1>4, <2>2 DEF Respond
    <3> QED
      BY <1>1, <1>2, <1>3, <1>4, <3>1, ActionKept
  <2> QED
    BY <2>1, <2>2
<1>5. CASE m.kind = "ack" /\ ReceiveAck(m)
  <2>1. RequestStatus(m) \in {"ACCEPTED", "REJECTED"}
    BY DEF RequestStatus
  <2>2. a \in Acknowledged(m) \X {m.op} <=> m \in Replies(a)
    BY <1>2, <1>5 DEF Replies
  <2> QED
    BY <1>4, <1>5, <2>1, <2>2 DEF ReceiveAck
<1>6. CASE m.kind = "push" /\ ReceivePush(m)
  <2>1. a \in (IF m.amend = "failed" THEN {<<m.order, "modify">>} ELSE {})
            <=> m \in Replies(a)
    BY <1>2, <1>6 DEF Replies
  <2> QED
    BY <1>4, <1>6, <2>1 DEF ReceivePush
<1>7. CASE m.kind = "subscribed" /\ ReceiveSubscribed
  <2>1. UNCHANGED <<up, answers, verdict>>
    BY <1>7, NextStages DEF ReceiveSubscribed, Enter, managerVars
  <2> QED
    BY <1>1, <1>2, <1>3, <2>1, ActionKept
<1> QED
  BY <1>5, <1>6, <1>7 DEF Receive, m

LEMMA NextActions == IInv /\ [Next]_vars => \A a \in Actions : ActionInv(a)'
<1> SUFFICES ASSUME IInv, [Next]_vars, NEW a \in Actions PROVE ActionInv(a)'
  OBVIOUS
<1>1. /\ ActionInv(a)
      /\ up \in Seq(RequestMessage)
      /\ down \in Seq(ExchangeMessage)
      /\ result \in [Actions -> {"none", "accepted", "refused", "forbidden"}]
      /\ "modify" \in Operations
  BY DEF IInv, TypeOK, Operations
<1>2. up # <<>> =>
          /\ Request.orders \subseteq Orders
          /\ Nowhere(up, Asks(a)) => Nowhere(Tail(up), Asks(a))
          /\ AtMostOnce(up, Asks(a)) => AtMostOnce(Tail(up), Asks(a))
  BY <1>1, RequestParts, OnceInTail
<1>3. ASSUME NEW o \in Orders, CreateOrder(o) \/ ModifyOrder(o) \/ CancelOrder(o)
      PROVE  ActionInv(a)'
  <2>1. \E op \in Operations : Submit(op, {o})
    BY <1>3 DEF CreateOrder, ModifyOrder, CancelOrder, Operations
  <2> QED
    BY <2>1, SubmitActions
<1>4. CASE CancelAllOrders
  <2>1. Open \intersect external \subseteq Orders /\ "cancel all" \in Operations
    BY DEF Open, Operations
  <2> QED
    BY <1>4, <2>1, SubmitActions DEF CancelAllOrders
<1>5. CASE TakeSubscribe
  <2>1. /\ [kind |-> "subscribed"] \in ExchangeMessage
        /\ [kind |-> "subscribed"] \notin Replies(a)
    BY DEF ExchangeMessage, Replies
  <2>2. /\ Nowhere(down, Replies(a)) => Nowhere(down', Replies(a))
        /\ AtMostOnce(down, Replies(a)) => AtMostOnce(down', Replies(a))
    BY <1>1, <1>5, <2>1, OnceInAppend DEF TakeSubscribe
  <2> QED
    BY <1>1, <1>2, <1>5, <2>2, ActionKept DEF TakeSubscribe, exchangeUnchanged, managerVars
<1>6. CASE TakeCreate
  <2>1. up # <<>> /\ Request.orders \in SUBSET Orders
    BY <1>2, <1>6 DEF TakeCreate
  <2>2. /\ Pushes(Request.orders, "live") \subseteq Seq(ExchangeMessage)
        /\ \A messages \in Pushes(Request.orders, "live") : Nowhere(messages, Replies(a))
    BY <2>1, StatePushesAreSeqs, StatePushesAnswerNothing DEF ExchangeStates
  <2> QED
    BY <1>6, <2>1, <2>2, ReplyActions DEF TakeCreate, exchangeUnchanged, managerVars
<1>0. ASSUME NEW refused \in SUBSET Request.orders, Reply(refused, {<<>>}),
             up # <<>>, Request.op # "subscribe",
             UNCHANGED <<requested, answers, verdict>>,
             \/ amending' = amending
             \/ /\ amending' = amending \union Request.orders
                /\ Request.op = "modify"
                /\ refused = {}
      PROVE  ActionInv(a)'
  <2> DEFINE pushes == {<<>>}
  <2>1. /\ pushes \subseteq Seq(ExchangeMessage)
        /\ \A messages \in pushes : Nowhere(messages, Replies(a))
        /\ Reply(refused, pushes)
    BY <1>0, NoPushesAreSeqs, NoPushesAnswerNothing
  <2> HIDE DEF pushes
  <2> QED
    BY <1>0, <2>1, ReplyActions
<1>7. CASE TakeModify
  <2>1. /\ up # <<>> /\ Request.op = "modify"
        /\ amending' = amending \union Request.orders
        /\ Reply({}, {<<>>})
        /\ UNCHANGED <<requested, answers, verdict>>
    BY <1>7 DEF TakeModify, exchangeUnchanged, managerVars
  <2>2. {} \in SUBSET Request.orders
    OBVIOUS
  <2> QED
    BY <1>0, <2>1, <2>2
<1>8. CASE Refuse
  <2>1. /\ up # <<>> /\ Request.op # "subscribe"
        /\ amending' = amending
        /\ Reply(Request.orders, {<<>>})
        /\ UNCHANGED <<requested, answers, verdict>>
    BY <1>8 DEF Refuse, exchangeUnchanged, managerVars
  <2>2. Request.orders \in SUBSET Request.orders
    OBVIOUS
  <2> QED
    BY <1>0, <2>1, <2>2
<1>9. CASE TakeCancel
  <2> DEFINE live == {o \in Request.orders : exchange[o] = "live"}
  <2>1. up # <<>> /\ Request.op # "subscribe" /\ live \in SUBSET Orders
    BY <1>2, <1>9 DEF TakeCancel
  <2>2. /\ Pushes(live, "canceled") \subseteq Seq(ExchangeMessage)
        /\ \A messages \in Pushes(live, "canceled") : Nowhere(messages, Replies(a))
    BY <2>1, StatePushesAreSeqs, StatePushesAnswerNothing DEF ExchangeStates
  <2>3. /\ Reply(Request.orders \ live, Pushes(live, "canceled"))
        /\ UNCHANGED <<amending, requested, answers, verdict>>
    BY <1>9 DEF TakeCancel, exchangeUnchanged, managerVars
  <2> HIDE DEF live
  <2> QED
    BY <2>1, <2>2, <2>3, ReplyActions
<1>10. CASE Forbid
  <2> DEFINE m == Ack(Request, Request.orders, FALSE)
  <2>1. up # <<>> /\ Request.op # "subscribe"
    BY <1>10 DEF Forbid
  <2>2. /\ m \in ExchangeMessage
        /\ m.kind = "ack" /\ m.op = Request.op /\ m.orders = Request.orders
        /\ m.data = FALSE
    BY <2>1, <1>2, RequestParts, AckIsMessage DEF Ack
  <2>3. m \in Replies(a) => a \in Request.orders \X {Request.op}
    BY <2>2 DEF Replies, Acknowledged
  <2>4. /\ up' = Tail(up)
        /\ down' = Append(down, m)
        /\ result' = [b \in Actions |->
              IF b \in Request.orders \X {Request.op} THEN "forbidden" ELSE result[b]]
        /\ UNCHANGED <<amending, requested, answers, verdict>>
    BY <1>10 DEF Forbid, exchangeUnchanged, managerVars
  <2> HIDE DEF m
  <2>5. /\ Nowhere(down, Replies(a)) /\ m \notin Replies(a) => Nowhere(down', Replies(a))
        /\ Nowhere(down, Replies(a)) => AtMostOnce(down', Replies(a))
        /\ AtMostOnce(down, Replies(a)) /\ m \notin Replies(a) => AtMostOnce(down', Replies(a))
    BY <1>1, <2>2, <2>4, OnceInAppend
  <2>6. CASE a \in Request.orders \X {Request.op}
    <3>1. /\ Nowhere(up', Asks(a))
          /\ Nowhere(down, Replies(a))
          /\ a \in requested
          /\ answers[a] = 0
          /\ result[a] = "none"
      BY <2>1, <2>4, <2>6, TakenOnce
    <3>2. AtMostOnce(up', Asks(a))
      BY <3>1 DEF Nowhere, AtMostOnce
    <3>3. ~(a[2] = "modify" /\ a[1] \in amending)
      BY <1>1, <3>1 DEF ActionInv
    <3> QED
      BY <1>1, <2>4, <2>5, <3>1, <3>2, <3>3 DEF ActionInv
  <2>7. CASE a \notin Request.orders \X {Request.op}
    <3>1. result'[a] = result[a]
      BY <2>4, <2>7
    <3> QED
      BY <1>1, <1>2, <2>1, <2>3, <2>4, <2>5, <2>7, <3>1, ActionKept
  <2> QED
    BY <2>6, <2>7
<1>11. ASSUME NEW o \in Orders, Fill(o) PROVE ActionInv(a)'
  <2>1. PICK messages \in Pushes({o}, "filled") : down' = down \o messages
    BY <1>11 DEF Fill
  <2>2. messages \in Seq(ExchangeMessage) /\ Nowhere(messages, Replies(a))
    BY StatePushesAreSeqs, StatePushesAnswerNothing DEF ExchangeStates
  <2>3. /\ Nowhere(down, Replies(a)) => Nowhere(down', Replies(a))
        /\ AtMostOnce(down, Replies(a)) => AtMostOnce(down', Replies(a))
    BY <1>1, <2>1, <2>2, OnceInConcat
  <2> QED
    BY <1>1, <1>11, <2>3, ActionKept DEF Fill, exchangeUnchanged, managerVars
<1>12. ASSUME NEW o \in Orders, NEW amend \in {"done", "failed"}, Amended(o, amend)
       PROVE  ActionInv(a)'
  <2> DEFINE m == Push(o, exchange[o], amend)
  <2>1. m \in ExchangeMessage
    BY PushIsMessage DEF IInv, TypeOK
  <2>2. m \in Replies(a) => amend = "failed" /\ a = <<o, "modify">>
    BY DEF Push, Replies
  <2>3. /\ o \in amending
        /\ amending' = amending \ {o}
        /\ down' = IF subscribed THEN Append(down, m) ELSE down
        /\ result' = IF amend = "done" THEN result
                     ELSE [result EXCEPT ![<<o, "modify">>] = "refused"]
        /\ UNCHANGED <<up, requested, answers, verdict>>
    BY <1>12 DEF Amended, managerVars
  <2> HIDE DEF m
  <2>4. /\ Nowhere(down, Replies(a)) /\ m \notin Replies(a) => Nowhere(down', Replies(a))
        /\ Nowhere(down, Replies(a)) => AtMostOnce(down', Replies(a))
        /\ AtMostOnce(down, Replies(a)) /\ m \notin Replies(a) => AtMostOnce(down', Replies(a))
    <3>1. CASE subscribed
      BY <1>1, <2>1, <2>3, <3>1, OnceInAppend
    <3>2. CASE ~subscribed
      BY <2>3, <3>2 DEF Nowhere, AtMostOnce
    <3> QED
      BY <3>1, <3>2
  <2>5. CASE a = <<o, "modify">>
    <3>1. /\ a \in requested
          /\ answers[a] = 0
          /\ result[a] = "accepted"
          /\ Nowhere(up, Asks(a))
          /\ Nowhere(down, Replies(a))
      BY <1>1, <2>3, <2>5 DEF ActionInv
    <3>2. a[1] \notin amending'
      BY <2>3, <2>5
    <3> QED
      BY <1>1, <2>3, <2>4, <3>1, <3>2 DEF ActionInv
  <2>6. CASE a # <<o, "modify">>
    <3>1. result'[a] = result[a] /\ m \notin Replies(a)
      BY <1>1, <2>2, <2>3, <2>6
    <3> QED
      BY <1>1, <2>3, <2>4, <3>1, ActionKept
  <2> QED
    BY <2>5, <2>6
<1>13. CASE Downloaded \/ DropCopyTimer
  <2> DEFINE r == [op |-> "subscribe", orders |-> {}]
  <2>1. r \in RequestMessage
    BY DEF RequestMessage
  <2>2. r \notin Asks(a)
    BY DEF Asks
  <2>3. up' = Append(up, r) \/ up' = up
    BY <1>13 DEF Downloaded, DropCopyTimer, Enter
  <2> HIDE DEF r
  <2>4. /\ Nowhere(up, Asks(a)) => Nowhere(up', Asks(a))
        /\ AtMostOnce(up, Asks(a)) => AtMostOnce(up', Asks(a))
    <3>1. CASE up' = Append(up, r)
      BY <1>1, <2>1, <2>2, <3>1, OnceInAppend
    <3>2. CASE up' = up
      BY <3>2 DEF Nowhere, AtMostOnce
    <3> QED
      BY <2>3, <3>1, <3>2
  <2>5. UNCHANGED <<down, requested, answers, verdict, result, amending>>
    BY <1>13 DEF Downloaded, DropCopyTimer, exchangeVars, managerVars
  <2> QED
    BY <1>1, <2>4, <2>5, ActionKept
<1>14. CASE Disconnected
  <2>1. up' = <<>> /\ down' = <<>> /\ UNCHANGED <<requested, answers, verdict, result, amending>>
    BY <1>14 DEF Disconnected, managerVars
  <2>2. /\ Nowhere(up', Asks(a)) /\ AtMostOnce(up', Asks(a))
        /\ Nowhere(down', Replies(a)) /\ AtMostOnce(down', Replies(a))
    BY <2>1, NowhereInEmpty
  <2> QED
    BY <1>1, <2>1, <2>2, ActionKept
<1>15. CASE \/ LoggedIn \/ GetOpenOrders \/ TakeOpenOrders \/ OpenOrdersAck \/ OpenOrdersError
            \/ UNCHANGED vars
  <2>1. UNCHANGED <<up, down, requested, answers, verdict, result, amending>>
    BY <1>15 DEF LoggedIn, GetOpenOrders, TakeOpenOrders, OpenOrdersAck, OpenOrdersError,
       othersUnchanged, exchangeVars, managerVars, vars
  <2> QED
    BY <1>1, <2>1, ActionKept
<1> QED
  BY <1>3, <1>4, <1>5, <1>6, <1>7, <1>8, <1>9, <1>10, <1>11, <1>12, <1>13, <1>14, <1>15,
     ReceiveActions DEF Next

-----------------------------------------------------------------------------
(* Orders. *)

\* A step that leaves the order's status alone.
LEMMA OrderKept ==
    ASSUME IInv, Stable, NEW o \in Orders,
           status'[o] = status[o],
           <<o, "create">> \in requested' <=> <<o, "create">> \in requested,
           exchange'[o] # "none" => exchange[o] # "none" \/ result'[<<o, "create">>] = "accepted",
           snapshot'[o] # "none" => snapshot[o] # "none" \/ exchange[o] # "none",
           o \in amending' => o \in amending \/ exchange[o] # "none"
    PROVE  OrderInv(o)'
<1>1. OrderInv(o)
  BY DEF IInv
<1>2. <<o, "create">> \in Actions
  BY ActionOf DEF Operations
<1>3. \/ result'[<<o, "create">>] = result[<<o, "create">>]
      \/ result[<<o, "create">>] = "none"
  BY <1>2 DEF Stable
<1>4. \/ exchange'[o] = exchange[o]
      \/ exchange[o] = "none"
      \/ exchange[o] = "live" /\ exchange'[o] # "none"
  BY DEF Stable
<1> QED
  BY <1>1, <1>3, <1>4 DEF OrderInv

\* What becomes of a status that a message of the exchange updates.
LEMMA StatusGoesForward ==
    ASSUME IInv, NEW o \in Orders, NEW state \in ExchangeStates,
           state # "none", exchange[o] # "none", state # "live" => exchange[o] = state
    PROVE  LET new == Updated(status[o], OrderStatus(state)) IN
           /\ new \in {"WORKING", "COMPLETED", "CANCELED"}
           /\ new = "COMPLETED" => exchange[o] = "filled"
           /\ new = "CANCELED" => exchange[o] = "canceled"
           /\ Lifecycle!Forward(status[o], new)
           /\ <<o, "create">> \in requested
<1>1. OrderInv(o) /\ status[o] \in Statuses
  BY DEF IInv, TypeOK, Statuses
<1>2. status[o] # "REJECTED"
  BY <1>1 DEF OrderInv
<1>3. ActionInv(<<o, "create">>) /\ <<o, "create">> \in requested /\ status[o] # "none"
  <2>1. ActionInv(<<o, "create">>)
    BY ActionOf DEF IInv, Operations
  <2> QED
    BY <1>1, <2>1 DEF ActionInv, OrderInv
<1>4. state \in {"live", "filled", "canceled"}
  BY DEF ExchangeStates
<1>5. CASE status[o] \in {"sent", "WORKING"}
  BY <1>3, <1>4, <1>5 DEF Updated, OrderStatus, Rank, Lifecycle!Forward, Lifecycle!Finished
<1>6. CASE status[o] = "COMPLETED"
  BY <1>1, <1>3, <1>4, <1>6
  DEF OrderInv, Updated, OrderStatus, Rank, Lifecycle!Forward, Lifecycle!Finished
<1>7. CASE status[o] = "CANCELED"
  BY <1>1, <1>3, <1>4, <1>7
  DEF OrderInv, Updated, OrderStatus, Rank, Lifecycle!Forward, Lifecycle!Finished
<1> QED
  BY <1>1, <1>2, <1>3, <1>5, <1>6, <1>7 DEF Statuses

LEMMA NextOrders == IInv /\ [Next]_vars => \A o \in Orders : OrderInv(o)'
<1> SUFFICES ASSUME IInv, [Next]_vars, NEW o \in Orders PROVE OrderInv(o)'
  OBVIOUS
<1>1. /\ TypeOK
      /\ OrderInv(o)
      /\ Stable
      /\ <<o, "create">> \in Actions
  BY NextStable, ActionOf DEF IInv, Operations
<1>2. ASSUME NEW op \in Operations, NEW orders \in SUBSET Orders, Submit(op, orders),
             op # "create", UNCHANGED status
      PROVE  OrderInv(o)'
  <2>1. <<o, "create">> \in requested' <=> <<o, "create">> \in requested
    BY <1>2 DEF Submit
  <2>2. UNCHANGED <<exchange, snapshot, amending>>
    BY <1>2 DEF Submit, downloadVars, exchangeVars
  <2> QED
    BY <1>1, <1>2, <2>1, <2>2, OrderKept
<1>3. ASSUME NEW p \in Orders, CreateOrder(p) PROVE OrderInv(o)'
  <2>1. /\ UNCHANGED <<exchange, snapshot, amending, result>>
        /\ requested' = requested \union ({p} \X {"create"})
        /\ status[p] = "none"
        /\ status' = [status EXCEPT ![p] = "sent"]
    BY <1>3 DEF CreateOrder, Submit, downloadVars, exchangeVars
  <2>2. CASE o = p
    BY <1>1, <2>1, <2>2 DEF OrderInv, TypeOK
  <2>3. CASE o # p
    BY <1>1, <2>1, <2>3, OrderKept DEF TypeOK
  <2> QED
    BY <2>2, <2>3
<1>4. ASSUME NEW p \in Orders, ModifyOrder(p) \/ CancelOrder(p) PROVE OrderInv(o)'
  <2>1. \E op \in Operations : Submit(op, {p}) /\ op # "create"
    BY <1>4 DEF ModifyOrder, CancelOrder, Operations
  <2> QED
    BY <1>2, <1>4, <2>1 DEF ModifyOrder, CancelOrder
<1>5. CASE CancelAllOrders
  <2>1. Open \intersect external \in SUBSET Orders /\ "cancel all" \in Operations
    BY DEF Open, Operations
  <2> QED
    BY <1>2, <1>5, <2>1 DEF CancelAllOrders
<1>6. CASE TakeSubscribe \/ Refuse \/ Forbid
  <2>1. UNCHANGED <<status, requested, exchange, snapshot, amending>>
    BY <1>6 DEF TakeSubscribe, Refuse, Forbid, exchangeUnchanged, downloadVars, managerVars
  <2> QED
    BY <1>1, <2>1, OrderKept
<1>7. CASE TakeCreate
  <2>1. UNCHANGED <<status, requested, snapshot, amending>>
    BY <1>7 DEF TakeCreate, exchangeUnchanged, downloadVars, managerVars
  <2>2. exchange'[o] # "none" => exchange[o] # "none" \/ result'[<<o, "create">>] = "accepted"
    BY <1>1, <1>7 DEF TakeCreate, Reply
  <2> QED
    BY <1>1, <2>1, <2>2, OrderKept
<1>8. CASE TakeModify
  <2>1. UNCHANGED <<status, requested, exchange, snapshot>>
    BY <1>8 DEF TakeModify, exchangeUnchanged, downloadVars, managerVars
  <2>2. o \in amending' => o \in amending \/ exchange[o] # "none"
    BY <1>8 DEF TakeModify
  <2> QED
    BY <1>1, <2>1, <2>2, OrderKept
<1>9. CASE TakeCancel
  <2>1. UNCHANGED <<status, requested, snapshot, amending>>
    BY <1>9 DEF TakeCancel, exchangeUnchanged, downloadVars, managerVars
  <2>2. exchange'[o] # "none" => exchange[o] # "none"
    BY <1>1, <1>9 DEF TakeCancel, TypeOK
  <2> QED
    BY <1>1, <2>1, <2>2, OrderKept
<1>10. ASSUME NEW p \in Orders, Fill(p) PROVE OrderInv(o)'
  <2>1. UNCHANGED <<status, requested, snapshot, amending>>
    BY <1>10 DEF Fill, exchangeUnchanged, downloadVars, managerVars
  <2>2. exchange'[o] # "none" => exchange[o] # "none"
    BY <1>1, <1>10 DEF Fill, TypeOK
  <2> QED
    BY <1>1, <2>1, <2>2, OrderKept
<1>11. ASSUME NEW p \in Orders, NEW amend \in {"done", "failed"}, Amended(p, amend)
       PROVE  OrderInv(o)'
  <2>1. UNCHANGED <<status, requested, exchange, snapshot>> /\ amending' \subseteq amending
    BY <1>11 DEF Amended, downloadVars, managerVars
  <2> QED
    BY <1>1, <2>1, OrderKept
<1>12. CASE Receive
  <2> DEFINE m == Head(down)
  <2>1. /\ UNCHANGED <<exchange, amending, requested, result>>
        /\ m \in SoundMessages
    BY <1>12, HeadTailProperties DEF Receive, IInv, exchangeVars
  <2>2. m \in ExchangeMessage
    BY <2>1 DEF SoundMessages
  <2> HIDE DEF m
  <2>3. CASE m.kind = "ack" /\ ReceiveAck(m)
    <3>1. UNCHANGED snapshot
      BY <2>3 DEF ReceiveAck, downloadVars
    <3>2. CASE m.op = "create" /\ o \in Acknowledged(m) /\ RequestStatus(m) = "REJECTED"
      <4>1. SoundAck(m) /\ m.orders = {o} /\ m.refused = {o}
        BY <2>1, <2>2, <2>3, <3>2, MessageParts
        DEF SoundMessages, SoundAck, Acknowledged, RequestStatus
      <4>2. result[<<o, "create">>] \in {"refused", "forbidden"}
        BY <2>2, <2>3, <3>2, <4>1, MessageParts DEF SoundAck
      <4>3. status[o] \in {"none", "sent", "REJECTED"} /\ exchange[o] = "none"
        BY <1>1, <4>2 DEF OrderInv, TypeOK
      <4>4. status'[o] = "REJECTED"
        BY <2>3, <3>2, <4>3 DEF ReceiveAck, Updated, Rank
      <4>5. <<o, "create">> \in requested
        <5>1. ActionInv(<<o, "create">>)
          BY <1>1 DEF IInv
        <5> QED
          BY <4>2, <5>1 DEF ActionInv
      <4> QED
        BY <1>1, <2>1, <3>1, <4>2, <4>3, <4>4, <4>5 DEF OrderInv
    <3>3. CASE ~(m.op = "create" /\ o \in Acknowledged(m) /\ RequestStatus(m) = "REJECTED")
      <4>1. status'[o] = status[o]
        BY <1>1, <2>3, <3>3 DEF ReceiveAck
      <4> QED
        BY <1>1, <2>1, <3>1, <4>1, OrderKept
    <3> QED
      BY <3>2, <3>3
  <2>4. CASE m.kind = "push" /\ ReceivePush(m)
    <3>1. UNCHANGED snapshot
      BY <2>4 DEF ReceivePush, downloadVars
    <3>2. CASE o = m.order
      <4>1. /\ m.state \in ExchangeStates
            /\ m.state # "none"
            /\ exchange[o] # "none"
            /\ m.state # "live" => exchange[o] = m.state
        BY <2>1, <2>2, <2>4, <3>2, MessageParts DEF SoundMessages, SoundPush
      <4>2. status'[o] = Updated(status[o], OrderStatus(m.state))
        BY <1>1, <2>4, <3>2 DEF ReceivePush, TypeOK
      <4>3. /\ status'[o] \in {"WORKING", "COMPLETED", "CANCELED"}
            /\ status'[o] = "COMPLETED" => exchange[o] = "filled"
            /\ status'[o] = "CANCELED" => exchange[o] = "canceled"
            /\ <<o, "create">> \in requested
        BY <4>1, <4>2, StatusGoesForward
      <4> QED
        BY <1>1, <2>1, <3>1, <4>1, <4>3 DEF OrderInv
    <3>3. CASE o # m.order
      <4>1. status'[o] = status[o]
        BY <1>1, <2>4, <3>3 DEF ReceivePush, TypeOK
      <4> QED
        BY <1>1, <2>1, <3>1, <4>1, OrderKept
    <3> QED
      BY <3>2, <3>3
  <2>5. CASE m.kind = "subscribed" /\ ReceiveSubscribed
    <3>1. UNCHANGED <<status, snapshot>>
      BY <2>5 DEF ReceiveSubscribed, Enter, managerVars
    <3> QED
      BY <1>1, <2>1, <3>1, OrderKept
  <2> QED
    BY <1>12, <2>3, <2>4, <2>5 DEF Receive, m
<1>13. CASE TakeOpenOrders
  <2>1. UNCHANGED <<status, requested, exchange, amending>> /\ snapshot' = exchange
    BY <1>13 DEF TakeOpenOrders, othersUnchanged, exchangeVars
  <2> QED
    BY <1>1, <2>1, OrderKept
<1>14. CASE OpenOrdersAck
  <2>1. /\ UNCHANGED <<requested, exchange, amending, result>>
        /\ snapshot'[o] = "none"
        /\ status'[o] = IF snapshot[o] = "live"
                        THEN Updated(status[o], OrderStatus("live"))
                        ELSE status[o]
    BY <1>1, <1>14 DEF OpenOrdersAck, Commit, exchangeVars
  <2>2. CASE snapshot[o] = "live"
    <3>1. exchange[o] # "none"
      BY <1>1, <2>2 DEF OrderInv
    <3>2. /\ status'[o] \in {"WORKING", "COMPLETED", "CANCELED"}
          /\ status'[o] = "COMPLETED" => exchange[o] = "filled"
          /\ status'[o] = "CANCELED" => exchange[o] = "canceled"
          /\ <<o, "create">> \in requested
      BY <2>1, <2>2, <3>1, StatusGoesForward DEF ExchangeStates
    <3> QED
      BY <1>1, <2>1, <3>1, <3>2 DEF OrderInv
  <2>3. CASE snapshot[o] # "live"
    BY <1>1, <2>1, <2>3, OrderKept
  <2> QED
    BY <2>2, <2>3
<1>15. CASE GetOpenOrders \/ OpenOrdersError
  <2>1. /\ UNCHANGED <<status, requested, exchange, amending>>
        /\ snapshot'[o] = "none" \/ snapshot' = snapshot
    BY <1>15 DEF GetOpenOrders, OpenOrdersError, Commit, othersUnchanged, exchangeVars
  <2> QED
    BY <1>1, <2>1, OrderKept
<1>16. CASE LoggedIn \/ Downloaded \/ DropCopyTimer \/ Disconnected \/ UNCHANGED vars
  <2>1. UNCHANGED <<status, requested, exchange, amending, snapshot>>
    BY <1>16 DEF LoggedIn, Downloaded, DropCopyTimer, Disconnected, Enter, downloadVars,
       exchangeVars, managerVars, vars
  <2> QED
    BY <1>1, <2>1, OrderKept
<1> QED
  BY <1>3, <1>4, <1>5, <1>6, <1>7, <1>8, <1>9, <1>10, <1>11, <1>12, <1>13, <1>14, <1>15, <1>16
  DEF Next

-----------------------------------------------------------------------------
(* Responses tell what the exchange did. *)

LEMMA NextTruthful == IInv /\ [Next]_vars => Truthful'
<1> SUFFICES ASSUME IInv, [Next]_vars, NEW a \in Actions
             PROVE  /\ verdict'[a] = "ACCEPTED" => result'[a] = "accepted"
                    /\ verdict'[a] = "REJECTED" =>
                        \/ result'[a] \in {"refused", "forbidden"}
                        \/ /\ a[2] = "cancel all"
                           /\ \E o \in Orders : result'[<<o, "cancel all">>] = "refused"
  BY DEF Truthful
<1>1. TypeOK /\ Truthful /\ Stable /\ ActionInv(a)
  BY NextStable DEF IInv
<1>2. CASE verdict'[a] = verdict[a]
  <2>1. verdict[a] = "ACCEPTED" => result'[a] = "accepted"
    BY <1>1 DEF Truthful, Stable, ActionInv
  <2>2. ASSUME verdict[a] = "REJECTED"
        PROVE  \/ result'[a] \in {"refused", "forbidden"}
               \/ /\ a[2] = "cancel all"
                  /\ \E o \in Orders : result'[<<o, "cancel all">>] = "refused"
    <3>1. CASE result[a] \in {"refused", "forbidden"}
      BY <1>1, <3>1 DEF Stable
    <3>2. ASSUME a[2] = "cancel all", NEW o \in Orders, result[<<o, "cancel all">>] = "refused"
          PROVE  result'[<<o, "cancel all">>] = "refused"
      <4>1. <<o, "cancel all">> \in Actions
        BY ActionOf DEF Operations
      <4> QED
        BY <1>1, <3>2, <4>1 DEF Stable
    <3> QED
      BY <1>1, <2>2, <3>1, <3>2 DEF Truthful
  <2> QED
    BY <1>2, <2>1, <2>2
<1>3. CASE verdict'[a] # verdict[a]
  <2> DEFINE m == Head(down)
  <2>1. Receive
    BY <1>3 DEF Next, CreateOrder, ModifyOrder, CancelOrder, CancelAllOrders, Submit, Fill,
       TakeSubscribe, TakeCreate, TakeModify, TakeCancel, Refuse, Forbid, Amended, LoggedIn,
       Downloaded, DropCopyTimer, Disconnected, GetOpenOrders, TakeOpenOrders, OpenOrdersAck,
       OpenOrdersError, exchangeUnchanged, othersUnchanged, managerVars, vars
  <2>2. /\ UNCHANGED result
        /\ m \in SoundMessages
    BY <2>1, HeadTailProperties DEF Receive, IInv, exchangeVars
  <2>3. m \in ExchangeMessage
    BY <2>2 DEF SoundMessages
  <2> HIDE DEF m
  <2>4. CASE m.kind = "ack" /\ ReceiveAck(m)
    <3>1. /\ a \in Acknowledged(m) \X {m.op}
          /\ verdict'[a] = RequestStatus(m)
      BY <1>1, <1>3, <2>4 DEF ReceiveAck, Respond, TypeOK
    <3>2. SoundAck(m) /\ Acknowledged(m) \subseteq m.orders
      BY <2>2, <2>3, <2>4, MessageParts DEF SoundMessages, SoundAck, Acknowledged
    <3>3. a = <<a[1], m.op>> /\ a[1] \in m.orders /\ a[1] \in Orders /\ a[2] = m.op
      BY <3>1, <3>2, ActionParts
    <3>4. CASE m.refused = {}
      <4>1. m.data /\ m.op # "modify" /\ result[a] = "accepted"
        BY <2>3, <2>4, <3>1, <3>2, <3>3, <3>4, MessageParts DEF SoundAck, Acknowledged
      <4> QED
        BY <2>2, <3>1, <3>4, <4>1 DEF RequestStatus
    <3>5. CASE m.refused # {} /\ a[1] \in m.refused
      <4>1. result[a] \in {"refused", "forbidden"}
        BY <2>3, <2>4, <3>2, <3>3, <3>5, MessageParts DEF SoundAck
      <4> QED
        BY <2>2, <3>1, <3>5, <4>1 DEF RequestStatus
    <3>6. CASE m.refused # {} /\ a[1] \notin m.refused
      <4>0. m.data
        BY <2>3, <2>4, <3>2, <3>3, <3>6, MessageParts DEF SoundAck
      <4>1. m.op = "cancel all" /\ m.data
        <5> SUFFICES ASSUME m.op # "cancel all" PROVE FALSE
          BY <4>0
        <5>1. PICK o \in Orders : m.orders = {o}
          BY <3>2 DEF SoundAck
        <5>2. a[1] = o /\ m.refused \subseteq {o}
          BY <3>2, <3>3, <5>1 DEF SoundAck
        <5> QED
          BY <3>6, <5>2
      <4>2. \E o \in Orders : o \in m.orders /\ o \in m.refused
        BY <2>3, <2>4, <3>2, <3>6, MessageParts DEF SoundAck
      <4>3. \E o \in Orders : result[<<o, "cancel all">>] = "refused"
        BY <3>2, <4>1, <4>2 DEF SoundAck
      <4> QED
        BY <2>2, <3>1, <3>3, <3>6, <4>1, <4>3 DEF RequestStatus
    <3> QED
      BY <3>4, <3>5, <3>6
  <2>5. CASE m.kind = "push" /\ ReceivePush(m)
    <3>1. m.amend = "failed" /\ a = <<m.order, "modify">> /\ verdict'[a] = "REJECTED"
      BY <1>1, <1>3, <2>5 DEF ReceivePush, Respond, TypeOK
    <3>2. result[a] = "refused"
      BY <2>2, <2>5, <3>1 DEF SoundMessages, SoundPush
    <3> QED
      BY <2>2, <3>1, <3>2
  <2>6. CASE m.kind = "subscribed" /\ ReceiveSubscribed
    BY <1>3, <2>6 DEF ReceiveSubscribed, managerVars
  <2> QED
    BY <2>1, <2>4, <2>5, <2>6 DEF Receive, m
<1> QED
  BY <1>2, <1>3

-----------------------------------------------------------------------------
(* The theorems. *)

LEMMA InitIInv == Init => IInv
<1> SUFFICES ASSUME Init PROVE IInv
  OBVIOUS
<1>1. TypeOK
  BY InitTypeOK
<1>2. up \in Seq(SoundRequests) /\ down \in Seq(SoundMessages)
  BY EmptySeq DEF Init
<1>3. ASSUME NEW a \in Actions PROVE ActionInv(a)
  <2>1. /\ Nowhere(up, Asks(a)) /\ AtMostOnce(up, Asks(a))
        /\ Nowhere(down, Replies(a)) /\ AtMostOnce(down, Replies(a))
    BY NowhereInEmpty DEF Init
  <2> QED
    BY <2>1 DEF Init, ActionInv
<1>4. ASSUME NEW o \in Orders PROVE OrderInv(o)
  BY DEF Init, OrderInv
<1>5. Truthful
  BY DEF Init, Truthful
<1> QED
  BY <1>1, <1>2, <1>3, <1>4, <1>5 DEF IInv

LEMMA NextIInv == IInv /\ [Next]_vars => IInv'
  BY NextTypeOK, NextSound, NextActions, NextOrders, NextTruthful DEF IInv

LEMMA Invariance == Spec => []IInv
  BY InitIInv, NextIInv, PTL DEF Spec

\* Types hold for any orders, requests and lost connections.
THEOREM FlowTypeCorrect == Spec => []TypeOK
<1>1. IInv => TypeOK
  BY DEF IInv
<1> QED
  BY Invariance, <1>1, PTL

\* No Response lies about what the exchange did, however many connections are lost, except
\* that a batch of cancellations is rejected as a whole.
THEOREM ResponsesAreTruthful == Spec => []Truthful
<1>1. IInv => Truthful
  BY DEF IInv
<1> QED
  BY Invariance, <1>1, PTL

-----------------------------------------------------------------------------
(* OrderFlow implements OrderLifecycle. *)

\* A message tells clients of an order, and answers some requests.
LEMMA TellStep ==
    ASSUME IInv, TypeOK', UNCHANGED requested,
           NEW actions \in SUBSET Actions, NEW requestStatus, Respond(actions, requestStatus),
           \A a \in actions : a \in requested /\ answers[a] = 0,
           \A o \in Orders : Lifecycle!Forward(status[o], status'[o])
    PROVE  Lifecycle!Next
<1>1. answers \in [Actions -> Nat] /\ status' \in [Orders -> Statuses]
  BY DEF IInv, TypeOK, Statuses
<1>2. actions \in SUBSET requested /\ \A a \in actions : answers[a] = 0
  OBVIOUS
<1>3. answers' = [a \in Actions |-> IF a \in actions THEN 1 ELSE answers[a]]
  BY <1>1 DEF Respond
<1>4. Lifecycle!Actions = Actions
  BY DEF Lifecycle!Actions, Actions
<1>5. status' \in [Orders -> {"none", "sent", "WORKING"} \union Lifecycle!Finished]
  BY <1>1 DEF Statuses, Lifecycle!Finished
<1>6. Lifecycle!Tell
  BY <1>2, <1>3, <1>4, <1>5 DEF Lifecycle!Tell
<1> QED
  BY <1>6 DEF Lifecycle!Next

LEMMA SubmitStep ==
    ASSUME NEW op \in Operations, NEW orders \in SUBSET Orders, Submit(op, orders),
           IF op = "create"
           THEN /\ \A o \in orders : status[o] = "none"
                /\ status' = [o \in Orders |-> IF o \in orders THEN "sent" ELSE status[o]]
           ELSE orders \subseteq Open /\ UNCHANGED status
    PROVE  Lifecycle!Next
<1>1. Lifecycle!Ask(op, orders)
  BY DEF Submit, Lifecycle!Ask, Open
<1> QED
  BY <1>1 DEF Lifecycle!Next

LEMMA StatusStays == \A s : Lifecycle!Forward(s, s)
  BY DEF Lifecycle!Forward

LEMMA ReceiveStep ==
    ASSUME IInv, IInv', Receive
    PROVE  Lifecycle!Next \/ UNCHANGED <<status, requested, answers>>
<1> DEFINE m == Head(down)
<1>1. /\ UNCHANGED <<requested, exchange, result>>
      /\ m \in SoundMessages
      /\ down \in Seq(ExchangeMessage) /\ down # <<>>
      /\ status \in [Orders -> Statuses]
      /\ TypeOK'
  BY HeadTailProperties DEF Receive, IInv, TypeOK, Statuses, exchangeVars
<1>2. m \in ExchangeMessage
  BY <1>1 DEF SoundMessages
<1>3. ASSUME NEW a \in Actions, m \in Replies(a) PROVE a \in requested /\ answers[a] = 0
  <2>1. ~Nowhere(down, Replies(a))
    BY <1>1, <1>3, OnceInTail
  <2> QED
    BY <2>1 DEF IInv, ActionInv
<1> HIDE DEF m
<1>4. CASE m.kind = "ack" /\ ReceiveAck(m)
  <2> DEFINE actions == Acknowledged(m) \X {m.op}
  <2>1. actions \in SUBSET Actions
    BY <1>2, <1>4, AcknowledgedOrders, MessageParts DEF Actions
  <2>2. \A a \in actions : m \in Replies(a)
    BY <1>2, <1>4 DEF Replies
  <2>3. Respond(actions, RequestStatus(m))
    BY <1>4 DEF ReceiveAck
  <2>4. ASSUME NEW o \in Orders PROVE Lifecycle!Forward(status[o], status'[o])
    <3>1. CASE m.op = "create" /\ o \in Acknowledged(m) /\ RequestStatus(m) = "REJECTED"
      <4>1. SoundAck(m) /\ m.orders = {o} /\ m.refused = {o}
        BY <1>1, <1>2, <1>4, <3>1, MessageParts
        DEF SoundMessages, SoundAck, Acknowledged, RequestStatus
      <4>2. result[<<o, "create">>] \in {"refused", "forbidden"}
        BY <1>2, <1>4, <3>1, <4>1, MessageParts DEF SoundAck
      <4>3. <<o, "create">> \in requested
        BY <2>1, <2>2, <1>3, <3>1
      <4>4. status[o] \in {"sent", "REJECTED"}
        BY <1>1, <4>2, <4>3 DEF IInv, OrderInv, Statuses
      <4>5. status'[o] = "REJECTED"
        BY <1>4, <3>1, <4>4 DEF ReceiveAck, Updated, Rank
      <4> QED
        BY <4>4, <4>5 DEF Lifecycle!Forward, Lifecycle!Finished
    <3>2. CASE ~(m.op = "create" /\ o \in Acknowledged(m) /\ RequestStatus(m) = "REJECTED")
      <4>1. status'[o] = status[o]
        BY <1>4, <3>2 DEF ReceiveAck
      <4> QED
        BY <4>1, StatusStays
    <3> QED
      BY <3>1, <3>2
  <2> HIDE DEF actions
  <2>5. \A a \in actions : a \in requested /\ answers[a] = 0
    BY <2>1, <2>2, <1>3
  <2> QED
    BY <1>1, <2>1, <2>3, <2>4, <2>5, TellStep
<1>5. CASE m.kind = "push" /\ ReceivePush(m)
  <2> DEFINE actions == IF m.amend = "failed" THEN {<<m.order, "modify">>} ELSE {}
  <2>1. m.order \in Orders /\ m.state \in ExchangeStates
    BY <1>2, <1>5, MessageParts
  <2>2. actions \in SUBSET Actions
    BY <2>1, ActionOf DEF Operations
  <2>3. \A a \in actions : m \in Replies(a)
    BY <1>2, <1>5 DEF Replies
  <2>4. Respond(actions, "REJECTED")
    BY <1>5 DEF ReceivePush
  <2>5. ASSUME NEW o \in Orders PROVE Lifecycle!Forward(status[o], status'[o])
    <3>1. CASE o = m.order
      <4>1. m.state # "none" /\ exchange[o] # "none" /\ (m.state # "live" => exchange[o] = m.state)
        BY <1>1, <1>5, <3>1 DEF SoundMessages, SoundPush
      <4>2. status'[o] = Updated(status[o], OrderStatus(m.state))
        BY <1>1, <1>5, <3>1 DEF ReceivePush
      <4> QED
        BY <2>1, <4>1, <4>2, StatusGoesForward
    <3>2. CASE o # m.order
      <4>1. status'[o] = status[o]
        BY <1>1, <1>5, <3>2 DEF ReceivePush
      <4> QED
        BY <4>1, StatusStays
    <3> QED
      BY <3>1, <3>2
  <2> HIDE DEF actions
  <2>6. \A a \in actions : a \in requested /\ answers[a] = 0
    BY <2>2, <2>3, <1>3
  <2> QED
    BY <1>1, <2>2, <2>4, <2>5, <2>6, TellStep
<1>6. CASE m.kind = "subscribed" /\ ReceiveSubscribed
  BY <1>1, <1>6 DEF ReceiveSubscribed, managerVars
<1> QED
  BY <1>4, <1>5, <1>6 DEF Receive, m

\* An order that is finished stays so, and no request is answered twice, for any orders,
\* requests and lost connections.
THEOREM ImplementsLifecycle == Spec => LifecycleSpec
<1>1. Init => Lifecycle!Init
  BY DEF Init, Lifecycle!Init, Lifecycle!Actions, Actions
<1>2. IInv /\ IInv' /\ [Next]_vars => [Lifecycle!Next]_(Lifecycle!vars)
  <2> SUFFICES ASSUME IInv, IInv', [Next]_vars
               PROVE  Lifecycle!Next \/ UNCHANGED <<status, requested, answers>>
    BY DEF Lifecycle!vars
  <2>1. status \in [Orders -> Statuses]
    BY DEF IInv, TypeOK, Statuses
  <2>2. ASSUME NEW o \in Orders, CreateOrder(o) PROVE Lifecycle!Next
    <3>1. Submit("create", {o}) /\ "create" \in Operations
      BY <2>2 DEF CreateOrder, Operations
    <3>2. /\ \A p \in {o} : status[p] = "none"
          /\ status' = [p \in Orders |-> IF p \in {o} THEN "sent" ELSE status[p]]
      BY <2>1, <2>2 DEF CreateOrder
    <3> QED
      BY <3>1, <3>2, SubmitStep
  <2>3. ASSUME NEW o \in Orders, ModifyOrder(o) \/ CancelOrder(o) PROVE Lifecycle!Next
    <3>1. \E op \in Operations : Submit(op, {o}) /\ op # "create"
      BY <2>3 DEF ModifyOrder, CancelOrder, Operations
    <3>2. {o} \subseteq Open /\ UNCHANGED status
      BY <2>3 DEF ModifyOrder, CancelOrder
    <3> QED
      BY <3>1, <3>2, SubmitStep
  <2>4. CASE CancelAllOrders
    <3>1. Open \intersect external \in SUBSET Orders /\ "cancel all" \in Operations
      BY DEF Open, Operations
    <3> QED
      BY <2>4, <3>1, SubmitStep DEF CancelAllOrders
  <2>5. CASE OpenOrdersAck
    <3>1. Respond({}, "none")
      <4>1. /\ answers \in [Actions -> Nat]
            /\ verdict \in [Actions -> {"none", "ACCEPTED", "REJECTED"}]
        BY DEF IInv, TypeOK
      <4> QED
        BY <2>5, <4>1 DEF OpenOrdersAck, Respond
    <3>2. ASSUME NEW o \in Orders PROVE Lifecycle!Forward(status[o], status'[o])
      <4>1. CASE snapshot[o] = "live"
        <5>1. exchange[o] # "none"
          BY <4>1 DEF IInv, OrderInv
        <5>2. status'[o] = Updated(status[o], OrderStatus("live"))
          BY <2>5, <4>1 DEF OpenOrdersAck
        <5> QED
          BY <5>1, <5>2, StatusGoesForward DEF ExchangeStates
      <4>2. CASE snapshot[o] # "live"
        BY <2>5, <4>2, StatusStays DEF OpenOrdersAck
      <4> QED
        BY <4>1, <4>2
    <3>3. UNCHANGED requested /\ TypeOK'
      BY <2>5 DEF OpenOrdersAck, IInv
    <3> QED
      BY <3>1, <3>2, <3>3, TellStep
  <2>6. CASE Receive
    BY <2>6, ReceiveStep
  <2>7. ASSUME NEW o \in Orders, NEW amend \in {"done", "failed"},
               Fill(o) \/ Amended(o, amend)
        PROVE  UNCHANGED <<status, requested, answers>>
    BY <2>7 DEF Fill, Amended, exchangeUnchanged, managerVars
  <2>8. CASE TakeSubscribe \/ TakeCreate \/ TakeModify \/ TakeCancel \/ Refuse \/ Forbid
    BY <2>8 DEF TakeSubscribe, TakeCreate, TakeModify, TakeCancel, Refuse, Forbid,
       exchangeUnchanged, managerVars
  <2>9. CASE LoggedIn \/ Downloaded \/ DropCopyTimer \/ Disconnected
    BY <2>9 DEF LoggedIn, Downloaded, DropCopyTimer, Disconnected, managerVars
  <2>10. CASE GetOpenOrders \/ TakeOpenOrders \/ OpenOrdersError \/ UNCHANGED vars
    BY <2>10 DEF GetOpenOrders, TakeOpenOrders, OpenOrdersError, othersUnchanged, vars
  <2> QED
    BY <2>2, <2>3, <2>4, <2>5, <2>6, <2>7, <2>8, <2>9, <2>10 DEF Next
<1> QED
  BY <1>1, <1>2, Invariance, PTL DEF Spec, LifecycleSpec, Lifecycle!Spec

-----------------------------------------------------------------------------
(* Every request is answered.  The argument: a request that is not lost    *)
(* and not answered is on its way, its answer is, or none is owed: an      *)
(* amendment that was accepted, or a key that may not trade.               *)

AnswerInv(a) ==
    /\ answers[a] <= 1
    /\ a \in requested \ lost /\ answers[a] = 0 =>
        \/ ~Nowhere(up, Asks(a))
        \/ ~Nowhere(down, Replies(a))
        \/ a[2] = "modify" /\ result[a] = "accepted"
        \/ a[2] # "create" /\ result[a] = "forbidden"

AnswersInv == \A a \in Actions : AnswerInv(a)

LEMMA SomewhereInTail ==
    ASSUME NEW S, NEW s \in Seq(S), s # <<>>, NEW A, Nowhere(Tail(s), A), Head(s) \notin A
    PROVE  Nowhere(s, A)
<1>1. /\ Len(s) \in Nat /\ Len(s) > 0
      /\ DOMAIN s = 1 .. Len(s)
      /\ Head(s) = s[1]
  BY EmptySeq, LenProperties
<1>2. /\ DOMAIN Tail(s) = 1 .. (Len(s) - 1)
      /\ \A i \in DOMAIN Tail(s) : Tail(s)[i] = s[i + 1]
  BY <1>1, HeadTailProperties, LenProperties
<1>3. \A n \in DOMAIN s : n = 1 \/ (n - 1 \in DOMAIN Tail(s) /\ (n - 1) + 1 = n)
  BY <1>1, <1>2
<1> QED
  BY <1>1, <1>2, <1>3 DEF Nowhere

LEMMA SomewhereInConcat ==
    ASSUME NEW S, NEW s \in Seq(S), NEW t \in Seq(S), NEW A, Nowhere(s \o t, A)
    PROVE  Nowhere(s, A) /\ Nowhere(t, A)
<1>1. /\ Len(s) \in Nat /\ DOMAIN s = 1 .. Len(s)
      /\ Len(t) \in Nat /\ DOMAIN t = 1 .. Len(t)
      /\ DOMAIN (s \o t) = 1 .. (Len(s) + Len(t))
  BY LenProperties, ConcatProperties
<1>2. \A i \in DOMAIN s : i \in DOMAIN (s \o t) /\ (s \o t)[i] = s[i]
  BY <1>1, ConcatProperties
<1>3. \A i \in DOMAIN t :
          /\ i + Len(s) \in DOMAIN (s \o t)
          /\ (s \o t)[i + Len(s)] = t[i]
  BY <1>1, ConcatProperties
<1> QED
  BY <1>2, <1>3 DEF Nowhere

LEMMA SomewhereInAppend ==
    ASSUME NEW S, NEW s \in Seq(S), NEW x \in S, NEW A, Nowhere(Append(s, x), A)
    PROVE  Nowhere(s, A) /\ x \notin A
<1>1. /\ Len(s) \in Nat /\ DOMAIN s = 1 .. Len(s)
      /\ DOMAIN Append(s, x) = 1 .. (Len(s) + 1)
      /\ \A i \in 1 .. Len(s) : Append(s, x)[i] = s[i]
      /\ Append(s, x)[Len(s) + 1] = x
  BY AppendProperties, LenProperties
<1>2. \A i \in DOMAIN s : i \in DOMAIN Append(s, x)
  BY <1>1
<1>3. Len(s) + 1 \in DOMAIN Append(s, x)
  BY <1>1
<1> QED
  BY <1>1, <1>2, <1>3 DEF Nowhere

LEMMA SomewhereInReply ==
    ASSUME NEW S, NEW A, NEW refused, NEW pushes, Reply(refused, pushes),
           down \in Seq(S), Ack(Request, refused, TRUE) \in S, pushes \subseteq Seq(S),
           Nowhere(down', A)
    PROVE  /\ Nowhere(down, A)
           /\ Ack(Request, refused, TRUE) \notin A
           /\ \E messages \in pushes : Nowhere(messages, A)
<1> DEFINE ack == <<Ack(Request, refused, TRUE)>>
<1>1. PICK messages \in pushes : \/ down' = (down \o ack) \o messages
                                 \/ down' = (down \o messages) \o ack
  BY DEF Reply
<1>2. ack \in Seq(S) /\ messages \in Seq(S)
  <2>1. \A x \in S : <<x>> \in Seq(S)
    OBVIOUS
  <2> QED
    BY <2>1, Zenon
<1>3. ASSUME Nowhere(ack, A) PROVE Ack(Request, refused, TRUE) \notin A
  <2>1. 1 \in DOMAIN ack /\ ack[1] = Ack(Request, refused, TRUE)
    OBVIOUS
  <2> QED
    BY <1>3, <2>1 DEF Nowhere
<1> HIDE DEF ack
<1>4. CASE down' = (down \o ack) \o messages
  <2>1. down \o ack \in Seq(S)
    BY <1>2, ConcatProperties
  <2>2. Nowhere(down \o ack, A)
    BY <2>1, <1>2, <1>4, SomewhereInConcat
  <2>3. Nowhere(down, A) /\ Nowhere(ack, A)
    BY <2>2, <1>2, SomewhereInConcat
  <2>4. Nowhere(messages, A)
    BY <2>1, <1>2, <1>4, SomewhereInConcat
  <2> QED
    BY <2>3, <2>4, <1>3
<1>5. CASE down' = (down \o messages) \o ack
  <2>1. down \o messages \in Seq(S)
    BY <1>2, ConcatProperties
  <2>2. Nowhere(down \o messages, A) /\ Nowhere(ack, A)
    BY <2>1, <1>2, <1>5, SomewhereInConcat
  <2>3. Nowhere(down, A) /\ Nowhere(messages, A)
    BY <2>2, <1>2, SomewhereInConcat
  <2> QED
    BY <2>2, <2>3, <1>3
<1> QED
  BY <1>1, <1>4, <1>5

\* A step that does not ask for it, move it out of sight or answer it.
LEMMA AnswerKept ==
    ASSUME NEW a \in Actions, AnswerInv(a),
           Nowhere(up', Asks(a)) => Nowhere(up, Asks(a)),
           Nowhere(down', Replies(a)) => Nowhere(down, Replies(a)),
           a \in requested' \ lost' => a \in requested \ lost,
           answers'[a] = answers[a],
           result'[a] = result[a]
    PROVE  AnswerInv(a)'
  BY DEF AnswerInv

LEMMA ReplyAnswers ==
    ASSUME IInv, up # <<>>, Request.op # "subscribe",
           NEW refused \in SUBSET Request.orders, NEW pushes, Reply(refused, pushes),
           pushes \subseteq Seq(ExchangeMessage),
           NEW a \in Actions, AnswerInv(a),
           UNCHANGED <<requested, answers, lost>>
    PROVE  AnswerInv(a)'
<1> DEFINE ack == Ack(Request, refused, TRUE)
<1>1. /\ ack \in ExchangeMessage
      /\ ack.kind = "ack" /\ ack.op = Request.op /\ ack.orders = Request.orders
      /\ ack.refused = refused /\ ack.data = TRUE
  BY RequestParts, AckIsMessage DEF Ack
<1>2. /\ up \in Seq(RequestMessage)
      /\ down \in Seq(ExchangeMessage)
      /\ result \in [Actions -> {"none", "accepted", "refused", "forbidden"}]
  BY DEF IInv, TypeOK
<1>3. Nowhere(down', Replies(a)) => Nowhere(down, Replies(a)) /\ ack \notin Replies(a)
  BY <1>1, <1>2, SomewhereInReply
<1>4. /\ up' = Tail(up)
      /\ result' = [b \in Actions |->
            IF b \notin Request.orders \X {Request.op} THEN result[b]
            ELSE IF b[1] \in refused THEN "refused" ELSE "accepted"]
  BY DEF Reply
<1>5. CASE a \in Request.orders \X {Request.op}
  <2>1. result'[a] = (IF a[1] \in refused THEN "refused" ELSE "accepted") /\ a[2] = Request.op
    BY <1>4, <1>5
  <2>2. a[1] \in refused \/ Request.op # "modify" => a \in Acknowledged(ack) \X {ack.op}
    BY <1>1, <1>5 DEF Acknowledged
  <2>3. a[1] \in refused \/ Request.op # "modify" => ack \in Replies(a)
    BY <1>1, <2>2 DEF Replies
  <2> HIDE DEF ack
  <2> QED
    BY <1>3, <2>1, <2>3 DEF AnswerInv
<1>6. CASE a \notin Request.orders \X {Request.op}
  <2>1. Request \notin Asks(a)
    BY <1>6 DEF Asks
  <2>2. Nowhere(up', Asks(a)) => Nowhere(up, Asks(a))
    BY <1>2, <1>4, <2>1, SomewhereInTail DEF Request
  <2>3. result'[a] = result[a]
    BY <1>4, <1>6
  <2> QED
    BY <1>3, <2>2, <2>3, AnswerKept
<1> QED
  BY <1>5, <1>6

LEMMA ReceiveAnswers == IInv /\ AnswersInv /\ Receive => AnswersInv'
<1> SUFFICES ASSUME IInv, AnswersInv, Receive, NEW a \in Actions PROVE AnswerInv(a)'
  BY DEF AnswersInv
<1> DEFINE m == Head(down)
<1>1. /\ down # <<>> /\ down' = Tail(down)
      /\ UNCHANGED <<requested, lost, result>>
  BY DEF Receive, exchangeVars
<1>2. /\ ActionInv(a) /\ AnswerInv(a)
      /\ down \in Seq(ExchangeMessage)
      /\ up \in Seq(RequestMessage)
      /\ answers \in [Actions -> Nat]
      /\ m \in ExchangeMessage
  BY <1>1, HeadTailProperties DEF IInv, TypeOK, AnswersInv
<1>3. /\ Nowhere(down, Replies(a)) => m \notin Replies(a)
      /\ m \notin Replies(a) /\ Nowhere(down', Replies(a)) => Nowhere(down, Replies(a))
  BY <1>1, <1>2, OnceInTail, SomewhereInTail
<1> HIDE DEF m
<1>4. ASSUME NEW actions, NEW requestStatus, Respond(actions, requestStatus), UNCHANGED up,
             a \in actions <=> m \in Replies(a)
      PROVE  AnswerInv(a)'
  <2>1. CASE m \in Replies(a)
    <3>1. answers[a] = 0
      BY <1>2, <1>3, <2>1 DEF ActionInv
    <3>2. answers'[a] = 1
      BY <1>2, <1>4, <2>1, <3>1 DEF Respond
    <3> QED
      BY <3>2 DEF AnswerInv
  <2>2. CASE m \notin Replies(a)
    <3>1. answers'[a] = answers[a]
      BY <1>2, <1>4, <2>2 DEF Respond
    <3> QED
      BY <1>1, <1>2, <1>3, <1>4, <2>2, <3>1, AnswerKept
  <2> QED
    BY <2>1, <2>2
<1>5. CASE m.kind = "ack" /\ ReceiveAck(m)
  <2>1. a \in Acknowledged(m) \X {m.op} <=> m \in Replies(a)
    BY <1>2, <1>5 DEF Replies
  <2> QED
    BY <1>4, <1>5, <2>1 DEF ReceiveAck
<1>6. CASE m.kind = "push" /\ ReceivePush(m)
  <2>1. a \in (IF m.amend = "failed" THEN {<<m.order, "modify">>} ELSE {})
            <=> m \in Replies(a)
    BY <1>2, <1>6 DEF Replies
  <2> QED
    BY <1>4, <1>6, <2>1 DEF ReceivePush
<1>7. CASE m.kind = "subscribed" /\ ReceiveSubscribed
  <2>1. UNCHANGED <<up, answers>> /\ m \notin Replies(a)
    BY <1>7, NextStages DEF ReceiveSubscribed, Enter, managerVars, Replies
  <2> QED
    BY <1>1, <1>2, <1>3, <2>1, AnswerKept
<1> QED
  BY <1>5, <1>6, <1>7 DEF Receive, m

LEMMA SubmitAnswers ==
    ASSUME IInv, NEW op \in Operations, NEW orders \in SUBSET Orders, Submit(op, orders),
           NEW a \in Actions, AnswerInv(a)
    PROVE  AnswerInv(a)'
<1> DEFINE r == [op |-> op, orders |-> orders]
<1>1. r \in RequestMessage /\ (a \in orders \X {op} => r \in Asks(a))
  BY DEF RequestMessage, Asks
<1>2. up \in Seq(RequestMessage)
  BY DEF IInv, TypeOK
<1>3. /\ up' = Append(up, r)
      /\ requested' = requested \union (orders \X {op})
      /\ UNCHANGED <<down, answers, result, lost>>
  BY DEF Submit, exchangeVars
<1> HIDE DEF r
<1>4. Nowhere(up', Asks(a)) => Nowhere(up, Asks(a)) /\ r \notin Asks(a)
  BY <1>1, <1>2, <1>3, SomewhereInAppend
<1> QED
  BY <1>1, <1>3, <1>4 DEF AnswerInv

LEMMA NextAnswers == IInv /\ AnswersInv /\ [Next]_vars => AnswersInv'
<1> SUFFICES ASSUME IInv, AnswersInv, [Next]_vars, NEW a \in Actions PROVE AnswerInv(a)'
  BY DEF AnswersInv
<1>1. /\ AnswerInv(a)
      /\ up \in Seq(RequestMessage)
      /\ down \in Seq(ExchangeMessage)
      /\ result \in [Actions -> {"none", "accepted", "refused", "forbidden"}]
  BY DEF IInv, TypeOK, AnswersInv
<1>2. ASSUME NEW o \in Orders, CreateOrder(o) \/ ModifyOrder(o) \/ CancelOrder(o)
      PROVE  AnswerInv(a)'
  <2>1. \E op \in Operations : Submit(op, {o})
    BY <1>2 DEF CreateOrder, ModifyOrder, CancelOrder, Operations
  <2> QED
    BY <2>1, <1>1, SubmitAnswers
<1>3. CASE CancelAllOrders
  <2>1. Open \intersect external \in SUBSET Orders /\ "cancel all" \in Operations
    BY DEF Open, Operations
  <2> QED
    BY <1>1, <1>3, <2>1, SubmitAnswers DEF CancelAllOrders
<1>4. CASE TakeSubscribe
  <2>1. /\ up # <<>> /\ Request.op = "subscribe" /\ up' = Tail(up)
        /\ down' = Append(down, [kind |-> "subscribed"])
        /\ UNCHANGED <<requested, answers, lost, result>>
    BY <1>4 DEF TakeSubscribe, exchangeUnchanged, managerVars
  <2>2. [kind |-> "subscribed"] \in ExchangeMessage
    BY DEF ExchangeMessage
  <2>3. Request \notin Asks(a)
    BY <2>1, ActionParts DEF Asks, Operations
  <2>4. Nowhere(up', Asks(a)) => Nowhere(up, Asks(a))
    BY <1>1, <2>1, <2>3, SomewhereInTail DEF Request
  <2>5. Nowhere(down', Replies(a)) => Nowhere(down, Replies(a))
    BY <1>1, <2>1, <2>2, SomewhereInAppend
  <2> QED
    BY <1>1, <2>1, <2>4, <2>5, AnswerKept
<1>5. CASE TakeCreate
  <2>1. up # <<>> /\ Request.orders \in SUBSET Orders
    BY <1>5, RequestParts DEF TakeCreate
  <2>2. Pushes(Request.orders, "live") \subseteq Seq(ExchangeMessage)
    BY <2>1, StatePushesAreSeqs DEF ExchangeStates
  <2>3. /\ Request.op # "subscribe"
        /\ Reply({}, Pushes(Request.orders, "live"))
        /\ UNCHANGED <<requested, answers, lost>>
    BY <1>5 DEF TakeCreate, exchangeUnchanged, managerVars
  <2> QED
    BY <1>1, <2>1, <2>2, <2>3, ReplyAnswers
<1>6. ASSUME NEW refused \in SUBSET Request.orders, Reply(refused, {<<>>}),
             up # <<>>, Request.op # "subscribe",
             UNCHANGED <<requested, answers, lost>>
      PROVE  AnswerInv(a)'
  <2> DEFINE pushes == {<<>>}
  <2>1. pushes \subseteq Seq(ExchangeMessage) /\ Reply(refused, pushes)
    BY <1>6, NoPushesAreSeqs
  <2> HIDE DEF pushes
  <2> QED
    BY <1>1, <1>6, <2>1, ReplyAnswers
<1>7. CASE TakeModify
  <2>1. /\ up # <<>> /\ Request.op # "subscribe"
        /\ Reply({}, {<<>>})
        /\ UNCHANGED <<requested, answers, lost>>
        /\ {} \in SUBSET Request.orders
    BY <1>7 DEF TakeModify, exchangeUnchanged, managerVars
  <2> QED
    BY <1>6, <2>1
<1>8. CASE Refuse
  <2>1. /\ up # <<>> /\ Request.op # "subscribe"
        /\ Reply(Request.orders, {<<>>})
        /\ UNCHANGED <<requested, answers, lost>>
        /\ Request.orders \in SUBSET Request.orders
    BY <1>8 DEF Refuse, exchangeUnchanged, managerVars
  <2> QED
    BY <1>6, <2>1
<1>9. CASE TakeCancel
  <2> DEFINE live == {o \in Request.orders : exchange[o] = "live"}
  <2>1. up # <<>> /\ Request.op # "subscribe" /\ live \in SUBSET Orders
    BY <1>9, RequestParts DEF TakeCancel
  <2>2. Pushes(live, "canceled") \subseteq Seq(ExchangeMessage)
    BY <2>1, StatePushesAreSeqs DEF ExchangeStates
  <2>3. /\ Reply(Request.orders \ live, Pushes(live, "canceled"))
        /\ UNCHANGED <<requested, answers, lost>>
    BY <1>9 DEF TakeCancel, exchangeUnchanged, managerVars
  <2> HIDE DEF live
  <2> QED
    BY <1>1, <2>1, <2>2, <2>3, ReplyAnswers
<1>10. CASE Forbid
  <2> DEFINE m == Ack(Request, Request.orders, FALSE)
  <2>1. up # <<>> /\ Request.op # "subscribe" /\ Request.orders \in SUBSET Orders
    BY <1>10, RequestParts DEF Forbid
  <2>2. /\ m \in ExchangeMessage
        /\ m.kind = "ack" /\ m.op = Request.op /\ m.orders = Request.orders
        /\ m.data = FALSE
    BY <2>1, RequestParts, AckIsMessage DEF Ack
  <2>3. a \in Request.orders \X {"create"} /\ Request.op = "create" => m \in Replies(a)
    BY <2>2 DEF Replies, Acknowledged
  <2>4. /\ up' = Tail(up)
        /\ down' = Append(down, m)
        /\ result' = [b \in Actions |->
              IF b \in Request.orders \X {Request.op} THEN "forbidden" ELSE result[b]]
        /\ UNCHANGED <<requested, answers, lost>>
    BY <1>10 DEF Forbid, exchangeUnchanged, managerVars
  <2> HIDE DEF m
  <2>5. Nowhere(down', Replies(a)) => Nowhere(down, Replies(a)) /\ m \notin Replies(a)
    BY <1>1, <2>2, <2>4, SomewhereInAppend
  <2>6. CASE a \in Request.orders \X {Request.op}
    <3>1. result'[a] = "forbidden"
      BY <2>4, <2>6
    <3> QED
      BY <1>1, <2>3, <2>4, <2>5, <2>6, <3>1 DEF AnswerInv
  <2>7. CASE a \notin Request.orders \X {Request.op}
    <3>1. Request \notin Asks(a) /\ result'[a] = result[a]
      BY <2>4, <2>7 DEF Asks
    <3>2. Nowhere(up', Asks(a)) => Nowhere(up, Asks(a))
      BY <1>1, <2>1, <2>4, <3>1, SomewhereInTail DEF Request
    <3> QED
      BY <1>1, <2>4, <2>5, <3>1, <3>2, AnswerKept
  <2> QED
    BY <2>6, <2>7
<1>11. ASSUME NEW o \in Orders, Fill(o) PROVE AnswerInv(a)'
  <2>1. PICK messages \in Pushes({o}, "filled") : down' = down \o messages
    BY <1>11 DEF Fill
  <2>2. messages \in Seq(ExchangeMessage)
    BY StatePushesAreSeqs DEF ExchangeStates
  <2>3. Nowhere(down', Replies(a)) => Nowhere(down, Replies(a))
    BY <1>1, <2>1, <2>2, SomewhereInConcat
  <2> QED
    BY <1>1, <1>11, <2>3, AnswerKept DEF Fill, exchangeUnchanged, managerVars
<1>12. ASSUME NEW o \in Orders, NEW amend \in {"done", "failed"}, Amended(o, amend)
       PROVE  AnswerInv(a)'
  <2> DEFINE m == Push(o, exchange[o], amend)
  <2>1. m \in ExchangeMessage
    BY PushIsMessage DEF IInv, TypeOK
  <2>2. a = <<o, "modify">> /\ amend = "failed" => m \in Replies(a)
    BY <2>1 DEF Push, Replies
  <2>3. /\ down' = IF subscribed THEN Append(down, m) ELSE down
        /\ result' = IF amend = "done" THEN result
                     ELSE [result EXCEPT ![<<o, "modify">>] = "refused"]
        /\ lost' = IF subscribed THEN lost ELSE lost \union {<<o, "modify">>}
        /\ UNCHANGED <<up, requested, answers>>
    BY <1>12 DEF Amended, managerVars
  <2> HIDE DEF m
  <2>4. Nowhere(down', Replies(a)) => Nowhere(down, Replies(a)) /\ (subscribed => m \notin Replies(a))
    <3>1. CASE subscribed
      BY <1>1, <2>1, <2>3, <3>1, SomewhereInAppend
    <3>2. CASE ~subscribed
      BY <2>3, <3>2
    <3> QED
      BY <3>1, <3>2
  <2>5. CASE a = <<o, "modify">> /\ amend = "failed"
    BY <1>1, <2>2, <2>3, <2>4, <2>5 DEF AnswerInv
  <2>6. CASE ~(a = <<o, "modify">> /\ amend = "failed")
    <3>1. result'[a] = result[a]
      BY <1>1, <2>3, <2>6
    <3> QED
      BY <1>1, <2>3, <2>4, <3>1, AnswerKept
  <2> QED
    BY <2>5, <2>6
<1>13. CASE Downloaded \/ DropCopyTimer
  <2> DEFINE r == [op |-> "subscribe", orders |-> {}]
  <2>1. r \in RequestMessage
    BY DEF RequestMessage
  <2>2. up' = Append(up, r) \/ up' = up
    BY <1>13 DEF Downloaded, DropCopyTimer, Enter
  <2> HIDE DEF r
  <2>3. Nowhere(up', Asks(a)) => Nowhere(up, Asks(a))
    <3>1. CASE up' = Append(up, r)
      BY <1>1, <2>1, <3>1, SomewhereInAppend
    <3>2. CASE up' = up
      BY <3>2
    <3> QED
      BY <2>2, <3>1, <3>2
  <2>4. UNCHANGED <<down, requested, answers, result, lost>>
    BY <1>13 DEF Downloaded, DropCopyTimer, exchangeVars, managerVars
  <2> QED
    BY <1>1, <2>3, <2>4, AnswerKept
<1>14. CASE Disconnected
  <2>1. /\ UNCHANGED <<requested, answers>>
        /\ lost' = lost \union {b \in requested : answers[b] = 0}
    BY <1>14 DEF Disconnected, managerVars
  <2>2. a \in requested' /\ answers'[a] = 0 => a \in lost'
    BY <2>1
  <2>3. answers'[a] <= 1
    BY <1>1, <2>1 DEF AnswerInv
  <2>4. ~(a \in requested' \ lost' /\ answers'[a] = 0)
    BY <2>2
  <2> QED
    BY <2>3, <2>4 DEF AnswerInv
<1>15. CASE \/ LoggedIn \/ GetOpenOrders \/ TakeOpenOrders \/ OpenOrdersAck \/ OpenOrdersError
            \/ UNCHANGED vars
  <2>1. UNCHANGED <<up, down, requested, answers, result, lost>>
    BY <1>15 DEF LoggedIn, GetOpenOrders, TakeOpenOrders, OpenOrdersAck, OpenOrdersError,
       othersUnchanged, exchangeVars, managerVars, vars
  <2> QED
    BY <1>1, <2>1, AnswerKept
<1>16. CASE Receive
  BY <1>16, ReceiveAnswers DEF AnswersInv
<1> QED
  BY <1>2, <1>3, <1>4, <1>5, <1>7, <1>8, <1>9, <1>10, <1>11, <1>12, <1>13, <1>14, <1>15, <1>16
  DEF Next

\* When everything was received, every request has its Response, unless its messages were
\* lost or none is owed, for any orders, requests and lost connections.
THEOREM NoResponseIsMissing == Spec => []AllAnswered
<1>1. Init => AnswersInv
  BY DEF Init, AnswersInv, AnswerInv
<1>2. IInv /\ AnswersInv => AllAnswered
  <2> SUFFICES ASSUME IInv, AnswersInv, Quiet, NEW a \in requested \ lost
               PROVE  \/ answers[a] = 1
                      \/ a[2] = "modify" /\ result[a] = "accepted"
                      \/ a[2] # "create" /\ result[a] = "forbidden"
    BY DEF AllAnswered
  <2>1. a \in Actions /\ answers[a] \in Nat
    BY DEF IInv, TypeOK
  <2>2. Nowhere(up, Asks(a)) /\ Nowhere(down, Replies(a))
    BY NowhereInEmpty DEF Quiet
  <2>3. answers[a] <= 1
    BY <2>1 DEF AnswersInv, AnswerInv
  <2> QED
    BY <2>1, <2>2, <2>3 DEF AnswersInv, AnswerInv
<1> QED
  BY Invariance, NextAnswers, <1>1, <1>2, PTL DEF Spec

-----------------------------------------------------------------------------
(* The order manager is in sync.  The argument: an order that is live, or  *)
(* that finished on this subscription, has its status in the order manager *)
(* or a message with it on its way; for the live orders that are older     *)
(* than the subscription, the answer of the request made after it.         *)

Pushed(o, state) == {m \in ExchangeMessage : m.kind = "push" /\ m.order = o /\ m.state = state}

Confirmations == {m \in ExchangeMessage : m.kind = "subscribed"}

Told(o, state) == status[o] = OrderStatus(state) \/ ~Nowhere(down, Pushed(o, state))

SubscribedInv ==
    ~subscribed => stage \notin {"snapshot", "ready"} /\ Nowhere(down, Confirmations)

LiveInv(o) ==
    exchange[o] = "live" /\ stage \in {"snapshot", "ready"} =>
        /\ obtained => Told(o, "live")
        /\ ~asked /\ http = "taken" => Told(o, "live") \/ snapshot[o] = "live"

HereInv(o) ==
    o \in here => exchange[o] \in {"filled", "canceled"} /\ Told(o, exchange[o])

SyncInv ==
    /\ SubscribedInv
    /\ \A o \in Orders : LiveInv(o)
    /\ \A o \in Orders : HereInv(o)

\* While it is subscribed, the exchange sends a message for each order.
LEMMA PushesSomewhere ==
    ASSUME subscribed, NEW orders \in SUBSET Orders, NEW o \in orders,
           NEW state \in ExchangeStates, NEW messages \in Pushes(orders, state)
    PROVE  ~Nowhere(messages, Pushed(o, state))
<1> DEFINE P == {Push(p, state, "none") : p \in orders}
           D == 1 .. Cardinality(P)
<1>1. IsFiniteSet(orders)
  BY OrdersAssumption, FS_Subset
<1>2. [p \in orders |-> Push(p, state, "none")] \in Surjection(orders, P)
  BY DEF Surjection
<1>3. IsFiniteSet(P) /\ Cardinality(P) \in Nat
  BY <1>1, <1>2, FS_Surjection, FS_CardinalityType
<1>4. Push(o, state, "none") \in P
  OBVIOUS
<1>5. messages \in [D -> P] /\ \A i, j \in D : i # j => messages[i] # messages[j]
  BY DEF Pushes, SetToSeqs
<1> HIDE DEF P
<1>6. IsFiniteSet(D) /\ Cardinality(D) = Cardinality(P)
  BY <1>3, FS_Interval
<1> HIDE DEF D
<1>7. messages \in Injection(D, P)
  BY <1>5 DEF Injection, IsInjective
<1>8. messages \in Surjection(D, P)
  BY <1>3, <1>6, <1>7, FS_Injection
<1>9. PICK n \in D : messages[n] = Push(o, state, "none")
  BY <1>4, <1>8 DEF Surjection
<1>10. Push(o, state, "none") \in Pushed(o, state)
  BY PushIsMessage DEF Pushed, Push
<1> QED
  BY <1>5, <1>9, <1>10 DEF Nowhere

\* What a message makes of an order that has its status already.
LEMMA StatusKept ==
    ASSUME NEW state \in {"live", "filled", "canceled"}, NEW s \in {state, "live"}
    PROVE  /\ Updated(OrderStatus(state), OrderStatus(s)) = OrderStatus(state)
           /\ \A old \in {"none", "sent", "WORKING"} :
                Updated(old, OrderStatus(state)) = OrderStatus(state)
  BY DEF Updated, OrderStatus, Rank

LEMMA ReceiveTold ==
    ASSUME IInv, Receive, NEW o \in Orders, exchange[o] \in {"live", "filled", "canceled"},
           Told(o, exchange[o])
    PROVE  Told(o, exchange[o])'
<1> DEFINE m == Head(down)
<1>1. /\ down # <<>> /\ down' = Tail(down)
      /\ UNCHANGED <<exchange, result>>
      /\ m \in SoundMessages
      /\ down \in Seq(ExchangeMessage)
      /\ status \in [Orders -> Statuses]
      /\ OrderInv(o)
  BY HeadTailProperties DEF Receive, IInv, TypeOK, Statuses, exchangeVars
<1>2. m \in ExchangeMessage
  BY <1>1 DEF SoundMessages
<1>3. m \notin Pushed(o, exchange[o]) /\ Nowhere(down', Pushed(o, exchange[o]))
          => Nowhere(down, Pushed(o, exchange[o]))
  BY <1>1, SomewhereInTail
<1> HIDE DEF m
<1>4. CASE m.kind = "ack" /\ ReceiveAck(m)
  <2>1. ~(m.op = "create" /\ o \in Acknowledged(m) /\ RequestStatus(m) = "REJECTED")
    <3> SUFFICES ASSUME m.op = "create" /\ o \in Acknowledged(m) /\ RequestStatus(m) = "REJECTED"
                 PROVE  FALSE
      OBVIOUS
    <3>1. SoundAck(m) /\ m.orders = {o} /\ m.refused = {o}
      BY <1>1, <1>2, <1>4, MessageParts
      DEF SoundMessages, SoundAck, Acknowledged, RequestStatus
    <3>2. result[<<o, "create">>] \in {"refused", "forbidden"}
      BY <1>2, <1>4, <3>1, MessageParts DEF SoundAck
    <3> QED
      BY <1>1, <3>2 DEF OrderInv
  <2>2. status'[o] = status[o]
    BY <1>1, <1>4, <2>1 DEF ReceiveAck
  <2>3. m \notin Pushed(o, exchange[o])
    BY <1>4 DEF Pushed
  <2> QED
    BY <1>1, <1>3, <2>2, <2>3 DEF Told
<1>5. CASE m.kind = "push" /\ ReceivePush(m)
  <2>1. CASE m.order = o
    <3>1. m.state = exchange[o] \/ m.state = "live"
      BY <1>1, <1>5, <2>1 DEF SoundMessages, SoundPush
    <3>2. status'[o] = Updated(status[o], OrderStatus(m.state))
      BY <1>1, <1>5, <2>1 DEF ReceivePush
    <3>3. CASE status[o] = OrderStatus(exchange[o])
      BY <1>1, <3>1, <3>2, <3>3, StatusKept DEF Told
    <3>4. CASE status[o] # OrderStatus(exchange[o])
      <4>1. status[o] \in {"none", "sent", "WORKING"}
        BY <1>1, <3>4 DEF OrderInv, OrderStatus, Statuses
      <4>2. CASE m.state = exchange[o]
        BY <1>1, <3>2, <4>1, <4>2, StatusKept DEF Told
      <4>3. CASE m.state # exchange[o]
        <5>1. m \notin Pushed(o, exchange[o])
          BY <4>3 DEF Pushed
        <5> QED
          BY <1>1, <1>3, <3>4, <5>1 DEF Told
      <4> QED
        BY <4>2, <4>3
    <3> QED
      BY <3>3, <3>4
  <2>2. CASE m.order # o
    <3>1. status'[o] = status[o] /\ m \notin Pushed(o, exchange[o])
      BY <1>1, <1>5, <2>2 DEF ReceivePush, Pushed
    <3> QED
      BY <1>1, <1>3, <3>1 DEF Told
  <2> QED
    BY <2>1, <2>2
<1>6. CASE m.kind = "subscribed" /\ ReceiveSubscribed
  <2>1. UNCHANGED status /\ m \notin Pushed(o, exchange[o])
    BY <1>6 DEF ReceiveSubscribed, managerVars, Pushed
  <2> QED
    BY <1>1, <1>3, <2>1 DEF Told
<1> QED
  BY <1>4, <1>5, <1>6 DEF Receive, m

\* What clients were told, or are about to be told, of an order stays so while the order
\* does, unless the connection is lost.
LEMMA ToldStays ==
    ASSUME IInv, [Next]_vars, ~Disconnected, NEW o \in Orders,
           exchange[o] \in {"live", "filled", "canceled"}, exchange'[o] = exchange[o],
           Told(o, exchange[o])
    PROVE  Told(o, exchange[o])'
<1> DEFINE A == Pushed(o, exchange[o])
<1>1. /\ up \in Seq(RequestMessage)
      /\ down \in Seq(ExchangeMessage)
      /\ status \in [Orders -> Statuses]
      /\ OrderInv(o)
      /\ Pushed(o, exchange[o])' = A
  BY DEF IInv, TypeOK, Statuses, Pushed
<1>2. ASSUME status'[o] = status[o], Nowhere(down', A) => Nowhere(down, A)
      PROVE  Told(o, exchange[o])'
  BY <1>1, <1>2 DEF Told
<1> HIDE DEF A
<1>3. ASSUME NEW p \in Orders, CreateOrder(p) \/ ModifyOrder(p) \/ CancelOrder(p)
      PROVE  Told(o, exchange[o])'
  <2>1. status[o] # "none"
    <3>1. ActionInv(<<o, "create">>)
      BY ActionOf DEF IInv, Operations
    <3> QED
      BY <1>1, <3>1 DEF OrderInv, ActionInv
  <2>2. status'[o] = status[o] /\ UNCHANGED down
    BY <1>1, <1>3, <2>1 DEF CreateOrder, ModifyOrder, CancelOrder, Submit
  <2> QED
    BY <1>2, <2>2
<1>4. CASE CancelAllOrders
  BY <1>2, <1>4 DEF CancelAllOrders, Submit
<1>5. CASE TakeSubscribe
  <2>1. [kind |-> "subscribed"] \in ExchangeMessage
    BY DEF ExchangeMessage
  <2>2. Nowhere(down', A) => Nowhere(down, A)
    BY <1>1, <1>5, <2>1, SomewhereInAppend DEF TakeSubscribe
  <2> QED
    BY <1>2, <1>5, <2>2 DEF TakeSubscribe, exchangeUnchanged, managerVars
<1>6. ASSUME NEW refused \in SUBSET Request.orders, NEW pushes, Reply(refused, pushes),
             pushes \subseteq Seq(ExchangeMessage), up # <<>>, Request.op # "subscribe"
      PROVE  Nowhere(down', A) => Nowhere(down, A)
  <2>1. Ack(Request, refused, TRUE) \in ExchangeMessage
    BY <1>6, RequestParts, AckIsMessage
  <2> QED
    BY <1>1, <1>6, <2>1, SomewhereInReply
<1>7. CASE TakeCreate
  <2>1. up # <<>> /\ Request.op # "subscribe" /\ {} \in SUBSET Request.orders
        /\ Reply({}, Pushes(Request.orders, "live")) /\ UNCHANGED status
    BY <1>7 DEF TakeCreate, exchangeUnchanged, managerVars
  <2>2. Pushes(Request.orders, "live") \subseteq Seq(ExchangeMessage)
    BY <2>1, RequestParts, StatePushesAreSeqs DEF ExchangeStates
  <2> QED
    BY <1>2, <1>6, <2>1, <2>2
<1>8. CASE TakeModify \/ Refuse
  <2> DEFINE pushes == {<<>>}
  <2>1. pushes \subseteq Seq(ExchangeMessage)
    BY NoPushesAreSeqs
  <2>2. \E refused \in SUBSET Request.orders : Reply(refused, pushes)
    BY <1>8 DEF TakeModify, Refuse
  <2>3. up # <<>> /\ Request.op # "subscribe" /\ UNCHANGED status
    BY <1>8 DEF TakeModify, Refuse, exchangeUnchanged, managerVars
  <2> HIDE DEF pushes
  <2> QED
    BY <1>2, <1>6, <2>1, <2>2, <2>3
<1>9. CASE TakeCancel
  <2> DEFINE live == {p \in Request.orders : exchange[p] = "live"}
  <2>1. up # <<>> /\ Request.op # "subscribe" /\ live \in SUBSET Orders
        /\ Reply(Request.orders \ live, Pushes(live, "canceled")) /\ UNCHANGED status
    BY <1>9, RequestParts DEF TakeCancel, exchangeUnchanged, managerVars
  <2> HIDE DEF live
  <2>2. Pushes(live, "canceled") \subseteq Seq(ExchangeMessage)
    BY <2>1, StatePushesAreSeqs DEF ExchangeStates
  <2>3. Request.orders \ live \in SUBSET Request.orders
    OBVIOUS
  <2> QED
    BY <1>2, <1>6, <2>1, <2>2, <2>3
<1>10. CASE Forbid
  <2> DEFINE m == Ack(Request, Request.orders, FALSE)
  <2>1. up # <<>> /\ Request.op # "subscribe"
        /\ down' = Append(down, m) /\ UNCHANGED status
    BY <1>10 DEF Forbid, exchangeUnchanged, managerVars
  <2>2. m \in ExchangeMessage
    BY <2>1, RequestParts, AckIsMessage
  <2> HIDE DEF m
  <2>3. Nowhere(down', A) => Nowhere(down, A)
    BY <1>1, <2>1, <2>2, SomewhereInAppend
  <2> QED
    BY <1>2, <2>1, <2>3
<1>11. ASSUME NEW p \in Orders, Fill(p) PROVE Told(o, exchange[o])'
  <2>1. PICK messages \in Pushes({p}, "filled") : down' = down \o messages
    BY <1>11 DEF Fill
  <2>2. messages \in Seq(ExchangeMessage)
    BY StatePushesAreSeqs DEF ExchangeStates
  <2>3. Nowhere(down', A) => Nowhere(down, A)
    BY <1>1, <2>1, <2>2, SomewhereInConcat
  <2> QED
    BY <1>2, <1>11, <2>3 DEF Fill, exchangeUnchanged, managerVars
<1>12. ASSUME NEW p \in Orders, NEW amend \in {"done", "failed"}, Amended(p, amend)
       PROVE  Told(o, exchange[o])'
  <2>1. Push(p, exchange[p], amend) \in ExchangeMessage
    BY PushIsMessage DEF IInv, TypeOK
  <2>2. \/ down' = Append(down, Push(p, exchange[p], amend))
        \/ down' = down
    BY <1>12 DEF Amended
  <2>3. Nowhere(down', A) => Nowhere(down, A)
    <3>1. CASE down' = Append(down, Push(p, exchange[p], amend))
      BY <1>1, <2>1, <3>1, SomewhereInAppend
    <3>2. CASE down' = down
      BY <3>2
    <3> QED
      BY <2>2, <3>1, <3>2
  <2> QED
    BY <1>2, <1>12, <2>3 DEF Amended, managerVars
<1>13. CASE Receive
  BY <1>13, ReceiveTold
<1>14. CASE OpenOrdersAck
  <2>1. status'[o] = IF snapshot[o] = "live"
                     THEN Updated(status[o], OrderStatus("live"))
                     ELSE status[o]
    BY <1>14 DEF OpenOrdersAck
  <2>2. UNCHANGED down
    BY <1>14 DEF OpenOrdersAck
  <2>3. CASE status[o] = OrderStatus(exchange[o])
    BY <2>1, <2>3, StatusKept DEF Told
  <2>4. CASE ~Nowhere(down, A)
    BY <1>1, <2>2, <2>4 DEF Told
  <2> QED
    BY <2>3, <2>4 DEF Told, A
<1>15. CASE \/ LoggedIn \/ Downloaded \/ DropCopyTimer \/ GetOpenOrders \/ TakeOpenOrders
            \/ OpenOrdersError \/ UNCHANGED vars
  <2>1. UNCHANGED <<status, down>>
    BY <1>15 DEF LoggedIn, Downloaded, DropCopyTimer, GetOpenOrders, TakeOpenOrders,
       OpenOrdersError, othersUnchanged, managerVars, vars
  <2> QED
    BY <1>2, <2>1
<1> QED
  BY <1>3, <1>4, <1>5, <1>7, <1>8, <1>9, <1>10, <1>11, <1>12, <1>13, <1>14, <1>15 DEF Next

\* Before it takes the subscription of a connection, the exchange has confirmed none.
LEMMA NextSubscribed == IInv /\ SubscribedInv /\ [Next]_vars => SubscribedInv'
<1> SUFFICES ASSUME IInv, SubscribedInv, [Next]_vars, ~subscribed'
             PROVE  stage' \notin {"snapshot", "ready"} /\ Nowhere(down', Confirmations)
  BY DEF SubscribedInv, Confirmations
<1>1. down \in Seq(ExchangeMessage)
  BY DEF IInv, TypeOK
<1>2. ASSUME UNCHANGED subscribed
      PROVE  stage \notin {"snapshot", "ready"} /\ Nowhere(down, Confirmations)
  BY <1>2 DEF SubscribedInv
<1>3. ASSUME UNCHANGED <<subscribed, stage, down>>
      PROVE  stage' \notin {"snapshot", "ready"} /\ Nowhere(down', Confirmations)
  BY <1>2, <1>3
<1>4. ASSUME NEW refused \in SUBSET Request.orders, NEW pushes, Reply(refused, pushes),
             pushes \subseteq Seq(ExchangeMessage), up # <<>>, Request.op # "subscribe",
             \A messages \in pushes : Nowhere(messages, Confirmations),
             UNCHANGED <<subscribed, stage>>
      PROVE  stage' \notin {"snapshot", "ready"} /\ Nowhere(down', Confirmations)
  <2>1. Ack(Request, refused, TRUE) \in ExchangeMessage
    BY <1>4, RequestParts, AckIsMessage
  <2>2. Ack(Request, refused, TRUE) \notin Confirmations
    BY DEF Ack, Confirmations
  <2>3. Nowhere(down', Confirmations)
    BY <1>1, <1>2, <1>4, <2>1, <2>2, ReplyAdds
  <2> QED
    BY <1>2, <1>4, <2>3
<1>5. \A o, state, amend : Push(o, state, amend) \notin Confirmations
  BY DEF Push, Confirmations
<1>6. \A orders \in SUBSET Orders : \A state : \A messages \in Pushes(orders, state) :
          Nowhere(messages, Confirmations)
  BY <1>5, PushesNowhere
<1>7. CASE TakeCreate
  <2>1. up # <<>> /\ Request.op # "subscribe" /\ {} \in SUBSET Request.orders
        /\ Reply({}, Pushes(Request.orders, "live")) /\ UNCHANGED <<subscribed, stage>>
    BY <1>7 DEF TakeCreate, exchangeUnchanged
  <2>2. Request.orders \in SUBSET Orders
    BY <2>1, RequestParts
  <2>3. Pushes(Request.orders, "live") \subseteq Seq(ExchangeMessage)
    BY <2>2, StatePushesAreSeqs DEF ExchangeStates
  <2>4. \A messages \in Pushes(Request.orders, "live") : Nowhere(messages, Confirmations)
    BY <1>6, <2>2
  <2> QED
    BY <1>4, <2>1, <2>3, <2>4
<1>8. CASE TakeModify \/ Refuse
  <2> DEFINE pushes == {<<>>}
  <2>1. pushes \subseteq Seq(ExchangeMessage)
    BY NoPushesAreSeqs
  <2>2. \A messages \in pushes : Nowhere(messages, Confirmations)
    BY NowhereInEmpty
  <2>3. \E refused \in SUBSET Request.orders : Reply(refused, pushes)
    BY <1>8 DEF TakeModify, Refuse
  <2>4. up # <<>> /\ Request.op # "subscribe" /\ UNCHANGED <<subscribed, stage>>
    BY <1>8 DEF TakeModify, Refuse, exchangeUnchanged
  <2> HIDE DEF pushes
  <2> QED
    BY <1>4, <2>1, <2>2, <2>3, <2>4
<1>9. CASE TakeCancel
  <2> DEFINE live == {p \in Request.orders : exchange[p] = "live"}
  <2>1. up # <<>> /\ Request.op # "subscribe" /\ live \in SUBSET Orders
        /\ Reply(Request.orders \ live, Pushes(live, "canceled"))
        /\ UNCHANGED <<subscribed, stage>>
    BY <1>9, RequestParts DEF TakeCancel, exchangeUnchanged
  <2> HIDE DEF live
  <2>2. Pushes(live, "canceled") \subseteq Seq(ExchangeMessage)
    BY <2>1, StatePushesAreSeqs DEF ExchangeStates
  <2>3. \A messages \in Pushes(live, "canceled") : Nowhere(messages, Confirmations)
    BY <1>6, <2>1
  <2>4. Request.orders \ live \in SUBSET Request.orders
    OBVIOUS
  <2> QED
    BY <1>4, <2>1, <2>2, <2>3, <2>4
<1>10. CASE Forbid
  <2> DEFINE m == Ack(Request, Request.orders, FALSE)
  <2>1. up # <<>> /\ Request.op # "subscribe"
        /\ down' = Append(down, m) /\ UNCHANGED <<subscribed, stage>>
    BY <1>10 DEF Forbid, exchangeUnchanged
  <2>2. m \in ExchangeMessage
    BY <2>1, RequestParts, AckIsMessage
  <2>3. m \notin Confirmations
    BY DEF Ack, Confirmations
  <2> HIDE DEF m
  <2> QED
    BY <1>1, <1>2, <2>1, <2>2, <2>3, OnceInAppend
<1>11. ASSUME NEW o \in Orders, Fill(o)
       PROVE  stage' \notin {"snapshot", "ready"} /\ Nowhere(down', Confirmations)
  <2>1. UNCHANGED <<subscribed, stage>>
    BY <1>11 DEF Fill, exchangeUnchanged
  <2>2. PICK messages \in Pushes({o}, "filled") : down' = down \o messages
    BY <1>11 DEF Fill
  <2>3. messages \in Seq(ExchangeMessage)
    BY StatePushesAreSeqs DEF ExchangeStates
  <2>4. Nowhere(messages, Confirmations)
    BY <1>6
  <2> QED
    BY <1>1, <1>2, <2>1, <2>2, <2>3, <2>4, OnceInConcat
<1>12. ASSUME NEW o \in Orders, NEW amend \in {"done", "failed"}, Amended(o, amend)
       PROVE  stage' \notin {"snapshot", "ready"} /\ Nowhere(down', Confirmations)
  <2>1. UNCHANGED <<subscribed, stage, down>>
    BY <1>2, <1>12 DEF Amended
  <2> QED
    BY <1>3, <2>1
<1>13. CASE Receive
  <2> DEFINE m == Head(down)
  <2>1. /\ down # <<>> /\ down' = Tail(down) /\ UNCHANGED subscribed
    BY <1>13 DEF Receive, exchangeVars
  <2>2. m \in ExchangeMessage
    BY <1>1, <2>1, HeadTailProperties
  <2>3. m \notin Confirmations /\ Nowhere(down', Confirmations)
    BY <1>1, <1>2, <2>1, OnceInTail
  <2>4. m.kind # "subscribed"
    BY <2>2, <2>3 DEF Confirmations
  <2>5. UNCHANGED stage
    BY <1>13, <2>4 DEF Receive, ReceiveAck, ReceivePush
  <2> QED
    BY <1>2, <2>1, <2>3, <2>5
<1>14. CASE Downloaded \/ DropCopyTimer
  <2>1. UNCHANGED <<subscribed, down>>
    BY <1>14 DEF Downloaded, DropCopyTimer, exchangeVars
  <2>2. stage' = "subscribing"
    BY <1>2, <1>14, <2>1, NextStages DEF Downloaded, DropCopyTimer, Enter
  <2> QED
    BY <1>2, <2>1, <2>2
<1>15. CASE LoggedIn
  BY <1>2, <1>15 DEF LoggedIn, exchangeVars
<1>16. CASE Disconnected
  BY <1>16, NowhereInEmpty DEF Disconnected
<1>17. CASE TakeSubscribe
  BY <1>17 DEF TakeSubscribe
<1>18. ASSUME NEW o \in Orders, CreateOrder(o) \/ ModifyOrder(o) \/ CancelOrder(o)
       PROVE  stage' \notin {"snapshot", "ready"} /\ Nowhere(down', Confirmations)
  BY <1>3, <1>18 DEF CreateOrder, ModifyOrder, CancelOrder, Submit, exchangeVars
<1>19. CASE CancelAllOrders
  BY <1>3, <1>19 DEF CancelAllOrders, Submit, exchangeVars
<1>20. CASE GetOpenOrders \/ TakeOpenOrders \/ OpenOrdersAck \/ OpenOrdersError \/ UNCHANGED vars
  <2>1. UNCHANGED <<subscribed, stage, down>>
    BY <1>20 DEF GetOpenOrders, TakeOpenOrders, OpenOrdersAck, OpenOrdersError,
       othersUnchanged, exchangeVars, vars
  <2> QED
    BY <1>3, <2>1
<1> QED
  BY <1>7, <1>8, <1>9, <1>10, <1>11, <1>12, <1>13, <1>14, <1>15, <1>16, <1>17, <1>18, <1>19, <1>20
  DEF Next

\* An order that gets a state while the channel is subscribed is told of.
LEMMA StateTold ==
    ASSUME IInv, subscribed, up # <<>>, Request.op # "subscribe",
           NEW refused \in SUBSET Request.orders,
           NEW orders \in SUBSET Orders, NEW state \in ExchangeStates,
           Reply(refused, Pushes(orders, state)),
           NEW o \in orders, exchange'[o] = state
    PROVE  Told(o, exchange[o])'
<1> DEFINE pushes == Pushes(orders, state)
<1>1. Pushed(o, exchange[o])' = Pushed(o, state)
  BY DEF Pushed
<1>2. pushes \subseteq Seq(ExchangeMessage)
  BY StatePushesAreSeqs
<1>3. \A messages \in pushes : ~Nowhere(messages, Pushed(o, state))
  BY PushesSomewhere
<1>4. Ack(Request, refused, TRUE) \in ExchangeMessage
  BY RequestParts, AckIsMessage
<1>5. down \in Seq(ExchangeMessage)
  BY DEF IInv, TypeOK
<1> HIDE DEF pushes
<1>6. Reply(refused, pushes)
  BY DEF pushes
<1>7. ~Nowhere(down', Pushed(o, state))
  BY <1>2, <1>3, <1>4, <1>5, <1>6, SomewhereInReply
<1> QED
  BY <1>1, <1>7 DEF Told

LEMMA NextHere ==
    ASSUME IInv, [Next]_vars, NEW o \in Orders, HereInv(o), o \in here'
    PROVE  exchange'[o] \in {"filled", "canceled"} /\ Told(o, exchange[o])'
<1>1. CASE o \in here
  <2>1. exchange[o] \in {"filled", "canceled"} /\ Told(o, exchange[o])
    BY <1>1 DEF HereInv
  <2>2. exchange'[o] = exchange[o]
    BY <2>1, NextStable DEF Stable
  <2>3. ~Disconnected
    BY DEF Disconnected
  <2> QED
    BY <2>1, <2>2, <2>3, ToldStays
<1>2. CASE o \notin here
  <2>1. CASE TakeCancel
    <3> DEFINE live == {p \in Request.orders : exchange[p] = "live"}
    <3>1. /\ up # <<>> /\ Request.op # "subscribe" /\ live \in SUBSET Orders
          /\ Reply(Request.orders \ live, Pushes(live, "canceled"))
          /\ here' = (IF subscribed THEN here \union live ELSE here)
          /\ exchange' = [p \in Orders |-> IF p \in live THEN "canceled" ELSE exchange[p]]
      BY <2>1, RequestParts DEF TakeCancel, exchangeUnchanged, managerVars
    <3> HIDE DEF live
    <3>2. subscribed /\ o \in live
      BY <1>2, <3>1
    <3>3. exchange'[o] = "canceled"
      BY <3>1, <3>2
    <3>4. Request.orders \ live \in SUBSET Request.orders
      OBVIOUS
    <3>5. Told(o, exchange[o])'
      BY <3>1, <3>2, <3>3, <3>4, StateTold DEF ExchangeStates
    <3> QED
      BY <3>3, <3>5
  <2>2. ASSUME NEW p \in Orders, Fill(p)
        PROVE  exchange'[o] \in {"filled", "canceled"} /\ Told(o, exchange[o])'
    <3>1. p = o /\ subscribed
      BY <1>2, <2>2 DEF Fill
    <3>2. exchange'[o] = "filled"
      BY <2>2, <3>1 DEF Fill, IInv, TypeOK
    <3>3. PICK messages \in Pushes({o}, "filled") : down' = down \o messages
      BY <2>2, <3>1 DEF Fill
    <3>4. {o} \in SUBSET Orders /\ o \in {o} /\ "filled" \in ExchangeStates
      BY DEF ExchangeStates
    <3>5. messages \in Seq(ExchangeMessage)
      BY <3>4, StatePushesAreSeqs
    <3>6. ~Nowhere(messages, Pushed(o, "filled"))
      BY <3>1, <3>4, PushesSomewhere
    <3>7. ~Nowhere(down', Pushed(o, "filled"))
      BY <3>3, <3>5, <3>6, SomewhereInConcat DEF IInv, TypeOK
    <3>8. Pushed(o, exchange[o])' = Pushed(o, "filled")
      BY <3>2 DEF Pushed
    <3> QED
      BY <3>2, <3>7, <3>8 DEF Told
  <2>3. CASE TakeCreate \/ TakeModify \/ Refuse \/ Forbid \/ TakeSubscribe
    BY <1>2, <2>3 DEF TakeCreate, TakeModify, Refuse, Forbid, TakeSubscribe
  <2>4. ASSUME NEW p \in Orders, CreateOrder(p) \/ ModifyOrder(p) \/ CancelOrder(p)
        PROVE  FALSE
    BY <1>2, <2>4 DEF CreateOrder, ModifyOrder, CancelOrder, Submit, exchangeVars
  <2>5. CASE CancelAllOrders
    BY <1>2, <2>5 DEF CancelAllOrders, Submit, exchangeVars
  <2>6. ASSUME NEW p \in Orders, NEW amend \in {"done", "failed"}, Amended(p, amend)
        PROVE  FALSE
    BY <1>2, <2>6 DEF Amended
  <2>7. CASE Receive \/ LoggedIn \/ Downloaded \/ DropCopyTimer
    BY <1>2, <2>7 DEF Receive, LoggedIn, Downloaded, DropCopyTimer, exchangeVars
  <2>8. CASE Disconnected
    BY <2>8 DEF Disconnected
  <2>9. CASE GetOpenOrders \/ TakeOpenOrders \/ OpenOrdersAck \/ OpenOrdersError \/ UNCHANGED vars
    BY <1>2, <2>9 DEF GetOpenOrders, TakeOpenOrders, OpenOrdersAck, OpenOrdersError,
       othersUnchanged, exchangeVars, vars
  <2> QED
    BY <2>1, <2>2, <2>3, <2>4, <2>5, <2>6, <2>7, <2>8, <2>9 DEF Next
<1> QED
  BY <1>1, <1>2

\* An order that is not told of yet is in the answer that is still to come.
LEMMA NextLive ==
    ASSUME IInv, SubscribedInv, [Next]_vars, NEW o \in Orders, LiveInv(o),
           exchange'[o] = "live", stage' \in {"snapshot", "ready"}
    PROVE  /\ obtained' => Told(o, "live")'
           /\ ~asked' /\ http' = "taken" => Told(o, "live")' \/ snapshot'[o] = "live"
<1>1. CASE exchange[o] # "live"
  <2>1. exchange[o] = "none" /\ exchange' # exchange
    BY <1>1, NextStable DEF Stable
  <2>2. TakeCreate /\ o \in Request.orders
    <3>1. ~TakeCancel
      BY <1>1 DEF TakeCancel
    <3>2. \A p \in Orders : ~Fill(p)
      BY <1>1 DEF Fill, IInv, TypeOK
    <3>3. ASSUME NEW p \in Orders, CreateOrder(p) \/ ModifyOrder(p) \/ CancelOrder(p)
          PROVE  FALSE
      BY <2>1, <3>3 DEF CreateOrder, ModifyOrder, CancelOrder, Submit, exchangeVars
    <3>4. ASSUME CancelAllOrders PROVE FALSE
      BY <2>1, <3>4 DEF CancelAllOrders, Submit, exchangeVars
    <3>5. ASSUME NEW p \in Orders, NEW amend \in {"done", "failed"}, Amended(p, amend)
          PROVE  FALSE
      BY <2>1, <3>5 DEF Amended
    <3>6. ASSUME TakeModify \/ Refuse \/ Forbid \/ TakeSubscribe PROVE FALSE
      BY <2>1, <3>6 DEF TakeModify, Refuse, Forbid, TakeSubscribe
    <3>7. ASSUME Receive \/ LoggedIn \/ Downloaded \/ DropCopyTimer \/ Disconnected PROVE FALSE
      BY <2>1, <3>7 DEF Receive, LoggedIn, Downloaded, DropCopyTimer, Disconnected, exchangeVars
    <3>8. ASSUME \/ GetOpenOrders \/ TakeOpenOrders \/ OpenOrdersAck \/ OpenOrdersError
                 \/ UNCHANGED vars
          PROVE  FALSE
      BY <2>1, <3>8 DEF GetOpenOrders, TakeOpenOrders, OpenOrdersAck, OpenOrdersError,
         othersUnchanged, exchangeVars, vars
    <3>9. TakeCreate
      BY <3>1, <3>2, <3>3, <3>4, <3>5, <3>6, <3>7, <3>8 DEF Next
    <3> QED
      BY <1>1, <3>9 DEF TakeCreate
  <2>3. /\ up # <<>> /\ Request.op # "subscribe" /\ {} \in SUBSET Request.orders
        /\ Reply({}, Pushes(Request.orders, "live")) /\ UNCHANGED stage
    BY <2>2 DEF TakeCreate, exchangeUnchanged
  <2>4. Request.orders \in SUBSET Orders /\ "live" \in ExchangeStates
    BY <2>3, RequestParts DEF ExchangeStates
  <2>5. subscribed
    BY <2>3 DEF SubscribedInv
  <2>6. Told(o, exchange[o])'
    BY <2>2, <2>3, <2>4, <2>5, StateTold
  <2> QED
    BY <2>6 DEF Told, Pushed
<1>2. CASE exchange[o] = "live" /\ stage \notin {"snapshot", "ready"}
  <2>1. stage' # stage
    BY <1>2
  <2>2. Receive
    <3>1. ASSUME NEW p \in Orders, CreateOrder(p) \/ ModifyOrder(p) \/ CancelOrder(p) \/ Fill(p)
          PROVE  FALSE
      BY <2>1, <3>1 DEF CreateOrder, ModifyOrder, CancelOrder, Submit, Fill, exchangeUnchanged
    <3>2. ASSUME CancelAllOrders PROVE FALSE
      BY <2>1, <3>2 DEF CancelAllOrders, Submit
    <3>3. ASSUME NEW p \in Orders, NEW amend \in {"done", "failed"}, Amended(p, amend)
          PROVE  FALSE
      BY <2>1, <3>3 DEF Amended
    <3>4. ASSUME TakeSubscribe \/ TakeCreate \/ TakeModify \/ TakeCancel \/ Refuse \/ Forbid
          PROVE  FALSE
      BY <2>1, <3>4 DEF TakeSubscribe, TakeCreate, TakeModify, TakeCancel, Refuse, Forbid,
         exchangeUnchanged
    <3>5. ASSUME LoggedIn \/ Disconnected PROVE FALSE
      BY <3>5 DEF LoggedIn, Disconnected
    <3>6. ASSUME Downloaded \/ DropCopyTimer PROVE FALSE
      BY <1>2, <3>6, NextStages DEF Downloaded, DropCopyTimer, Enter
    <3>7. ASSUME \/ GetOpenOrders \/ TakeOpenOrders \/ OpenOrdersAck \/ OpenOrdersError
                 \/ UNCHANGED vars
          PROVE  FALSE
      BY <2>1, <3>7 DEF GetOpenOrders, TakeOpenOrders, OpenOrdersAck, OpenOrdersError,
         othersUnchanged, vars
    <3> QED
      BY <3>1, <3>2, <3>3, <3>4, <3>5, <3>6, <3>7 DEF Next
  <2>3. ReceiveSubscribed
    BY <2>1, <2>2 DEF Receive, ReceiveAck, ReceivePush
  <2>4. asked' /\ ~obtained'
    BY <2>3, NextStages DEF ReceiveSubscribed, Enter
  <2> QED
    BY <2>4
<1>3. CASE exchange[o] = "live" /\ stage \in {"snapshot", "ready"}
  <2>1. ~Disconnected
    BY DEF Disconnected
  <2>2. CASE Told(o, "live")
    <3>1. Told(o, exchange[o])'
      BY <1>3, <2>1, <2>2, ToldStays
    <3>2. Told(o, "live")'
      BY <3>1 DEF Told, Pushed
    <3> QED
      BY <3>2
  <2>3. CASE ~Told(o, "live")
    <3>1. ~obtained /\ (~asked /\ http = "taken" => snapshot[o] = "live")
      BY <1>3, <2>3 DEF LiveInv
    <3>2. ASSUME UNCHANGED <<obtained, asked, http, snapshot>>
          PROVE  ~obtained' /\ (~asked' /\ http' = "taken" => snapshot'[o] = "live")
      BY <3>1, <3>2
    <3>3. ASSUME NEW p \in Orders, CreateOrder(p) \/ ModifyOrder(p) \/ CancelOrder(p) \/ Fill(p)
          PROVE  ~obtained' /\ (~asked' /\ http' = "taken" => snapshot'[o] = "live")
      BY <3>2, <3>3
      DEF CreateOrder, ModifyOrder, CancelOrder, Submit, Fill, exchangeUnchanged, downloadVars
    <3>4. CASE CancelAllOrders
      BY <3>2, <3>4 DEF CancelAllOrders, Submit, downloadVars
    <3>5. ASSUME NEW p \in Orders, NEW amend \in {"done", "failed"}, Amended(p, amend)
          PROVE  ~obtained' /\ (~asked' /\ http' = "taken" => snapshot'[o] = "live")
      BY <3>2, <3>5 DEF Amended, downloadVars
    <3>6. CASE TakeSubscribe \/ TakeCreate \/ TakeModify \/ TakeCancel \/ Refuse \/ Forbid
      BY <3>2, <3>6 DEF TakeSubscribe, TakeCreate, TakeModify, TakeCancel, Refuse, Forbid,
         exchangeUnchanged, downloadVars
    <3>7. CASE LoggedIn
      BY <1>3, <3>7 DEF LoggedIn
    <3>8. CASE Downloaded
      BY <1>3, <3>8 DEF Downloaded
    <3>9. CASE DropCopyTimer
      <4>1. /\ asked' = (asked \/ FALSE) /\ obtained' = (obtained /\ TRUE)
            /\ UNCHANGED <<http, snapshot>>
        BY <3>9, NextStages DEF DropCopyTimer, Enter
      <4> QED
        BY <3>1, <4>1
    <3>10. CASE Receive
      <4>1. ~ReceiveSubscribed
        BY <1>3 DEF ReceiveSubscribed
      <4>2. UNCHANGED <<obtained, asked, http, snapshot>>
        BY <3>10, <4>1 DEF Receive, ReceiveAck, ReceivePush, downloadVars
      <4> QED
        BY <3>2, <4>2
    <3>11. CASE GetOpenOrders
      BY <3>1, <3>11 DEF GetOpenOrders
    <3>12. CASE TakeOpenOrders
      BY <1>3, <3>1, <3>12 DEF TakeOpenOrders
    <3>13. CASE OpenOrdersAck
      <4>1. http = "taken" /\ http' = "none" /\ obtained' = (obtained \/ ~asked)
        BY <3>13 DEF OpenOrdersAck, Commit
      <4>2. ASSUME ~asked PROVE Told(o, "live")'
        <5>1. snapshot[o] = "live"
          BY <3>1, <4>1, <4>2
        <5>2. status'[o] = Updated(status[o], OrderStatus("live"))
          BY <3>13, <5>1 DEF OpenOrdersAck
        <5>3. status[o] \in {"none", "sent", "WORKING"}
          <6>1. OrderInv(o) /\ status[o] \in Statuses
            BY DEF IInv, TypeOK, Statuses
          <6> QED
            BY <1>3, <6>1 DEF OrderInv, Statuses
        <5> QED
          BY <5>2, <5>3, StatusKept DEF Told
      <4> QED
        BY <3>1, <4>1, <4>2
    <3>14. CASE OpenOrdersError
      <4>1. http' = "none" /\ obtained' = (obtained \/ FALSE)
        BY <3>14 DEF OpenOrdersError, Commit
      <4> QED
        BY <3>1, <4>1
    <3>15. CASE UNCHANGED vars
      BY <3>2, <3>15 DEF vars
    <3> QED
      BY <2>1, <3>3, <3>4, <3>5, <3>6, <3>7, <3>8, <3>9, <3>10, <3>11, <3>12, <3>13, <3>14, <3>15
      DEF Next
  <2> QED
    BY <2>2, <2>3
<1> QED
  BY <1>1, <1>2, <1>3

LEMMA NextSync == IInv /\ SyncInv /\ [Next]_vars => SyncInv'
<1> SUFFICES ASSUME IInv, SyncInv, [Next]_vars PROVE SyncInv'
  OBVIOUS
<1>1. SubscribedInv'
  BY NextSubscribed DEF SyncInv
<1>2. ASSUME NEW o \in Orders PROVE LiveInv(o)'
  BY NextLive DEF SyncInv, LiveInv
<1>3. ASSUME NEW o \in Orders PROVE HereInv(o)'
  BY NextHere DEF SyncInv, HereInv
<1> QED
  BY <1>1, <1>2, <1>3 DEF SyncInv

\* A stream that is READY, has obtained the open orders and has received everything has
\* every live order working and every order that finished on its subscription finished the
\* same way, for any orders, requests and lost connections.
THEOREM OrderManagerInSync == Spec => []InSync
<1>1. Init => SyncInv
  BY NowhereInEmpty DEF Init, SyncInv, SubscribedInv, LiveInv, HereInv
<1>2. SyncInv => InSync
  <2> SUFFICES ASSUME SyncInv, stage = "ready", obtained, Quiet, NEW o \in Orders
               PROVE  /\ exchange[o] = "live" => status[o] = "WORKING"
                      /\ o \in here => status[o] = OrderStatus(exchange[o])
    BY DEF InSync
  <2>1. \A state : Nowhere(down, Pushed(o, state))
    BY NowhereInEmpty DEF Quiet
  <2>2. LiveInv(o) /\ HereInv(o)
    BY DEF SyncInv
  <2> QED
    BY <2>1, <2>2 DEF LiveInv, HereInv, Told, OrderStatus
<1> QED
  BY Invariance, NextSync, <1>1, <1>2, PTL DEF Spec

=============================================================================

-------------------------- MODULE MessagesProofs --------------------------
(***************************************************************************)
(* What the parts of MCMessages promise, for every value of their          *)
(* constants: each of them by itself, and all of them in the composition,  *)
(* which implements the specification of every part.                       *)
(*                                                                         *)
(* The arguments.  Encoding: what is sent is Message of the order, and the *)
(* choices of compute_order_attributes are gone through one by one.        *)
(* Amendments: as long as no request was made early there is at most one   *)
(* message on its way, what the order manager holds differs from the order *)
(* at the exchange only while that is an update, and a request was filled  *)
(* in with what is still so when the exchange takes it.  Trades: Loop says *)
(* what is published and what is still collected after the first i trades  *)
(* of a message, for every i by induction.  Dispatch: every message that   *)
(* can come has a first key whose handler the stream has.  Throttle:       *)
(* suspend_until is only ever raised; a header is looked at when its value *)
(* is new, and RetryInv is why it need not be when it is not.              *)
(***************************************************************************)
EXTENDS MCMessages, TLAPS, SequenceTheorems, FiniteSetTheorems

-----------------------------------------------------------------------------
(* Encoding. *)

\* Whatever is sent follows from the order and the settings, which never change.
Encoded ==
  /\ outcome = "none" => messages = {}
  /\ outcome = "not supported" => OrdType(create_order) = "unsupported"
  /\ messages \subseteq {Message(create_order, settings)}
  /\ messages # {} => OrdType(create_order) # "unsupported"

EncodingInv == TypeOK /\ Encoded

\* The choices of compute_order_attributes, one by one.
LEMMA TimeInForceChoice ==
  ASSUME NEW create
  PROVE  /\ create.time_in_force \in {"UNDEFINED", "GTC"} =>
                ByTimeInForce(create) = ByInstructions(create)
         /\ create.time_in_force = "FOK" =>
                ByTimeInForce(create) =
                    IF ByInstructions(create) # "" THEN "fok" ELSE ByInstructions(create)
         /\ create.time_in_force = "IOC" =>
                ByTimeInForce(create) =
                    IF ByInstructions(create) = "" THEN "ioc" ELSE ByInstructions(create)
         /\ create.time_in_force \notin {"UNDEFINED", "GTC", "FOK", "IOC"} =>
                ByTimeInForce(create) = "unsupported"
<1> DEFINE type == ByInstructions(create)
           tif == create.time_in_force
<1>1. ByTimeInForce(create) =
        CASE tif \in {"UNDEFINED", "GTC"} -> type
          [] tif = "FOK" -> IF type # "" THEN "fok" ELSE type
          [] tif = "IOC" -> IF type = "" THEN "ioc" ELSE type
          [] OTHER -> "unsupported"
  BY DEF ByTimeInForce
<1> HIDE DEF type, tif
<1>2. /\ tif \in {"UNDEFINED", "GTC"} => ByTimeInForce(create) = type
      /\ tif = "FOK" => ByTimeInForce(create) = IF type # "" THEN "fok" ELSE type
      /\ tif = "IOC" => ByTimeInForce(create) = IF type = "" THEN "ioc" ELSE type
      /\ tif \notin {"UNDEFINED", "GTC", "FOK", "IOC"} => ByTimeInForce(create) = "unsupported"
  BY <1>1
<1> QED
  BY <1>2 DEF type, tif

LEMMA OrderTypeChoice ==
  ASSUME NEW create
  PROVE  /\ ByTimeInForce(create) # "" => OrdType(create) = ByTimeInForce(create)
         /\ ByTimeInForce(create) = "" /\ create.order_type = "MARKET" => OrdType(create) = "market"
         /\ ByTimeInForce(create) = "" /\ create.order_type = "LIMIT" =>
                OrdType(create) =
                    IF create.execution_destination = "RPI" THEN "rpi" ELSE "limit"
         /\ ByTimeInForce(create) = "" /\ create.order_type \notin {"MARKET", "LIMIT"} =>
                OrdType(create) = "unsupported"
<1> DEFINE type == ByTimeInForce(create)
<1>1. OrdType(create) =
        CASE type # "" -> type
          [] type = "" /\ create.order_type = "MARKET" -> "market"
          [] type = "" /\ create.order_type = "LIMIT" ->
                IF create.execution_destination = "RPI" THEN "rpi" ELSE "limit"
          [] OTHER -> "unsupported"
  BY DEF OrdType
<1> HIDE DEF type
<1>2. /\ type # "" => OrdType(create) = type
      /\ type = "" /\ create.order_type = "MARKET" => OrdType(create) = "market"
      /\ type = "" /\ create.order_type = "LIMIT" =>
            OrdType(create) = IF create.execution_destination = "RPI" THEN "rpi" ELSE "limit"
      /\ type = "" /\ create.order_type \notin {"MARKET", "LIMIT"} => OrdType(create) = "unsupported"
  BY <1>1
<1> QED
  BY <1>2 DEF type

LEMMA OrdTypeKnown ==
  ASSUME NEW create \in CreateOrders
  PROVE  OrdType(create) \in {"market", "limit", "post_only", "fok", "ioc", "rpi", "unsupported"}
<1>1. ByInstructions(create) \in {"", "post_only"}
  BY DEF ByInstructions
<1>2. ByTimeInForce(create) \in {"", "post_only", "fok", "ioc", "unsupported"}
  BY <1>1, TimeInForceChoice
<1> QED
  BY <1>2, OrderTypeChoice

LEMMA MessageTyped ==
  ASSUME NEW create \in CreateOrders, NEW s \in Settings, OrdType(create) # "unsupported"
  PROVE  Message(create, s) \in
           [ordType : {"market", "limit", "post_only", "fok", "ioc", "rpi"},
            reduceOnly : BOOLEAN,
            tdMode : {"cash", "isolated", "cross"},
            fields : SUBSET {"px", "tgtCcy", "stpMode", "ccy"}]
<1>1. OrdType(create) \in {"market", "limit", "post_only", "fok", "ioc", "rpi"}
  BY OrdTypeKnown
<1>2. TradeMode(create, s) \in {"cash", "isolated", "cross"}
  BY DEF TradeMode, Settings
<1>3. Fields(create, s) \subseteq {"px", "tgtCcy", "stpMode", "ccy"}
  <2>1. Extras(create, s) \subseteq {"stpMode", "ccy"}
    BY DEF Extras
  <2> QED
    BY <2>1 DEF Fields
<1>4. ("DO_NOT_INCREASE" \in create.execution_instructions) \in BOOLEAN
  OBVIOUS
<1> QED
  BY <1>1, <1>2, <1>3, <1>4 DEF Message

LEMMA InitEncodingInv == Init => EncodingInv
  BY DEF Init, EncodingInv, TypeOK, Encoded

LEMMA NextEncodingInv == EncodingInv /\ [Next]_vars => EncodingInv'
<1> SUFFICES ASSUME EncodingInv, [Next]_vars PROVE EncodingInv'
  OBVIOUS
<1>1. CASE BatchOrders
  <2>1. settings' = settings /\ create_order' = create_order
    BY <1>1 DEF BatchOrders
  <2>2. CASE OrdType(create_order) = "unsupported"
    <3>1. outcome' = "not supported" /\ messages' = {}
      BY <1>1, <2>2 DEF BatchOrders
    <3> QED
      BY <2>1, <2>2, <3>1 DEF EncodingInv, TypeOK, Encoded
  <2>3. CASE OrdType(create_order) # "unsupported" /\ create_order.margin_mode = "PORTFOLIO"
    <3>1. outcome' = "rejected" /\ messages' = {}
      BY <1>1, <2>3 DEF BatchOrders
    <3> QED
      BY <2>1, <3>1 DEF EncodingInv, TypeOK, Encoded
  <2>4. CASE OrdType(create_order) # "unsupported" /\ create_order.margin_mode # "PORTFOLIO"
    <3>1. outcome' = "sent" /\ messages' = {Message(create_order, settings)}
      BY <1>1, <2>4 DEF BatchOrders
    <3>2. create_order \in CreateOrders /\ settings \in Settings
      BY DEF EncodingInv, TypeOK
    <3>3. TypeOK'
      BY <2>1, <2>4, <3>1, <3>2, MessageTyped DEF TypeOK
    <3>4. Encoded'
      BY <2>1, <2>4, <3>1 DEF Encoded
    <3> QED
      BY <3>3, <3>4 DEF EncodingInv
  <2> QED
    BY <2>2, <2>3, <2>4
<1>2. CASE UNCHANGED vars
  BY <1>2 DEF vars, EncodingInv, TypeOK, Encoded
<1> QED
  BY <1>1, <1>2 DEF Next

LEMMA SameTruth ==
  ASSUME NEW e, NEW S, NEW truth \in BOOLEAN, e \in S <=> truth
  PROVE  (e \in S) = truth
  BY SMT

LEMMA EncodedAsDocumented == EncodingInv => Documented
<1> SUFFICES ASSUME EncodingInv, NEW row \in Table, row[2] # "FOK",
                    create_order.order_type = row[1],
                    create_order.time_in_force = row[2],
                    create_order.execution_instructions = row[3],
                    create_order.execution_destination = ""
             PROVE  /\ outcome # "not supported"
                    /\ \A m \in messages : <<m.ordType, m.reduceOnly>> = <<row[4], row[5]>>
  BY DEF Documented, Follows
<1> DEFINE DNI == "DO_NOT_INCREASE" \in create_order.execution_instructions
<1>1. OrdType(create_order) = row[4] /\ row[4] # "unsupported" /\ row[5] \in BOOLEAN /\ (DNI <=> row[5])
  <2> DEFINE Row(t, tif, i, o, r) == row = <<t, tif, i, o, r>>
  <2>1. \/ Row("MARKET", "UNDEFINED", {}, "market", FALSE)
        \/ Row("LIMIT", "GTC", {}, "limit", FALSE)
        \/ Row("LIMIT", "GTC", {"DO_NOT_INCREASE"}, "limit", TRUE)
        \/ Row("LIMIT", "GTC", {"PARTICIPATE_DO_NOT_INITIATE"}, "post_only", FALSE)
        \/ Row("LIMIT", "IOC", {}, "ioc", FALSE)
    <3>1. row = <<"LIMIT", "FOK", {}, "fok", FALSE>> => row[2] = "FOK"
      <4>1. <<"LIMIT", "FOK", {}, "fok", FALSE>>[2] = "FOK"
        OBVIOUS
      <4> QED
        BY <4>1, Zenon
    <3> QED
      BY <3>1, Zenon DEF Table
  <2>2. CASE Row("MARKET", "UNDEFINED", {}, "market", FALSE)
    BY <2>2, TimeInForceChoice, OrderTypeChoice DEF ByInstructions
  <2>3. CASE Row("LIMIT", "GTC", {}, "limit", FALSE)
    BY <2>3, TimeInForceChoice, OrderTypeChoice DEF ByInstructions
  <2>4. CASE Row("LIMIT", "GTC", {"DO_NOT_INCREASE"}, "limit", TRUE)
    BY <2>4, TimeInForceChoice, OrderTypeChoice DEF ByInstructions
  <2>5. CASE Row("LIMIT", "GTC", {"PARTICIPATE_DO_NOT_INITIATE"}, "post_only", FALSE)
    <3>1. /\ create_order.time_in_force = "GTC"
          /\ create_order.execution_instructions = {"PARTICIPATE_DO_NOT_INITIATE"}
          /\ row[4] = "post_only" /\ row[5] = FALSE
      BY <2>5
    <3>2. ByTimeInForce(create_order) = "post_only"
      BY <3>1, TimeInForceChoice DEF ByInstructions
    <3>3. OrdType(create_order) = "post_only"
      BY <3>2, OrderTypeChoice
    <3> QED
      BY <3>1, <3>3
  <2>6. CASE Row("LIMIT", "IOC", {}, "ioc", FALSE)
    BY <2>6, TimeInForceChoice, OrderTypeChoice DEF ByInstructions
  <2> QED
    BY <2>1, <2>2, <2>3, <2>4, <2>5, <2>6
<1>2. outcome # "not supported"
  BY <1>1 DEF EncodingInv, Encoded
<1>3. ASSUME NEW m \in messages PROVE m.ordType = row[4] /\ m.reduceOnly = row[5]
  <2>1. m = Message(create_order, settings)
    BY DEF EncodingInv, Encoded
  <2>2. m.ordType = OrdType(create_order) /\ m.reduceOnly = DNI
    BY <2>1, Zenon DEF Message
  <2>3. DNI = row[5]
    <3>1. row[5] \in BOOLEAN /\ (DNI <=> row[5])
      BY <1>1
    <3> QED
      BY <3>1, SameTruth, Zenon
  <2> QED
    BY <1>1, <2>2, <2>3
<1> QED
  BY <1>2, <1>3

LEMMA EncodedPassive == EncodingInv => KeepsPassive
<1> SUFFICES ASSUME EncodingInv,
                    "PARTICIPATE_DO_NOT_INITIATE" \in create_order.execution_instructions,
                    create_order.time_in_force # "FOK",
                    NEW m \in messages
             PROVE  m.ordType = "post_only"
  BY DEF KeepsPassive
<1>1. ByInstructions(create_order) = "post_only"
  BY DEF ByInstructions
<1>2. m = Message(create_order, settings) /\ OrdType(create_order) # "unsupported"
  BY DEF EncodingInv, Encoded
<1>3. m.ordType = OrdType(create_order)
  BY <1>2, Zenon DEF Message
<1>4. ByTimeInForce(create_order) \in {"post_only", "unsupported"}
  BY <1>1, TimeInForceChoice
<1>5. OrdType(create_order) = ByTimeInForce(create_order)
  BY <1>4, OrderTypeChoice
<1> QED
  BY <1>2, <1>3, <1>4, <1>5

\* The type invariant: what is sent has a type the exchange knows, and a trade mode.
THEOREM EncodingTypeCorrect == Spec => []TypeOK
<1>1. EncodingInv => TypeOK
  BY DEF EncodingInv
<1> QED
  BY InitEncodingInv, NextEncodingInv, <1>1, PTL DEF Spec

\* Every order of the documented table, but for fill-or-kill, is sent as the table says.
THEOREM SentAsDocumented == Spec => []Documented
<1>1. EncodingInv => Documented
  BY EncodedAsDocumented
<1> QED
  BY InitEncodingInv, NextEncodingInv, <1>1, PTL DEF Spec

\* No attribute of an order other than fill-or-kill makes a passive one aggressive.
THEOREM PassiveStaysPassive == Spec => []KeepsPassive
<1>1. EncodingInv => KeepsPassive
  BY EncodedPassive
<1> QED
  BY InitEncodingInv, NextEncodingInv, <1>1, PTL DEF Spec

-----------------------------------------------------------------------------
(* Amendments. *)

Requests == [modify : [Amendable -> Nat \union {NaN}], values : [Amendable -> Nat]]

\* Of a request and an update only one is on its way, and none between two sessions.
OneMessage ==
    /\ Len(requested) + Len(updates) <= 1
    /\ ~ready => requested = <<>> /\ updates = <<>>

\* The order manager holds the order of the exchange, or will when the update comes.
UpToDate ==
    /\ updates = <<>> /\ ready => order = working
    /\ updates # <<>> => updates[1] = working

\* A request has what the client asked for, and for the rest what the exchange has.
FilledIn ==
    requested # <<>> =>
        requested[1].values =
            [f \in Amendable |->
                IF requested[1].modify[f] = NaN THEN working[f] ELSE requested[1].modify[f]]

AmendInv ==
    /\ AmendTypeOK
    /\ ~overlapped => OneMessage /\ UpToDate /\ FilledIn /\ OnlyWhatIsAsked

LEMMA OneOfTwo ==
    ASSUME NEW m \in Nat, NEW n \in Nat, m # 0, m + n <= 1
    PROVE  m = 1 /\ n = 0
  OBVIOUS

LEMMA InitAmendInv == AmendInit => AmendInv
<1> SUFFICES ASSUME AmendInit PROVE AmendInv
  OBVIOUS
<1>1. AmendTypeOK
  <2>1. MaxAmendments \in Nat /\ MaxLost \in Nat
    BY AmendmentsAssumption
  <2>2. requested \in Seq(Requests) /\ updates \in Seq([Amendable -> Nat])
    BY DEF AmendInit
  <2>3. ready \in BOOLEAN /\ overlapped \in BOOLEAN
    BY Zenon DEF AmendInit
  <2>4. /\ order \in [Amendable -> Nat]
        /\ working \in [Amendable -> Nat]
        /\ intended \in [Amendable -> Nat]
    BY DEF AmendInit
  <2>5. chosen \in 0 .. MaxAmendments /\ losses \in 0 .. MaxLost
    BY <2>1 DEF AmendInit
  <2> QED
    BY <2>2, <2>3, <2>4, <2>5, Zenon DEF AmendTypeOK, Requests
<1>2. OneMessage /\ UpToDate /\ FilledIn /\ OnlyWhatIsAsked
  BY DEF AmendInit, OneMessage, UpToDate, FilledIn, OnlyWhatIsAsked
<1> QED
  BY <1>1, <1>2 DEF AmendInv

LEMMA NextAmendTypeOK == AmendTypeOK /\ [AmendNext]_amendVars => AmendTypeOK'
<1> SUFFICES ASSUME AmendTypeOK, [AmendNext]_amendVars PROVE AmendTypeOK'
  OBVIOUS
<1> USE AmendmentsAssumption DEF AmendTypeOK, Requests
<1>1. ASSUME NEW fields \in SUBSET Amendable, RequestAmend(fields) PROVE AmendTypeOK'
  <2> DEFINE modify == [f \in Amendable |-> IF f \in fields THEN chosen + 1 ELSE NaN]
  <2>1. modify \in [Amendable -> Nat \union {NaN}]
    OBVIOUS
  <2>2. NewValues(modify) \in [Amendable -> Nat]
    BY <2>1 DEF NewValues
  <2>3. requested' = Append(requested, [modify |-> modify, values |-> NewValues(modify)])
    BY <1>1 DEF RequestAmend
  <2>4. requested' \in Seq(Requests)
    BY <2>1, <2>2, <2>3
  <2> QED
    BY <1>1, <2>4 DEF RequestAmend
<1>2. CASE Amend
  <2>1. Head(requested) \in Requests /\ Tail(requested) \in Seq(Requests)
    BY <1>2, HeadTailProperties DEF Amend
  <2>2. working' \in [Amendable -> Nat]
    BY <1>2, <2>1 DEF Amend
  <2>3. intended' \in [Amendable -> Nat]
    BY <1>2, <2>1 DEF Amend
  <2> QED
    BY <1>2, <2>2, <2>3 DEF Amend
<1>3. CASE RefuseAmend
  <2>1. Tail(requested) \in Seq(Requests)
    BY <1>3, HeadTailProperties DEF RefuseAmend
  <2> QED
    BY <1>3, <2>1 DEF RefuseAmend
<1>4. CASE OrdersUpdate
  <2>1. Head(updates) \in [Amendable -> Nat] /\ Tail(updates) \in Seq([Amendable -> Nat])
    BY <1>4, HeadTailProperties DEF OrdersUpdate
  <2> QED
    BY <1>4, <2>1 DEF OrdersUpdate
<1>5. CASE ConnectionLost
  <2>1. requested' \in Seq(Requests) /\ updates' \in Seq([Amendable -> Nat])
    BY <1>5, EmptySeq DEF ConnectionLost
  <2>2. losses' \in 0 .. MaxLost
    BY <1>5 DEF ConnectionLost
  <2>3. ready' \in BOOLEAN
    BY <1>5, Zenon DEF ConnectionLost
  <2> QED
    BY <1>5, <2>1, <2>2, <2>3, Zenon DEF ConnectionLost
<1>6. CASE OpenOrders
  BY <1>6 DEF OpenOrders
<1>7. CASE UNCHANGED amendVars
  BY <1>7 DEF amendVars
<1> QED
  BY <1>1, <1>2, <1>3, <1>4, <1>5, <1>6, <1>7 DEF AmendNext

LEMMA NextAmendInv == AmendInv /\ [AmendNext]_amendVars => AmendInv'
<1> SUFFICES ASSUME AmendInv, [AmendNext]_amendVars PROVE AmendInv'
  OBVIOUS
<1>0. AmendTypeOK /\ AmendTypeOK'
  BY NextAmendTypeOK DEF AmendInv
<1> SUFFICES ASSUME ~overlapped'
             PROVE (OneMessage /\ UpToDate /\ FilledIn /\ OnlyWhatIsAsked)'
  BY <1>0 DEF AmendInv
<1>1. ~overlapped
  BY <1>0 DEF AmendNext, amendVars, RequestAmend, Amend, RefuseAmend, OrdersUpdate,
              ConnectionLost, OpenOrders
<1>2. OneMessage /\ UpToDate /\ FilledIn /\ OnlyWhatIsAsked
  BY <1>1 DEF AmendInv
<1>3. working = intended
  BY <1>1, <1>2 DEF OnlyWhatIsAsked
<1> USE <1>0, <1>1, <1>2, <1>3 DEF AmendTypeOK, OneMessage, UpToDate, OnlyWhatIsAsked
<1>4. ASSUME NEW fields \in SUBSET Amendable, RequestAmend(fields)
      PROVE (OneMessage /\ UpToDate /\ FilledIn /\ OnlyWhatIsAsked)'
  <2> DEFINE modify == [f \in Amendable |-> IF f \in fields THEN chosen + 1 ELSE NaN]
  <2>1. requested = <<>> /\ updates = <<>> /\ order = working
    BY <1>4 DEF RequestAmend
  <2>2. requested' = <<[modify |-> modify, values |-> NewValues(modify)]>>
    BY <1>4, <2>1 DEF RequestAmend
  <2>3. FilledIn'
    <3>1. requested'[1].modify = modify /\ requested'[1].values = NewValues(modify)
      BY <2>2
    <3>2. NewValues(modify) = [f \in Amendable |-> IF modify[f] = NaN THEN working[f] ELSE modify[f]]
      BY <2>1 DEF NewValues
    <3>3. working' = working
      BY <1>4 DEF RequestAmend
    <3> QED
      BY <3>1, <3>2, <3>3 DEF FilledIn
  <2> QED
    BY <1>4, <2>1, <2>2, <2>3 DEF RequestAmend
<1>5. CASE Amend
  <2>0. requested # <<>>
    BY <1>5 DEF Amend
  <2>1. Len(requested) = 1 /\ updates = <<>>
    <3>1. Len(requested) \in Nat /\ Len(requested) # 0
      BY <2>0, EmptySeq
    <3>2. Len(updates) \in Nat /\ (Len(updates) = 0 => updates = <<>>)
      BY EmptySeq
    <3>3. Len(requested) + Len(updates) <= 1
      BY <1>2 DEF OneMessage
    <3>4. Len(requested) = 1 /\ Len(updates) = 0
      BY <3>1, <3>2, <3>3, OneOfTwo
    <3> QED
      BY <3>2, <3>4
  <2>2. Head(requested) = requested[1] /\ Len(Tail(requested)) = 0
    BY <1>5, <2>1, HeadTailProperties DEF Amend
  <2>3. requested' = <<>>
    BY <1>5, <2>2, EmptySeq, HeadTailProperties DEF Amend
  <2>4. updates' = <<working'>>
    BY <1>5, <2>1 DEF Amend
  <2>5. working' = intended'
    BY <1>5, <2>2 DEF Amend, FilledIn
  <2>6. OneMessage'
    BY <1>5, <2>3, <2>4, EmptySeq DEF Amend
  <2>7. UpToDate' /\ FilledIn'
    BY <1>5, <2>3, <2>4 DEF Amend, FilledIn
  <2> QED
    BY <2>5, <2>6, <2>7
<1>6. CASE RefuseAmend
  <2>1. requested' = <<>>
    BY <1>6 DEF RefuseAmend
  <2> QED
    BY <1>6, <2>1 DEF RefuseAmend, FilledIn
<1>7. CASE OrdersUpdate
  <2>1. updates' = <<>> /\ order' = working
    BY <1>7 DEF OrdersUpdate
  <2> QED
    BY <1>7, <2>1 DEF OrdersUpdate, FilledIn
<1>8. CASE ConnectionLost
  BY <1>8 DEF ConnectionLost, FilledIn
<1>9. CASE OpenOrders
  BY <1>9 DEF OpenOrders, FilledIn
<1>10. CASE UNCHANGED amendVars
  BY <1>10 DEF amendVars, FilledIn
<1> QED
  BY <1>4, <1>5, <1>6, <1>7, <1>8, <1>9, <1>10 DEF AmendNext

\* The type invariant: the exchange is always asked for numbers.
THEOREM AmendTypeCorrect == AmendSpec => []AmendTypeOK
<1>1. AmendInit => AmendTypeOK
  BY InitAmendInv DEF AmendInv
<1> QED
  BY <1>1, NextAmendTypeOK, PTL DEF AmendSpec

\* A request changes what the client asked for and nothing else, unless one was made
\* before the update of the one before it.
THEOREM ChangesOnlyWhatIsAsked == AmendSpec => []OnlyWhatIsAsked
<1>1. AmendInv => OnlyWhatIsAsked
  BY DEF AmendInv, OnlyWhatIsAsked
<1> QED
  BY InitAmendInv, NextAmendInv, <1>1, PTL DEF AmendSpec

-----------------------------------------------------------------------------
(* Trades: induction, and what recursive functions compute. *)

LEMMA Least == ASSUME NEW T, T \subseteq Nat, T # {} PROVE \E x \in T : \A y \in T : x <= y
<1> DEFINE Below == {0 .. x : x \in T}
<1>1. Below \subseteq FiniteSubsetsOf(Nat)
  <2> SUFFICES ASSUME NEW x \in T PROVE 0 .. x \in FiniteSubsetsOf(Nat)
    BY Zenon
  <2>1. IsFiniteSet(0 .. x) BY FS_Interval
  <2>2. 0 .. x \in SUBSET Nat OBVIOUS
  <2> QED BY <2>1, <2>2 DEF FiniteSubsetsOf
<1>2. Below # {} OBVIOUS
<1> HIDE DEF Below
<1>3. PICK b \in Below : \A c \in Below : <<c, b>> \notin StrictSubsetOrdering(Nat)
  BY <1>1, <1>2, WFMin, FS_StrictSubsetOrderingWellFounded
<1>4. PICK x \in T : b = 0 .. x
  BY DEF Below
<1>5. ASSUME NEW y \in T, y < x PROVE FALSE
  <2>1. 0 .. y \in SUBSET Nat /\ 0 .. x \in SUBSET Nat OBVIOUS
  <2>2. 0 .. y \subseteq 0 .. x BY <1>5
  <2>3. 0 .. y # 0 .. x 
    <3>1. x \in 0 .. x /\ x \notin 0 .. y BY <1>5
    <3> QED BY <3>1
  <2>4. 0 .. y \in Below BY DEF Below
  <2>5. <<0 .. y, b>> \in StrictSubsetOrdering(Nat)
    BY <2>1, <2>2, <2>3, <1>4, Zenon DEF StrictSubsetOrdering
  <2> QED BY <2>4, <2>5, <1>3
<1> QED BY <1>5

LEMMA FlattenRun ==
  ASSUME NEW ss, Len(ss) \in Nat, Len(ss) # 0
  PROVE  \E f : /\ FlattenSeq(ss) = f[Len(ss)]
                /\ f[1] = ss[1]
                /\ \A i \in 2 .. Len(ss) : f[i] = f[i - 1] \o ss[i]
<1> DEFINE n == Len(ss)
           IsRun(g, m) == g = [i \in 1 .. m |-> IF i = 1 THEN ss[i] ELSE g[i - 1] \o ss[i]]
           T == {m \in Nat : m # 0 /\ ~ \E g : IsRun(g, m)}
<1>1. \A m \in Nat \ {0} : \E g : IsRun(g, m)
  <2> SUFFICES ASSUME T # {} PROVE FALSE
    OBVIOUS
  <2>1. PICK m \in T : \A y \in T : m <= y
    BY Least
  <2>2. m # 1
    <3> DEFINE g == [i \in 1 .. 1 |-> ss[i]]
    <3>1. IsRun(g, 1)
      OBVIOUS
    <3> QED BY <2>1, <3>1
  <2>3. PICK g : IsRun(g, m - 1)
    <3>1. m \in Nat /\ m # 0
      BY <2>1
    <3> HIDE DEF T
    <3>2. m - 1 \notin T
      BY <2>1, <3>1
    <3>3. m - 1 \in Nat /\ m - 1 # 0
      BY <3>1, <2>2
    <3> QED BY <3>2, <3>3 DEF T
  <2> DEFINE h == [i \in 1 .. m |-> IF i = m THEN g[m - 1] \o ss[m] ELSE g[i]]
  <2>4. IsRun(h, m)
    <3>1. ASSUME NEW i \in 1 .. m PROVE h[i] = IF i = 1 THEN ss[i] ELSE h[i - 1] \o ss[i]
      <4>1. CASE i = m
        <5>1. i - 1 \in 1 .. m /\ i - 1 # m /\ i # 1
          BY <4>1, <2>2, <2>1
        <5>2. h[i - 1] = g[i - 1] /\ h[i] = g[m - 1] \o ss[m]
          BY <4>1, <5>1
        <5> QED BY <4>1, <5>1, <5>2
      <4>2. CASE i # m
        <5>1. i \in 1 .. m - 1 /\ m - 1 \in Nat
          BY <4>2, <2>1
        <5>2. g[i] = IF i = 1 THEN ss[i] ELSE g[i - 1] \o ss[i]
          BY <2>3, <5>1
        <5>3. h[i] = g[i]
          BY <4>2
        <5>4. i # 1 => h[i - 1] = g[i - 1]
          BY <5>1
        <5> QED BY <5>2, <5>3, <5>4
      <4> QED BY <4>1, <4>2
    <3> QED BY <3>1
  <2> QED BY <2>1, <2>4
<1> DEFINE flatten == CHOOSE g : IsRun(g, n)
<1>2. IsRun(flatten, n)
  BY <1>1
<1>3. FlattenSeq(ss) = flatten[n]
  BY DEF FlattenSeq
<1> HIDE DEF flatten
<1>4. flatten[1] = ss[1]
  <2>1. 1 \in 1 .. n OBVIOUS
  <2> QED BY <1>2, <2>1
<1>5. ASSUME NEW i \in 2 .. n PROVE flatten[i] = flatten[i - 1] \o ss[i]
  <2>1. i \in 1 .. n /\ i # 1 OBVIOUS
  <2> QED BY <1>2, <2>1
<1> QED BY <1>3, <1>4, <1>5

LEMMA FlattenAppend ==
  ASSUME NEW S, NEW ss \in Seq(Seq(S)), NEW t \in Seq(S)
  PROVE  FlattenSeq(Append(ss, t)) = FlattenSeq(ss) \o t
<1> DEFINE n == Len(ss)
           st == Append(ss, t)
<1>0. n \in Nat
  BY LenProperties
<1>1. Len(st) = n + 1 /\ st[n + 1] = t /\ \A i \in 1 .. n : st[i] = ss[i]
  BY AppendProperties
<1> HIDE DEF st
<1>2. CASE n = 0
  <2>1. ss = <<>>
    BY <1>2
  <2>2. FlattenSeq(ss) = <<>>
    BY <2>1 DEF FlattenSeq
  <2>3. FlattenSeq(st) = st[1]
    <3>1. Len(st) = 1 /\ Len(st) \in Nat /\ Len(st) # 0
      BY <1>0, <1>1, <1>2
    <3> QED BY <3>1, FlattenRun
  <2>4. <<>> \o t = t
    BY ConcatEmptySeq
  <2> QED BY <1>1, <1>2, <2>2, <2>3, <2>4 DEF st
<1>3. CASE n # 0
  <2>1. PICK f : /\ FlattenSeq(ss) = f[n]
                 /\ f[1] = ss[1]
                 /\ \A i \in 2 .. n : f[i] = f[i - 1] \o ss[i]
    BY <1>0, <1>3, FlattenRun
  <2>2. PICK g : /\ FlattenSeq(st) = g[n + 1]
                 /\ g[1] = st[1]
                 /\ \A i \in 2 .. n + 1 : g[i] = g[i - 1] \o st[i]
    <3>1. Len(st) \in Nat /\ Len(st) # 0 
      BY <1>0, <1>1
    <3> HIDE DEF n
    <3>2. \E g : /\ FlattenSeq(st) = g[Len(st)]
                /\ g[1] = st[1]
                /\ \A i \in 2 .. Len(st) : g[i] = g[i - 1] \o st[i]
      BY <3>1, FlattenRun
    <3> QED BY <1>1, <3>2
  <2> DEFINE T == {i \in 1 .. n : f[i] # g[i]}
  <2>3. T = {}
    <3> SUFFICES ASSUME T # {} PROVE FALSE
      OBVIOUS
    <3>1. PICK m \in T : \A y \in T : m <= y
      <4>1. T \subseteq Nat
        BY <1>0
      <4> QED BY <4>1, Least
    <3>2. m # 1
      BY <2>1, <2>2, <1>1
    <3>3. m - 1 \in 1 .. n /\ m - 1 \notin T
      BY <3>1, <3>2, <1>0
    <3>4. m \in 2 .. n /\ m \in 2 .. n + 1
      BY <3>2, <1>0
    <3>5. f[m] = f[m - 1] \o ss[m] /\ g[m] = g[m - 1] \o st[m] /\ st[m] = ss[m]
      BY <2>1, <2>2, <3>4, <1>1
    <3> QED BY <3>3, <3>5
  <2>4. f[n] = g[n] 
    BY <2>3, <1>0, <1>3
  <2>5. g[n + 1] = g[n] \o st[n + 1]
    <3>1. n + 1 \in 2 .. n + 1 /\ (n + 1) - 1 = n
      BY <1>0, <1>3
    <3> QED BY <2>2, <3>1
  <2> QED BY <2>1, <2>2, <2>4, <2>5, <1>1 DEF st
<1> QED BY <1>2, <1>3

LEMMA CollectedRun ==
  ASSUME NEW data, Len(data) \in Nat
  PROVE  \E after : /\ Collected(<<>>, data) = after[Len(data)]
                    /\ after[0] = Start(<<>>)
                    /\ \A i \in 1 .. Len(data) : after[i] = Collect(after[i - 1], data[i], i)
<1> DEFINE n == Len(data)
           IsRun(g, m) ==
             g = [i \in 0 .. m |-> IF i = 0 THEN Start(<<>>) ELSE Collect(g[i - 1], data[i], i)]
           T == {m \in Nat : ~ \E g : IsRun(g, m)}
<1>1. \A m \in Nat : \E g : IsRun(g, m)
  <2> SUFFICES ASSUME T # {} PROVE FALSE
    OBVIOUS
  <2>1. PICK m \in T : \A y \in T : m <= y
    BY Least
  <2>2. m # 0
    <3> DEFINE g == [i \in 0 .. 0 |-> Start(<<>>)]
    <3>1. IsRun(g, 0)
      OBVIOUS
    <3> QED
      BY <2>1, <3>1
  <2>3. PICK g : IsRun(g, m - 1)
    <3>1. m \in Nat
      BY <2>1
    <3> HIDE DEF T
    <3>2. m - 1 \notin T
      BY <2>1, <3>1
    <3>3. m - 1 \in Nat
      BY <3>1, <2>2
    <3> QED
      BY <3>2, <3>3 DEF T
  <2> DEFINE h == [i \in 0 .. m |-> IF i = m THEN Collect(g[m - 1], data[m], m) ELSE g[i]]
  <2>4. IsRun(h, m)
    <3>1. ASSUME NEW i \in 0 .. m
          PROVE  h[i] = IF i = 0 THEN Start(<<>>) ELSE Collect(h[i - 1], data[i], i)
      <4>1. CASE i = m
        <5>1. i - 1 \in 0 .. m /\ i - 1 # m /\ i # 0
          BY <4>1, <2>2, <2>1
        <5>2. h[i - 1] = g[m - 1] /\ h[i] = Collect(g[m - 1], data[m], m)
          BY <4>1, <5>1
        <5> QED
          BY <4>1, <5>1, <5>2
      <4>2. CASE i # m
        <5>1. i \in 0 .. m - 1 /\ m - 1 \in Nat
          BY <4>2, <2>1
        <5>2. g[i] = IF i = 0 THEN Start(<<>>) ELSE Collect(g[i - 1], data[i], i)
          BY <2>3, <5>1
        <5>3. h[i] = g[i]
          BY <4>2
        <5>4. i # 0 => h[i - 1] = g[i - 1]
          BY <5>1
        <5> QED
          BY <5>2, <5>3, <5>4
      <4> QED
        BY <4>1, <4>2
    <3> QED
      BY <3>1
  <2> QED
    BY <2>1, <2>4
<1> DEFINE after == CHOOSE g : IsRun(g, n)
<1>2. IsRun(after, n)
  BY <1>1
<1>3. Collected(<<>>, data) = after[n]
  BY DEF Collected
<1> HIDE DEF after
<1>4. after[0] = Start(<<>>)
  <2>1. 0 \in 0 .. n
    OBVIOUS
  <2> QED
    BY <1>2, <2>1
<1>5. ASSUME NEW i \in 1 .. n PROVE after[i] = Collect(after[i - 1], data[i], i)
  <2>1. i \in 0 .. n /\ i # 0
    OBVIOUS
  <2> QED
    BY <1>2, <2>1
<1> QED
  BY <1>3, <1>4, <1>5

\* What is published before the end of a message of n trades.
Published(n) ==
  [symbol : TradeSymbols, trades : Seq(1 .. n), exchange_time_utc : 1 .. MaxStamp,
   exchange_sequence : 1 .. MaxStamp, is_last : {FALSE}]

\* What is kept between two of its trades.
Held(n) ==
  [symbol : TradeSymbols \union {""}, trades : Seq(1 .. n), time : 0 .. MaxStamp,
   sequence : 0 .. MaxStamp, published : Seq(Published(n))]

\* The positions of the trades of some summaries, one after the other.
Flat(some) == FlattenSeq([i \in DOMAIN some |-> some[i].trades])

LEMMA FlatAppend ==
  ASSUME NEW n \in Nat, NEW some, Len(some) \in Nat, DOMAIN some = 1 .. Len(some),
         \A i \in DOMAIN some : some[i].trades \in Seq(1 .. n),
         NEW all, Len(all) = Len(some) + 1, DOMAIN all = 1 .. Len(some) + 1,
         \A i \in DOMAIN some : all[i] = some[i],
         all[Len(some) + 1].trades \in Seq(1 .. n)
  PROVE  Flat(all) = Flat(some) \o all[Len(some) + 1].trades
<1> DEFINE ss == [i \in DOMAIN some |-> some[i].trades]
           t == all[Len(some) + 1].trades
           st == [i \in DOMAIN all |-> all[i].trades]
<1>1. ss \in Seq(Seq(1 .. n)) /\ Len(ss) = Len(some)
  OBVIOUS
<1>2. st \in Seq(Seq(1 .. n)) /\ Len(st) = Len(some) + 1
  OBVIOUS
<1>3. \A i \in 1 .. Len(some) : st[i] = ss[i]
  <2>1. ASSUME NEW i \in 1 .. Len(some) PROVE st[i] = ss[i]
    <3>1. i \in DOMAIN some /\ i \in DOMAIN all
      OBVIOUS
    <3>2. st[i] = all[i].trades /\ ss[i] = some[i].trades /\ all[i] = some[i]
      BY <3>1
    <3> QED
      BY <3>2
  <2> QED
    BY <2>1
<1>4. st[Len(some) + 1] = t
  OBVIOUS
<1>5. Flat(some) = FlattenSeq(ss) /\ Flat(all) = FlattenSeq(st)
  BY DEF Flat
<1>6. t \in Seq(1 .. n)
  OBVIOUS
<1> HIDE DEF ss, st, t
<1>7. /\ Append(ss, t) \in Seq(Seq(1 .. n))
      /\ Len(Append(ss, t)) = Len(some) + 1
      /\ \A i \in 1 .. Len(some) : Append(ss, t)[i] = ss[i]
      /\ Append(ss, t)[Len(some) + 1] = t
  BY <1>1, <1>6, AppendProperties
<1>8. st = Append(ss, t)
  <2>1. \A i \in 1 .. Len(st) : st[i] = Append(ss, t)[i]
    BY <1>2, <1>3, <1>4, <1>7
  <2> QED
    BY <1>2, <1>7, <2>1, SeqEqual
<1>9. FlattenSeq(Append(ss, t)) = FlattenSeq(ss) \o t
  BY <1>1, <1>6, FlattenAppend
<1> QED
  BY <1>5, <1>8, <1>9 DEF t

LEMMA MaxStampIsNat == MaxStamp \in Nat \ {0}
  BY StampAssumption

LEMMA HeldTimes ==
  ASSUME NEW n, NEW h \in Held(n)
  PROVE  h.time \in Nat /\ h.time <= MaxStamp /\ h.sequence \in Nat /\ h.sequence <= MaxStamp
<1>1. h.time \in 0 .. MaxStamp /\ h.sequence \in 0 .. MaxStamp
  BY DEF Held
<1> QED
  BY <1>1, MaxStampIsNat

LEMMA TradeTimes ==
  ASSUME NEW trade \in Trade
  PROVE  /\ trade.ts \in Nat \ {0} /\ trade.ts <= MaxStamp
         /\ trade.seq_id \in Nat \ {0} /\ trade.seq_id <= MaxStamp
<1>1. trade.ts \in 1 .. MaxStamp /\ trade.seq_id \in 1 .. MaxStamp
  BY DEF Trade
<1> QED
  BY <1>1, MaxStampIsNat

LEMMA ConcatAppend ==
  ASSUME NEW S, NEW s \in Seq(S), NEW t \in Seq(S), NEW e \in S
  PROVE  s \o Append(t, e) = Append(s \o t, e)
<1>1. /\ Append(t, e) = t \o <<e>> /\ <<e>> \in Seq(S) /\ s \o t \in Seq(S)
      /\ Append(s \o t, e) = (s \o t) \o <<e>>
  BY AppendIsConcat, ConcatProperties
<1> QED
  BY <1>1, ConcatAssociative

LEMMA FlatAppended ==
  ASSUME NEW n \in Nat, NEW some \in Seq(Published(n)), NEW summary \in Published(n)
  PROVE  Flat(Append(some, summary)) = Flat(some) \o summary.trades
<1> DEFINE all == Append(some, summary)
<1>1. Len(some) \in Nat /\ DOMAIN some = 1 .. Len(some)
  BY LenProperties
<1>2. /\ Len(all) = Len(some) + 1 /\ DOMAIN all = 1 .. Len(some) + 1
      /\ \A i \in DOMAIN some : all[i] = some[i]
      /\ all[Len(some) + 1] = summary
  BY <1>1, AppendProperties
<1>3. \A i \in DOMAIN some : some[i].trades \in Seq(1 .. n)
  <2> SUFFICES ASSUME NEW i \in DOMAIN some PROVE some[i].trades \in Seq(1 .. n)
    OBVIOUS
  <2>1. some[i] \in Published(n)
    BY <1>1, ElementOfSeq
  <2> QED
    BY <2>1 DEF Published
<1>4. summary.trades \in Seq(1 .. n)
  BY DEF Published
<1> HIDE DEF all
<1> QED
  BY <1>1, <1>2, <1>3, <1>4, FlatAppend DEF all

\* A trade of another symbol than what was collected publishes that, any other one is
\* collected with it.
LEMMA CollectMore ==
  ASSUME NEW h, NEW trade, NEW i, NEW n \in Nat, h \in Held(n), trade \in Trade, i \in 1 .. n,
         ~(trade.inst_id # h.symbol /\ h.trades # <<>>)
  PROVE  /\ Collect(h, trade, i) \in Held(n)
         /\ Collect(h, trade, i).symbol = trade.inst_id
         /\ Collect(h, trade, i).trades = Append(h.trades, i)
         /\ Collect(h, trade, i).time = Highest(h.time, trade.ts)
         /\ Collect(h, trade, i).sequence = Highest(h.sequence, trade.seq_id)
         /\ Collect(h, trade, i).published = h.published
<1> DEFINE named == [h EXCEPT !.symbol = trade.inst_id]
<1>1. named \in Held(n) /\ named.symbol = trade.inst_id
  BY DEF Held, Trade
<1>2. Collect(h, trade, i) =
        [named EXCEPT !.time = Highest(@, trade.ts), !.sequence = Highest(@, trade.seq_id),
                      !.trades = Append(@, i)]
  BY <1>1 DEF Collect
<1>3. /\ Highest(h.time, trade.ts) \in 0 .. MaxStamp
      /\ Highest(h.sequence, trade.seq_id) \in 0 .. MaxStamp
  BY MaxStampIsNat, HeldTimes, TradeTimes DEF Highest
<1>4. Append(h.trades, i) \in Seq(1 .. n)
  <2>1. h.trades \in Seq(1 .. n)
    BY DEF Held
  <2> QED
    BY <2>1, AppendProperties
<1>5. /\ named.time = h.time /\ named.sequence = h.sequence /\ named.trades = h.trades
      /\ named.published = h.published
  BY DEF Held
<1> DEFINE time == Highest(h.time, trade.ts)
           sequence == Highest(h.sequence, trade.seq_id)
           some == Append(h.trades, i)
<1> HIDE DEF named, time, sequence, some
<1>6. Collect(h, trade, i) =
        [named EXCEPT !.time = time, !.sequence = sequence, !.trades = some]
  BY <1>2, <1>5 DEF time, sequence, some
<1>7. time \in 0 .. MaxStamp /\ sequence \in 0 .. MaxStamp /\ some \in Seq(1 .. n)
  BY <1>3, <1>4 DEF time, sequence, some
<1>8. /\ Collect(h, trade, i) \in Held(n)
      /\ Collect(h, trade, i).symbol = named.symbol
      /\ Collect(h, trade, i).trades = some
      /\ Collect(h, trade, i).time = time
      /\ Collect(h, trade, i).sequence = sequence
      /\ Collect(h, trade, i).published = named.published
  BY <1>1, <1>6, <1>7 DEF Held
<1> QED
  BY <1>1, <1>5, <1>8 DEF time, sequence, some

LEMMA CollectNext ==
  ASSUME NEW h, NEW trade, NEW i, NEW n \in Nat, h \in Held(n), trade \in Trade, i \in 1 .. n,
         trade.inst_id # h.symbol, h.trades # <<>>, h.time # 0, h.sequence # 0
  PROVE  /\ Collect(h, trade, i) \in Held(n)
         /\ Collect(h, trade, i).symbol = trade.inst_id
         /\ Collect(h, trade, i).trades = <<i>>
         /\ Collect(h, trade, i).time = Highest(0, trade.ts)
         /\ Collect(h, trade, i).sequence = Highest(0, trade.seq_id)
         /\ \E summary \in Published(n) :
                /\ summary.trades = h.trades
                /\ Collect(h, trade, i).published = Append(h.published, summary)
<1> DEFINE named == [h EXCEPT !.symbol = trade.inst_id]
           summary == Summary(named, FALSE)
           begun == Flush(named)
<1>1. named \in Held(n) /\ named.symbol = trade.inst_id
  BY DEF Held, Trade
<1>2. /\ named.time = h.time /\ named.sequence = h.sequence /\ named.trades = h.trades
      /\ named.published = h.published
  BY DEF Held
<1>3. Collect(h, trade, i) =
        [begun EXCEPT !.time = Highest(@, trade.ts), !.sequence = Highest(@, trade.seq_id),
                      !.trades = Append(@, i)]
  BY <1>1 DEF Collect
<1>4. summary \in Published(n) /\ summary.trades = h.trades
  <2>1. /\ summary.symbol = trade.inst_id /\ summary.trades = h.trades
        /\ summary.exchange_time_utc = h.time /\ summary.exchange_sequence = h.sequence
        /\ summary.is_last = FALSE
    BY <1>1, <1>2 DEF Summary
  <2>2. /\ trade.inst_id \in TradeSymbols /\ h.trades \in Seq(1 .. n)
        /\ h.time \in 1 .. MaxStamp /\ h.sequence \in 1 .. MaxStamp
    <3>1. trade.inst_id \in TradeSymbols /\ h.trades \in Seq(1 .. n)
      BY DEF Held, Trade
    <3> QED
      BY <3>1, MaxStampIsNat, HeldTimes
  <2> HIDE DEF named
  <2> QED
    BY <2>1, <2>2 DEF Published, Summary
<1>5. begun = [named EXCEPT !.published = Append(@, summary), !.trades = <<>>, !.time = 0,
                            !.sequence = 0]
  BY DEF Flush
<1>6. Append(named.published, summary) \in Seq(Published(n))
  <2> HIDE DEF named, summary
  <2>1. named.published \in Seq(Published(n))
    BY <1>1 DEF Held
  <2> QED
    BY <1>4, <2>1, AppendProperties
<1>7. <<>> \in Seq(1 .. n) /\ 0 \in 0 .. MaxStamp
  BY StampAssumption
<1> HIDE DEF named, summary, begun
<1>8. /\ begun \in Held(n) /\ begun.symbol = trade.inst_id /\ begun.trades = <<>>
      /\ begun.time = 0 /\ begun.sequence = 0
      /\ begun.published = Append(named.published, summary)
  BY <1>1, <1>5, <1>6, <1>7 DEF Held
<1>9. Highest(0, trade.ts) \in 0 .. MaxStamp /\ Highest(0, trade.seq_id) \in 0 .. MaxStamp
  BY MaxStampIsNat DEF Trade, Highest
<1> DEFINE time == Highest(0, trade.ts)
           sequence == Highest(0, trade.seq_id)
           some == <<i>>
<1>10. some \in Seq(1 .. n) /\ Append(<<>>, i) = some
  OBVIOUS
<1> HIDE DEF time, sequence, some
<1>12. Collect(h, trade, i) =
        [begun EXCEPT !.time = time, !.sequence = sequence, !.trades = some]
  BY <1>3, <1>8, <1>10 DEF time, sequence
<1>13. time \in 0 .. MaxStamp /\ sequence \in 0 .. MaxStamp
  BY <1>9 DEF time, sequence
<1>11. /\ Collect(h, trade, i) \in Held(n)
       /\ Collect(h, trade, i).symbol = trade.inst_id
       /\ Collect(h, trade, i).trades = some
       /\ Collect(h, trade, i).time = time
       /\ Collect(h, trade, i).sequence = sequence
       /\ Collect(h, trade, i).published = begun.published
  BY <1>8, <1>10, <1>12, <1>13 DEF Held
<1> QED
  BY <1>2, <1>4, <1>8, <1>11 DEF time, sequence, some

\* After i trades of a message: each of them is published or collected once and in order.
Loop(h, data, i) ==
  /\ h \in Held(Len(data))
  /\ i = 0 => h = Start(<<>>)
  /\ i # 0 => h.trades # <<>> /\ h.time # 0 /\ h.sequence # 0 /\ h.symbol = data[i].inst_id
  /\ Flat(h.published) \in Seq(1 .. Len(data))
  /\ Flat(h.published) \o h.trades = [j \in 1 .. i |-> j]

\* When they are all of one symbol nothing is published yet, and the time and the sequence
\* number are those of the latest.
Alike(h, data, i) ==
  \A symbol \in TradeSymbols :
    (\A j \in 1 .. i : data[j].inst_id = symbol) =>
        /\ h.published = <<>>
        /\ \A j \in 1 .. i : data[j].ts <= h.time /\ data[j].seq_id <= h.sequence
        /\ i # 0 => \E j \in 1 .. i : data[j].ts = h.time
        /\ i # 0 => \E j \in 1 .. i : data[j].seq_id = h.sequence

LEMMA LoopStart ==
  ASSUME NEW data \in Seq(Trade)
  PROVE  Loop(Start(<<>>), data, 0) /\ Alike(Start(<<>>), data, 0)
<1> DEFINE h == Start(<<>>)
<1>1. /\ h.symbol = "" /\ h.trades = <<>> /\ h.time = 0 /\ h.sequence = 0 /\ h.published = <<>>
      /\ h = [symbol |-> "", trades |-> <<>>, time |-> 0, sequence |-> 0, published |-> <<>>]
  BY DEF Start
<1>2. h \in Held(Len(data))
  BY StampAssumption DEF Held, Start
<1>3. Flat(<<>>) = <<>>
  BY DEF Flat, FlattenSeq
<1>4. [j \in 1 .. 0 |-> j] = <<>>
  OBVIOUS
<1>5. Flat(h.published) \o h.trades = [j \in 1 .. 0 |-> j]
  <2>1. <<>> \o <<>> = <<>>
    OBVIOUS
  <2> QED
    BY <1>1, <1>3, <1>4, <2>1
<1>6. Flat(h.published) \in Seq(1 .. Len(data))
  <2>1. <<>> \in Seq(1 .. Len(data))
    OBVIOUS
  <2> QED
    BY <1>1, <1>3, <2>1
<1>7. Loop(h, data, 0)
  BY <1>2, <1>5, <1>6 DEF Loop
<1>8. Alike(h, data, 0)
  <2>1. \A j \in 1 .. 0 : FALSE
    OBVIOUS
  <2> HIDE DEF h
  <2> QED
    BY <1>1, <2>1 DEF Alike
<1> QED
  BY <1>7, <1>8

LEMMA LoopNext ==
  ASSUME NEW data \in Seq(Trade), NEW i \in 1 .. Len(data), NEW h, Loop(h, data, i - 1)
  PROVE  Loop(Collect(h, data[i], i), data, i)
<1> DEFINE n == Len(data)
           g == Collect(h, data[i], i)
           trade == data[i]
<1>1. n \in Nat /\ trade \in Trade /\ h \in Held(n)
  BY LenProperties, ElementOfSeq DEF Loop
<1>2. Flat(h.published) \o h.trades = [j \in 1 .. i - 1 |-> j]
  BY DEF Loop
<1>3. h.trades \in Seq(1 .. n) /\ h.published \in Seq(Published(n))
  BY <1>1 DEF Held
<1>4. Flat(h.published) \in Seq(1 .. n)
  BY DEF Loop
<1>5. trade.ts \in Nat \ {0} /\ trade.seq_id \in Nat \ {0}
  BY <1>1 DEF Trade
<1>6. h.time \in Nat /\ h.sequence \in Nat
  BY <1>1, HeldTimes
<1>7. [j \in 1 .. i |-> j] = Append([j \in 1 .. i - 1 |-> j], i)
  OBVIOUS
<1>8. i \in 1 .. n
  OBVIOUS
<1> HIDE DEF n, trade, g
<1>9. CASE trade.inst_id # h.symbol /\ h.trades # <<>>
  <2>1. h.time # 0 /\ h.sequence # 0
    <3>1. i - 1 # 0
      <4>1. Start(<<>>).trades = <<>>
        BY DEF Start
      <4>2. i - 1 = 0 => h = Start(<<>>)
        BY DEF Loop
      <4> QED
        BY <1>9, <4>1, <4>2
    <3> QED
      BY <3>1 DEF Loop
  <2>2. PICK summary \in Published(n) :
            /\ summary.trades = h.trades
            /\ g.published = Append(h.published, summary)
    BY <1>1, <1>9, <2>1, CollectNext DEF g, n, trade
  <2>3. /\ g \in Held(n) /\ g.symbol = trade.inst_id /\ g.trades = <<i>>
        /\ g.time = Highest(0, trade.ts) /\ g.sequence = Highest(0, trade.seq_id)
    BY <1>1, <1>9, <2>1, CollectNext DEF g, n, trade
  <2>4. Flat(g.published) = Flat(h.published) \o h.trades
    BY <1>1, <1>3, <2>2, FlatAppended
  <2>5. Flat(g.published) \in Seq(1 .. n)
    BY <1>1, <1>3, <1>4, <2>4
  <2>6. Flat(g.published) \o g.trades = [j \in 1 .. i |-> j]
    BY <1>2, <1>7, <2>3, <2>4
  <2>7. g.time # 0 /\ g.sequence # 0 /\ g.trades # <<>>
    BY <1>5, <2>3 DEF Highest
  <2>8. i # 0 /\ g \in Held(Len(data)) /\ g.symbol = data[i].inst_id
    BY <2>3 DEF n, trade
  <2>9. Loop(g, data, i)
    BY <2>5, <2>6, <2>7, <2>8 DEF Loop, n
  <2> QED
    BY <2>9 DEF g, trade
<1>10. CASE ~(trade.inst_id # h.symbol /\ h.trades # <<>>)
  <2>1. /\ g \in Held(n) /\ g.symbol = trade.inst_id /\ g.trades = Append(h.trades, i)
        /\ g.time = Highest(h.time, trade.ts) /\ g.sequence = Highest(h.sequence, trade.seq_id)
        /\ g.published = h.published
    BY <1>1, <1>10, CollectMore DEF g, n, trade
  <2>2. g.time # 0 /\ g.sequence # 0
    BY <1>5, <1>6, <2>1 DEF Highest
  <2>3. g.trades # <<>>
    BY <1>3, <2>1, <1>8, AppendProperties
  <2>4. Flat(h.published) \o Append(h.trades, i) = Append(Flat(h.published) \o h.trades, i)
    <3>1. h.trades \in Seq(1 .. n)
      BY <1>3
    <3> DEFINE S == 1 .. n
               s == Flat(h.published)
               t == h.trades
    <3>2. s \in Seq(S) /\ t \in Seq(S) /\ i \in S
      BY <1>4, <1>8, <3>1
    <3> HIDE DEF S, s, t
    <3>3. s \o Append(t, i) = Append(s \o t, i)
      BY <3>2, ConcatAppend
    <3> QED
      BY <3>3 DEF s, t
  <2>5. Flat(g.published) \o g.trades = [j \in 1 .. i |-> j]
    BY <1>2, <1>7, <2>1, <2>4
  <2>6. i # 0 /\ g \in Held(Len(data)) /\ g.symbol = data[i].inst_id
    BY <2>1 DEF n, trade
  <2>7. Loop(g, data, i)
    BY <1>4, <2>1, <2>2, <2>3, <2>5, <2>6 DEF Loop, n
  <2> QED
    BY <2>7 DEF g, trade
<1> QED
  BY <1>9, <1>10

LEMMA AlikeNext ==
  ASSUME NEW data \in Seq(Trade), NEW i \in 1 .. Len(data), NEW h, Loop(h, data, i - 1),
         Alike(h, data, i - 1)
  PROVE  Alike(Collect(h, data[i], i), data, i)
<1> DEFINE n == Len(data)
           g == Collect(h, data[i], i)
           trade == data[i]
<1>1. n \in Nat /\ trade \in Trade /\ h \in Held(n) /\ i \in 1 .. n
  BY LenProperties, ElementOfSeq DEF Loop
<1>2. SUFFICES ASSUME NEW symbol \in TradeSymbols, \A j \in 1 .. i : data[j].inst_id = symbol
               PROVE  /\ g.published = <<>>
                      /\ \A j \in 1 .. i : data[j].ts <= g.time /\ data[j].seq_id <= g.sequence
                      /\ \E j \in 1 .. i : data[j].ts = g.time
                      /\ \E j \in 1 .. i : data[j].seq_id = g.sequence
  BY DEF Alike
<1>3. \A j \in 1 .. i : data[j] \in Trade
  BY <1>1, ElementOfSeq
<1>4. \A j \in 1 .. i : data[j].ts \in Nat \ {0} /\ data[j].seq_id \in Nat \ {0}
  BY <1>3, TradeTimes
<1>5. h.time \in Nat /\ h.sequence \in Nat
  BY <1>1, HeldTimes
<1>6. i \in 1 .. i /\ 1 .. i = (1 .. i - 1) \union {i}
  OBVIOUS
<1>7. /\ h.published = <<>>
      /\ \A j \in 1 .. i - 1 : data[j].ts <= h.time /\ data[j].seq_id <= h.sequence
      /\ i - 1 # 0 => \E j \in 1 .. i - 1 : data[j].ts = h.time
      /\ i - 1 # 0 => \E j \in 1 .. i - 1 : data[j].seq_id = h.sequence
  BY <1>2, <1>6 DEF Alike
<1>8. i - 1 = 0 => h = Start(<<>>)
  BY DEF Loop
<1>9. Start(<<>>).trades = <<>> /\ Start(<<>>).time = 0 /\ Start(<<>>).sequence = 0
  BY DEF Start
<1>10. ~(trade.inst_id # h.symbol /\ h.trades # <<>>)
  <2>1. CASE i - 1 = 0
    BY <1>8, <1>9, <2>1
  <2>2. CASE i - 1 # 0
    <3>1. i - 1 \in 1 .. i /\ i \in 1 .. i
      BY <2>2
    <3>2. h.symbol = data[i - 1].inst_id
      BY <2>2 DEF Loop
    <3> QED
      BY <1>2, <3>1, <3>2
  <2> QED
    BY <2>1, <2>2
<1> HIDE DEF n, g, trade
<1>11. /\ g.time = Highest(h.time, trade.ts) /\ g.sequence = Highest(h.sequence, trade.seq_id)
      /\ g.published = h.published
  BY <1>1, <1>10, CollectMore DEF g, trade
<1>12. i - 1 = 0 => h.time = 0 /\ h.sequence = 0
  BY <1>8, <1>9
<1>13. trade.ts \in Nat \ {0} /\ trade.seq_id \in Nat \ {0}
  BY <1>4, <1>6 DEF trade
<1>14. /\ h.time <= g.time /\ trade.ts <= g.time /\ (g.time = h.time \/ g.time = trade.ts)
       /\ g.time \in Nat
  BY <1>5, <1>11, <1>13 DEF Highest
<1>15. /\ h.sequence <= g.sequence /\ trade.seq_id <= g.sequence
       /\ (g.sequence = h.sequence \/ g.sequence = trade.seq_id)
       /\ g.sequence \in Nat
  BY <1>5, <1>11, <1>13 DEF Highest
<1>16. ASSUME NEW j \in 1 .. i PROVE data[j].ts <= g.time /\ data[j].seq_id <= g.sequence
  <2>1. CASE j = i
    BY <2>1, <1>14, <1>15 DEF trade
  <2>2. CASE j \in 1 .. i - 1
    <3>1. data[j].ts <= h.time /\ data[j].seq_id <= h.sequence
      BY <2>2, <1>7
    <3>2. data[j].ts \in Nat /\ data[j].seq_id \in Nat
      BY <1>4
    <3>3. data[j].ts <= g.time
      BY <3>1, <3>2, <1>5, <1>14
    <3>4. data[j].seq_id <= g.sequence
      BY <3>1, <3>2, <1>5, <1>15
    <3> QED
      BY <3>3, <3>4
  <2> QED
    BY <1>6, <2>1, <2>2
<1>17. \E j \in 1 .. i : data[j].ts = g.time
  <2>1. CASE g.time = trade.ts
    BY <2>1, <1>6 DEF trade
  <2>2. CASE g.time # trade.ts
    <3>1. g.time = h.time /\ i - 1 # 0
      BY <2>2, <1>12, <1>13, <1>14
    <3> QED
      BY <3>1, <1>6, <1>7
  <2> QED
    BY <2>1, <2>2
<1>18. \E j \in 1 .. i : data[j].seq_id = g.sequence
  <2>1. CASE g.sequence = trade.seq_id
    BY <2>1, <1>6 DEF trade
  <2>2. CASE g.sequence # trade.seq_id
    <3>1. g.sequence = h.sequence /\ i - 1 # 0
      BY <2>2, <1>12, <1>13, <1>15
    <3> QED
      BY <3>1, <1>6, <1>7
  <2> QED
    BY <2>1, <2>2
<1> QED
  BY <1>7, <1>11, <1>16, <1>17, <1>18

\* The loop over a message, from the first trade to the last.
LEMMA LoopEnd ==
  ASSUME NEW data \in Seq(Trade)
  PROVE  /\ Loop(Collected(<<>>, data), data, Len(data))
         /\ Alike(Collected(<<>>, data), data, Len(data))
<1> DEFINE n == Len(data)
<1>1. n \in Nat
  BY LenProperties
<1>2. PICK after : /\ Collected(<<>>, data) = after[n]
                   /\ after[0] = Start(<<>>)
                   /\ \A i \in 1 .. n : after[i] = Collect(after[i - 1], data[i], i)
  BY <1>1, CollectedRun
<1> DEFINE Holds(i) == Loop(after[i], data, i) /\ Alike(after[i], data, i)
           T == {i \in 0 .. n : ~Holds(i)}
<1>3. T = {}
  <2> SUFFICES ASSUME T # {} PROVE FALSE
    OBVIOUS
  <2>1. PICK m \in T : \A y \in T : m <= y
    <3>1. T \subseteq Nat
      BY <1>1
    <3> QED
      BY <3>1, Least
  <2>2. m \in 0 .. n /\ ~Holds(m)
    OBVIOUS
  <2>3. m # 0
    BY <1>2, <2>2, LoopStart
  <2>4. m \in 1 .. n /\ m - 1 \in 0 .. n /\ m - 1 < m
    BY <1>1, <2>2, <2>3
  <2> HIDE DEF Holds
  <2>5. Holds(m - 1)
    BY <2>1, <2>4
  <2>6. Loop(after[m - 1], data, m - 1) /\ Alike(after[m - 1], data, m - 1)
    BY <2>5 DEF Holds
  <2>7. /\ Loop(Collect(after[m - 1], data[m], m), data, m)
        /\ Alike(Collect(after[m - 1], data[m], m), data, m)
    BY <2>4, <2>6, LoopNext, AlikeNext
  <2>8. after[m] = Collect(after[m - 1], data[m], m)
    BY <1>2, <2>4
  <2>9. Holds(m)
    BY <2>7, <2>8 DEF Holds
  <2> QED
    BY <2>2, <2>9
<1>4. n \in 0 .. n
  BY <1>1
<1>5. Holds(n)
  BY <1>3, <1>4
<1> QED
  BY <1>2, <1>5

\* What a message leaves when all its trades were collected.
LEMMA TradesStep ==
  ASSUME NEW data \in Seq(Trade), Len(data) <= MaxTrades, Trades(data)
  PROVE  TradesTypeOK' /\ EachTradeOnce' /\ OneSymbolOneSummary'
<1> DEFINE n == Len(data)
           h == Collected(<<>>, data)
           final == Summary(h, TRUE)
<1>1. n \in Nat /\ data \in [1 .. n -> Trade] /\ DOMAIN data = 1 .. n
  BY LenProperties
<1>2. Loop(h, data, n) /\ Alike(h, data, n)
  BY LoopEnd
<1>3. /\ received' = data /\ trades' = h.trades
      /\ summaries' = h.published \o IF h.trades # <<>> THEN <<final>> ELSE <<>>
  BY DEF Trades
<1> HIDE DEF h
<1>4. h.trades \in Seq(1 .. n) /\ h.published \in Seq(Published(n))
  BY <1>2 DEF Loop, Held
<1>5. trades' \in Seq(1 .. MaxTrades) /\ received' \in Seq(Trade)
  <2>1. MaxTrades \in Nat /\ 1 .. n \subseteq 1 .. MaxTrades
    BY <1>1, StampAssumption
  <2> QED
    BY <1>3, <1>4, <2>1, SeqMonotonic
<1>6. CASE n = 0
  <2>1. h = Start(<<>>)
    BY <1>2, <1>6 DEF Loop
  <2>2. h.published = <<>> /\ h.trades = <<>>
    BY <2>1 DEF Start
  <2>3. summaries' = <<>> /\ data = <<>>
    BY <1>1, <1>3, <1>6, <2>2
  <2>4. TradesTypeOK'
    BY <1>5, <2>3 DEF TradesTypeOK
  <2>5. EachTradeOnce'
    <3>1. FlattenSeq([i \in DOMAIN <<>> |-> <<>>[i].trades]) = <<>>
      BY DEF FlattenSeq
    <3>2. [i \in DOMAIN <<>> |-> i] = <<>>
      OBVIOUS
    <3>3. received' = <<>> /\ summaries' = <<>>
      BY <1>3, <2>3
    <3> QED
      BY <3>1, <3>2, <3>3 DEF EachTradeOnce
  <2>6. OneSymbolOneSummary'
    BY <1>3, <2>3 DEF OneSymbolOneSummary
  <2> QED
    BY <2>4, <2>5, <2>6
<1>7. CASE n # 0
  <2> DEFINE all == h.published \o <<final>>
             m == Len(h.published)
             Items == {h.published[i] : i \in 1 .. m} \union {final}
  <2>1. h.trades # <<>> /\ h.time # 0 /\ h.sequence # 0 /\ h.symbol = data[n].inst_id /\ h \in Held(n)
    BY <1>2, <1>7 DEF Loop
  <2>2. summaries' = all
    BY <1>3, <2>1
  <2>3. m \in Nat /\ DOMAIN h.published = 1 .. m /\ \A i \in 1 .. m : h.published[i] \in Published(n)
    BY <1>4, LenProperties, ElementOfSeq
  <2>4. h.published \in Seq(Items) /\ <<final>> \in Seq(Items)
    <3>1. h.published \in [1 .. m -> Items]
      <4>1. h.published \in [1 .. m -> Published(n)]
        BY <1>4, LenProperties
      <4> QED
        BY <4>1
    <3>2. final \in Items
      OBVIOUS
    <3> HIDE DEF Items, final, m
    <3> QED
      BY <2>3, <3>1, <3>2, SeqDef
  <2> HIDE DEF Items, final
  <2>5. /\ all \in Seq(Items) /\ Len(all) = m + 1 /\ DOMAIN all = 1 .. m + 1
        /\ \A i \in 1 .. m : all[i] = h.published[i]
        /\ all[m + 1] = final
    <3>1. /\ all \in Seq(Items) /\ Len(all) = m + 1
          /\ \A i \in 1 .. m + 1 : all[i] = IF i <= m THEN h.published[i] ELSE <<final>>[i - m]
      <4>1. Len(<<final>>) = 1
        OBVIOUS
      <4> QED
        BY <2>4, <4>1, ConcatProperties
    <3> HIDE DEF all
    <3>2. DOMAIN all = 1 .. Len(all)
      BY <3>1, LenProperties
    <3>3. all[m + 1] = final
      BY <2>3, <3>1
    <3>4. \A i \in 1 .. m : all[i] = h.published[i]
      BY <2>3, <3>1
    <3> QED
      BY <3>1, <3>2, <3>3, <3>4
  <2>6. /\ final.symbol = h.symbol /\ final.trades = h.trades /\ final.is_last = TRUE
        /\ final.exchange_time_utc = h.time /\ final.exchange_sequence = h.sequence
    BY DEF final, Summary
  <2> HIDE DEF all, m
  <2>7. h.time \in 1 .. MaxStamp /\ h.sequence \in 1 .. MaxStamp
    BY <2>1, HeldTimes, MaxStampIsNat
  <2>8. h.symbol \in TradeSymbols
    <3>1. data[n] \in Trade
      BY <1>1, <1>7
    <3> QED
      BY <2>1, <3>1 DEF Trade
  <2>9. TradesTypeOK'
    <3>1. ASSUME NEW i \in 1 .. m + 1
          PROVE  /\ all[i].symbol \in TradeSymbols
                 /\ all[i].exchange_time_utc \in 1 .. MaxStamp
                 /\ all[i].exchange_sequence \in 1 .. MaxStamp
      <4>1. CASE i = m + 1
        BY <4>1, <2>5, <2>6, <2>7, <2>8
      <4>2. CASE i # m + 1
        <5>1. i \in 1 .. m
          BY <2>3, <4>2
        <5>2. all[i] \in Published(n)
          BY <2>3, <2>5, <5>1
        <5> QED
          BY <5>2 DEF Published
      <4> QED
        BY <4>1, <4>2
    <3> QED
      BY <1>5, <2>2, <2>5, <3>1 DEF TradesTypeOK
  <2>10. EachTradeOnce'
    <3>1. \A i \in 1 .. m : h.published[i].trades \in Seq(1 .. n) /\ h.published[i].is_last = FALSE
      BY <2>3 DEF Published
    <3>2. Flat(all) = Flat(h.published) \o final.trades
      <4> DEFINE some == h.published
      <4>1. /\ Len(some) = m /\ m \in Nat /\ DOMAIN some = 1 .. m
            /\ \A i \in DOMAIN some : some[i].trades \in Seq(1 .. n)
            /\ Len(all) = m + 1 /\ DOMAIN all = 1 .. m + 1
            /\ \A i \in DOMAIN some : all[i] = some[i]
            /\ all[m + 1] = final
            /\ final.trades \in Seq(1 .. n)
        BY <1>4, <2>3, <2>5, <2>6, <3>1 DEF m
      <4> HIDE DEF some
      <4>2. Flat(all) = Flat(some) \o all[m + 1].trades
        BY <1>1, <4>1, FlatAppend
      <4> QED
        BY <4>1, <4>2 DEF some
    <3>3. Flat(all) = [j \in 1 .. n |-> j]
      BY <1>2, <2>6, <3>2 DEF Loop
    <3>4. ASSUME NEW i \in 1 .. m + 1 PROVE all[i].is_last <=> i = m + 1
      <4>1. CASE i = m + 1
        BY <4>1, <2>5, <2>6
      <4>2. CASE i # m + 1
        <5>1. i \in 1 .. m
          BY <2>3, <4>2
        <5> QED
          BY <2>5, <3>1, <4>2, <5>1
      <4> QED
        BY <4>1, <4>2
    <3>5. FlattenSeq([i \in DOMAIN all |-> all[i].trades]) = [i \in DOMAIN data |-> i]
      BY <1>1, <3>3 DEF Flat
    <3>6. \A i \in DOMAIN all : all[i].is_last <=> i = Len(all)
      BY <2>5, <3>4
    <3> QED
      BY <1>3, <2>2, <3>5, <3>6 DEF EachTradeOnce
  <2>11. OneSymbolOneSummary'
    <3> SUFFICES ASSUME NEW symbol \in TradeSymbols, \A i \in 1 .. n : data[i].inst_id = symbol
                 PROVE  /\ Len(all) = 1
                        /\ all[1].symbol = symbol
                        /\ \A i \in 1 .. n :
                            /\ data[i].ts <= all[1].exchange_time_utc
                            /\ data[i].seq_id <= all[1].exchange_sequence
                        /\ \E i \in 1 .. n : data[i].ts = all[1].exchange_time_utc
                        /\ \E i \in 1 .. n : data[i].seq_id = all[1].exchange_sequence
      BY <1>1, <1>3, <2>2 DEF OneSymbolOneSummary
    <3>1. /\ h.published = <<>>
          /\ \A j \in 1 .. n : data[j].ts <= h.time /\ data[j].seq_id <= h.sequence
          /\ \E j \in 1 .. n : data[j].ts = h.time
          /\ \E j \in 1 .. n : data[j].seq_id = h.sequence
      BY <1>2, <1>7 DEF Alike
    <3>2. m = 0
      BY <3>1 DEF m
    <3>3. Len(all) = 1 /\ all[1] = final
      BY <2>5, <3>2
    <3>4. h.symbol = symbol
      BY <1>1, <1>7, <2>1
    <3> QED
      BY <2>6, <3>1, <3>3, <3>4
  <2> QED
    BY <2>9, <2>10, <2>11
<1> QED
  BY <1>6, <1>7

TradesInv == TradesTypeOK /\ EachTradeOnce /\ OneSymbolOneSummary

LEMMA InitTradesInv == TradesInit => TradesInv
<1> SUFFICES ASSUME TradesInit PROVE TradesInv
  OBVIOUS
<1>1. trades = <<>> /\ received = <<>> /\ summaries = <<>>
  BY DEF TradesInit
<1>2. TradesTypeOK
  BY <1>1 DEF TradesTypeOK
<1>3. EachTradeOnce
  BY <1>1 DEF EachTradeOnce, FlattenSeq
<1>4. OneSymbolOneSummary
  BY <1>1 DEF OneSymbolOneSummary
<1> QED
  BY <1>2, <1>3, <1>4 DEF TradesInv

LEMMA NextTradesInv == TradesInv /\ [TradesNext]_tradeVars => TradesInv'
<1> SUFFICES ASSUME TradesInv, [TradesNext]_tradeVars PROVE TradesInv'
  OBVIOUS
<1>1. ASSUME NEW n \in 0 .. MaxTrades, NEW data \in [1 .. n -> Trade], Trades(data)
      PROVE  TradesInv'
  <2>1. data \in Seq(Trade) /\ Len(data) = n
    OBVIOUS
  <2>2. Len(data) <= MaxTrades
    BY <2>1, StampAssumption
  <2> QED
    BY <1>1, <2>1, <2>2, TradesStep DEF TradesInv
<1>2. CASE UNCHANGED tradeVars
  <2>1. TradesTypeOK'
    BY <1>2 DEF tradeVars, TradesInv, TradesTypeOK
  <2>2. EachTradeOnce'
    BY <1>2 DEF tradeVars, TradesInv, EachTradeOnce
  <2>3. OneSymbolOneSummary'
    BY <1>2 DEF tradeVars, TradesInv, OneSymbolOneSummary
  <2> QED
    BY <2>1, <2>2, <2>3 DEF TradesInv
<1> QED
  BY <1>1, <1>2 DEF TradesNext

\* The type invariant of what is collected and published.
THEOREM TradesTypeCorrect == TradesSpec => []TradesTypeOK
<1>1. TradesInv => TradesTypeOK
  BY DEF TradesInv
<1> QED
  BY InitTradesInv, NextTradesInv, <1>1, PTL DEF TradesSpec

\* A message of any length over any symbols publishes each of its trades once, in order.
THEOREM TradesPublishedOnce == TradesSpec => []EachTradeOnce
<1>1. TradesInv => EachTradeOnce
  BY DEF TradesInv
<1> QED
  BY InitTradesInv, NextTradesInv, <1>1, PTL DEF TradesSpec

\* A message of one symbol, of any length, is one summary with the latest time and sequence.
THEOREM OneSummaryPerSymbol == TradesSpec => []OneSymbolOneSummary
<1>1. TradesInv => OneSymbolOneSummary
  BY DEF TradesInv
<1> QED
  BY InitTradesInv, NextTradesInv, <1>1, PTL DEF TradesSpec

-----------------------------------------------------------------------------
(* Dispatch. *)

DispatchInv ==
  /\ DispatchTypeOK
  /\ connection = "login" => LogsIn(stream, flags)
  /\ NothingUnexpected
  /\ EventsAreEvents

LEMMA TableKeys == DOMAIN Tables = {"op", "event", "arg"}
  BY DEF Tables

\* The first key that the parser knows names the handler.
LEMMA FirstKeyDecides ==
  ASSUME NEW message, DOMAIN message \subseteq Int, NEW i \in DOMAIN message,
         message[i].key \in {"op", "event", "arg"},
         \A j \in DOMAIN message : j < i => message[j].key \notin {"op", "event", "arg"}
  PROVE  HandlerOf(message) = Named(message[i])
<1>1. i \in Keyed(message) /\ Keyed(message) \subseteq Int
  BY TableKeys DEF Keyed
<1>2. \A j \in Keyed(message) : i <= j
  BY TableKeys DEF Keyed
<1>3. Min(Keyed(message)) = i
  BY <1>1, <1>2 DEF Min
<1> QED
  BY <1>1, <1>3 DEF HandlerOf

LEMMA KeyFields == \A key, value : Key(key, value).key = key /\ Key(key, value).value = value
  BY DEF Key

LEMMA ArgTable == \A channel \in DOMAIN Args : Args[channel] # "Error"
  BY DEF Args, BooksChannels, Private

LEMMA EventNamed ==
  ASSUME NEW event
  PROVE  Named(Key("event", event)) = IF event \in DOMAIN Events THEN Events[event] ELSE "unknown"
<1>1. Tables["event"] = Events
  BY DEF Tables
<1>2. Key("event", event).key = "event" /\ Key("event", event).value = event
  BY DEF Key
<1> QED
  BY <1>1, <1>2 DEF Named

LEMMA ArgNamed ==
  ASSUME NEW channel
  PROVE  Named(Key("arg", channel)) = IF channel \in DOMAIN Args THEN Args[channel] ELSE "unknown"
<1>1. Tables["arg"] = Args
  BY DEF Tables
<1>2. Key("arg", channel).key = "arg" /\ Key("arg", channel).value = channel
  BY DEF Key
<1> QED
  BY <1>1, <1>2 DEF Named

LEMMA OpNamed ==
  ASSUME NEW op
  PROVE  Named(Key("op", op)) = IF op \in DOMAIN Operations THEN Operations[op] ELSE "unknown"
<1>1. Tables["op"] = Operations
  BY DEF Tables
<1>2. Key("op", op).key = "op" /\ Key("op", op).value = op
  BY DEF Key
<1> QED
  BY <1>1, <1>2 DEF Named

LEMMA EventTable ==
  /\ DOMAIN Events = {"error", "login", "subscribe", "unsubscribe", "channel-conn-count", "notice"}
  /\ Events["error"] = "Error" /\ Events["login"] = "Login" /\ Events["subscribe"] = "Subscribe"
  /\ Events["channel-conn-count"] = "ChannelConnCount" /\ Events["notice"] = "Notice"
  BY DEF Events

LEMMA OpTable ==
  ASSUME NEW op \in {"batch-orders", "batch-amend-orders", "batch-cancel-orders"}
  PROVE  op \in DOMAIN Operations /\ Operations[op] \in {"Order", "AmendOrder", "CancelOrder"}
  BY DEF Operations

LEMMA BooksAsked == \A f \in DispatchSettings : BooksChannel(f) \in BooksChannels
  BY DEF BooksChannel, BooksChannels

\* The handlers of what a stream may ask for.
LEMMA AskedExpected ==
  ASSUME NEW s \in Streams, NEW f \in DispatchSettings, NEW channel \in ChannelsOf(s, f)
  PROVE  channel \in DOMAIN Args /\ Args[channel] \in Expected(s)
<1>1. CASE s = "MarketData"
  <2>1. channel \in PublicChannels(f)
    BY <1>1 DEF ChannelsOf
  <2>2. /\ Expected(s) = Common \union
            {"Status", "Tickers", "Trades", "BboTbt", "BooksL2Tbt", "IndexTickers", "FundingRate", "Login"}
    BY <1>1 DEF Expected
  <2>3. CASE channel = BooksChannel(f)
    <3>1. channel \in BooksChannels
      BY <2>3, BooksAsked
    <3>2. channel \in DOMAIN Args /\ Args[channel] = "BooksL2Tbt"
      BY <3>1 DEF Args, BooksChannels, Private
    <3> QED
      BY <2>2, <3>2
  <2>4. CASE channel \in {"tickers", "trades", "bbo-tbt", "funding-rate", "index-tickers"}
    <3>1. channel \in DOMAIN Args
      BY <2>4 DEF Args
    <3>2. Args[channel] \in {"Tickers", "Trades", "BboTbt", "IndexTickers", "FundingRate"}
      BY <2>4 DEF Args, BooksChannels, Private
    <3> QED
      BY <2>2, <3>1, <3>2
  <2> QED
    BY <2>1, <2>3, <2>4 DEF PublicChannels
<1>2. CASE s = "StaticData"
  <2>1. channel \in {"status", "instruments"}
    BY <1>2 DEF ChannelsOf
  <2>2. {"Status", "Instruments"} \subseteq Expected(s)
    BY <1>2 DEF Expected
  <2>3. channel \in DOMAIN Args /\ Args[channel] \in {"Status", "Instruments"}
    BY <2>1 DEF Args, BooksChannels, Private
  <2> QED
    BY <2>2, <2>3
<1>3. CASE s = "DropCopy"
  <2>1. channel \in Private
    BY <1>3 DEF ChannelsOf
  <2>2. {"Account", "BalanceAndPosition", "Positions", "Orders"} \subseteq Expected(s)
    BY <1>3 DEF Expected
  <2>3. channel \in DOMAIN Args /\ Args[channel] \in {"Account", "BalanceAndPosition", "Positions", "Orders"}
    BY <2>1 DEF Args, BooksChannels, Private
  <2> QED
    BY <2>2, <2>3
<1>4. CASE s = "Business"
  <2>1. channel = "candle1m"
    BY <1>4 DEF ChannelsOf
  <2>2. "Candle" \in Expected(s)
    BY <1>4 DEF Expected
  <2>3. channel \in DOMAIN Args /\ Args[channel] = "Candle"
    BY <2>1 DEF Args, BooksChannels, Private
  <2> QED
    BY <2>2, <2>3
<1> QED
  BY <1>1, <1>2, <1>3, <1>4 DEF Streams

LEMMA CommonExpected == \A s : Common \subseteq Expected(s)
  BY DEF Expected

\* A message that the stream expects, or knows nothing of, leaves the invariant as it was.
LEMMA ParseKeeps ==
  ASSUME DispatchInv, NEW message, Parse(message),
         HandlerOf(message) \in Expected(stream) \union {"unknown"},
         acked' \subseteq asked', EventsAreEvents'
  PROVE  DispatchInv'
<1> DEFINE handler == HandlerOf(message)
<1>1. /\ process' = CASE handler = "unknown" /\ ~flags.allow_unknown_event_types -> "unknown"
                      [] handler # "unknown" /\ handler \notin Expected(stream) -> "unexpected"
                      [] handler = "Error" /\ stream = "DropCopy" /\ ~flags.retry_logon -> "error"
                      [] OTHER -> process
      /\ connection' = CASE handler = "Error" /\ stream = "DropCopy" /\ flags.retry_logon -> "down"
                         [] handler = "Login" /\ "Login" \in Expected(stream) -> "up"
                         [] OTHER -> connection
      /\ asked' = IF connection' = "down" THEN {} ELSE asked
      /\ process = "running" /\ stream' = stream /\ flags' = flags
  BY DEF Parse, Handle
<1> HIDE DEF handler
<1>2. process' \in {"running", "unknown", "error"}
  <2>1. CASE handler = "unknown" /\ ~flags.allow_unknown_event_types
    BY <1>1, <2>1
  <2>2. CASE handler \in Expected(stream) /\ handler = "Error" /\ stream = "DropCopy" /\ ~flags.retry_logon
    BY <1>1, <2>2
  <2> QED
    BY <1>1, <2>1, <2>2 DEF handler
<1>3. connection' \in {"down", "up", connection}
  BY <1>1
<1>4. asked' \subseteq ChannelsOf(stream, flags)
  BY <1>1 DEF DispatchInv, DispatchTypeOK
<1>5. DispatchTypeOK'
  BY <1>1, <1>2, <1>3, <1>4 DEF DispatchInv, DispatchTypeOK
<1>6. (connection = "login" => LogsIn(stream, flags))'
  BY <1>1, <1>3 DEF DispatchInv
<1>7. NothingUnexpected'
  BY <1>2 DEF NothingUnexpected
<1> QED
  BY <1>5, <1>6, <1>7 DEF DispatchInv

\* A message that begins with its event.
LEMMA EventFirst ==
  ASSUME NEW message, DOMAIN message \subseteq Int \ {0}, NEW event,
         1 \in DOMAIN message, message[1] = Key("event", event),
         \A i \in DOMAIN message : i = 1 \/ (i > 1 /\ message[i].key # "event"),
         Parse(message)
  PROVE  /\ HandlerOf(message) = IF event \in DOMAIN Events THEN Events[event] ELSE "unknown"
         /\ EventsAreEvents'
<1>1. message[1].key = "event" /\ message[1].value = event
  BY DEF Key
<1>2. HandlerOf(message) = Named(message[1])
  BY <1>1, FirstKeyDecides
<1>3. HandlerOf(message) = IF event \in DOMAIN Events THEN Events[event] ELSE "unknown"
  BY <1>2, EventNamed
<1>4. last'.message = message /\ last'.handler = HandlerOf(message)
  BY DEF Parse
<1> QED
  BY <1>1, <1>3, <1>4 DEF EventsAreEvents

LEMMA OnlyFirstOfTwo ==
  ASSUME NEW message, DOMAIN message = 1 .. 2, message[2].key # "event"
  PROVE  \A i \in DOMAIN message : i = 1 \/ (i > 1 /\ message[i].key # "event")
<1>1. ASSUME NEW i \in 1 .. 2 PROVE i = 1 \/ (i > 1 /\ message[i].key # "event")
  <2>1. i = 1 \/ i = 2
    OBVIOUS
  <2> QED
    BY <2>1
<1> QED
  BY <1>1, Zenon

LEMMA OnlyFirstOfThree ==
  ASSUME NEW message, DOMAIN message = 1 .. 3, message[2].key # "event", message[3].key # "event"
  PROVE  \A i \in DOMAIN message : i = 1 \/ (i > 1 /\ message[i].key # "event")
<1>1. ASSUME NEW i \in 1 .. 3 PROVE i = 1 \/ (i > 1 /\ message[i].key # "event")
  <2>1. i = 1 \/ i = 2 \/ i = 3
    OBVIOUS
  <2> QED
    BY <2>1
<1> QED
  BY <1>1, Zenon

LEMMA NoEvent ==
  ASSUME NEW message, \A i \in DOMAIN message : message[i].key # "event", Parse(message)
  PROVE  EventsAreEvents'
  BY DEF Parse, EventsAreEvents

LEMMA InitDispatchInv == DispatchInit => DispatchInv
<1> SUFFICES ASSUME DispatchInit PROVE DispatchInv
  OBVIOUS
<1>1. DispatchTypeOK
  BY DEF DispatchInit, DispatchTypeOK
<1>2. last.message = <<>>
  BY DEF DispatchInit
<1>3. EventsAreEvents
  BY <1>2 DEF EventsAreEvents
<1> QED
  BY <1>1, <1>3 DEF DispatchInit, DispatchInv, NothingUnexpected

LEMMA NextDispatchInv == DispatchInv /\ [DispatchNext]_dispatchVars => DispatchInv'
<1> SUFFICES ASSUME DispatchInv, [DispatchNext]_dispatchVars PROVE DispatchInv'
  OBVIOUS
<1>0. stream \in Streams /\ flags \in DispatchSettings
  BY DEF DispatchInv, DispatchTypeOK
<1>1. CASE WebsocketUp
  <2>1. connection' \in {"login", "up"} /\ (connection' = "login" => LogsIn(stream, flags))
    BY <1>1 DEF WebsocketUp
  <2>2. UNCHANGED <<stream, flags, process, asked, acked, last>>
    BY <1>1 DEF WebsocketUp
  <2>3. DispatchTypeOK'
    BY <2>1, <2>2 DEF DispatchInv, DispatchTypeOK
  <2>4. NothingUnexpected' /\ EventsAreEvents'
    BY <2>2 DEF DispatchInv, NothingUnexpected, EventsAreEvents
  <2>5. (connection = "login" => LogsIn(stream, flags))'
    BY <2>1, <2>2
  <2> QED
    BY <2>3, <2>4, <2>5 DEF DispatchInv
<1>2. ASSUME NEW channel \in ChannelsOf(stream, flags), Ask(channel) PROVE DispatchInv'
  <2>1. /\ UNCHANGED <<stream, flags, connection, acked, last>>
        /\ process' \in {process, "settings"}
        /\ asked' \in {asked, asked \union {channel}}
    BY <1>2 DEF Ask
  <2>2. DispatchTypeOK'
    BY <2>1 DEF DispatchInv, DispatchTypeOK
  <2>3. NothingUnexpected' /\ EventsAreEvents'
    BY <2>1 DEF DispatchInv, NothingUnexpected, EventsAreEvents
  <2>4. (connection = "login" => LogsIn(stream, flags))'
    BY <2>1 DEF DispatchInv
  <2> QED
    BY <2>2, <2>3, <2>4 DEF DispatchInv
<1>3. ASSUME NEW channel \in ChannelsOf(stream, flags), SubscribeReply(channel) PROVE DispatchInv'
  <2> DEFINE message == <<Key("event", "subscribe"), Key("arg", channel), Key("connId", "")>>
  <2>1. /\ DOMAIN message = 1 .. 3 /\ message[1] = Key("event", "subscribe")
        /\ message[2].key = "arg" /\ message[3].key = "connId"
    <3>1. /\ DOMAIN message = 1 .. 3 /\ message[1] = Key("event", "subscribe") /\ message[2] = Key("arg", channel)
          /\ message[3] = Key("connId", "")
      OBVIOUS
    <3> HIDE DEF message
    <3> QED
      BY <3>1, KeyFields
  <2>2. Parse(message) /\ channel \in asked \ acked /\ acked' = acked \union {channel}
    BY <1>3 DEF SubscribeReply
  <2> HIDE DEF message
  <2>3. HandlerOf(message) = "Subscribe" /\ EventsAreEvents'
    <3>1. \A i \in DOMAIN message : i = 1 \/ (i > 1 /\ message[i].key # "event")
      BY <2>1, OnlyFirstOfTwo, OnlyFirstOfThree
    <3> QED
      BY <2>1, <2>2, <3>1, EventFirst, EventTable
  <2>4. "Subscribe" \in Expected(stream)
    BY CommonExpected DEF Common
  <2>5. asked' = asked
    BY <2>2, <2>3 DEF Parse, Handle
  <2>6. acked' \subseteq asked'
    BY <2>2, <2>5 DEF DispatchInv, DispatchTypeOK
  <2> QED
    BY <2>2, <2>3, <2>4, <2>6, ParseKeeps
<1>4. ASSUME NEW channel \in ChannelsOf(stream, flags), Push(channel) PROVE DispatchInv'
  <2> DEFINE message == <<Key("arg", channel), Key("data", "")>>
  <2>1. /\ DOMAIN message = 1 .. 2 /\ message[1] = Key("arg", channel)
        /\ message[1].key = "arg" /\ message[2].key = "data"
    <3>1. DOMAIN message = 1 .. 2 /\ message[1] = Key("arg", channel) /\ message[2] = Key("data", "")
      OBVIOUS
    <3> HIDE DEF message
    <3> QED
      BY <3>1, KeyFields
  <2>2. Parse(message) /\ acked' = acked
    BY <1>4 DEF Push
  <2> HIDE DEF message
  <2>3. HandlerOf(message) = Named(message[1])
    BY <2>1, FirstKeyDecides
  <2>4. HandlerOf(message) \in Expected(stream) /\ HandlerOf(message) = Args[channel]
    BY <1>0, <2>1, <2>3, ArgNamed, AskedExpected
  <2>5. EventsAreEvents'
    BY <2>1, <2>2, NoEvent
  <2>6. Args[channel] # "Error"
    BY <1>0, AskedExpected, ArgTable
  <2>7. asked' = asked
    BY <2>2, <2>4, <2>6 DEF Parse, Handle
  <2>8. acked' \subseteq asked'
    BY <2>2, <2>7 DEF DispatchInv, DispatchTypeOK
  <2> QED
    BY <2>2, <2>4, <2>5, <2>8, ParseKeeps
<1>5. ASSUME NEW channel \in ChannelsOf(stream, flags), ConnCount(channel) PROVE DispatchInv'
  <2> DEFINE message ==
        <<Key("event", "channel-conn-count"), Key("channel", channel), Key("connId", "")>>
  <2>1. /\ DOMAIN message = 1 .. 3 /\ message[1] = Key("event", "channel-conn-count")
        /\ message[2].key = "channel" /\ message[3].key = "connId"
    <3>1. /\ DOMAIN message = 1 .. 3 /\ message[1] = Key("event", "channel-conn-count") /\ message[2] = Key("channel", channel)
          /\ message[3] = Key("connId", "")
      OBVIOUS
    <3> HIDE DEF message
    <3> QED
      BY <3>1, KeyFields
  <2>2. Parse(message) /\ channel \in Private /\ acked' = acked
    BY <1>5 DEF ConnCount
  <2> HIDE DEF message
  <2>3. HandlerOf(message) = "ChannelConnCount" /\ EventsAreEvents'
    <3>1. \A i \in DOMAIN message : i = 1 \/ (i > 1 /\ message[i].key # "event")
      BY <2>1, OnlyFirstOfTwo, OnlyFirstOfThree
    <3> QED
      BY <2>1, <2>2, <3>1, EventFirst, EventTable
  <2>4. stream = "DropCopy"
    <3>1. BooksChannel(flags) \in BooksChannels
      BY <1>0, BooksAsked
    <3> QED
      BY <1>0, <2>2, <3>1 DEF ChannelsOf, PublicChannels, Private, BooksChannels, Streams
  <2>5. "ChannelConnCount" \in Expected(stream)
    BY <2>4 DEF Expected
  <2>6. asked' = asked
    BY <2>2, <2>3 DEF Parse, Handle
  <2>7. acked' \subseteq asked'
    BY <2>2, <2>6 DEF DispatchInv, DispatchTypeOK
  <2> QED
    BY <2>2, <2>3, <2>5, <2>7, ParseKeeps
<1>6. CASE LoginReply
  <2> DEFINE message == Event("login")
  <2>1. /\ DOMAIN message = 1 .. 2 /\ message[1] = Key("event", "login") /\ message[2].key = "msg"
    <3>1. DOMAIN message = 1 .. 2 /\ message[1] = Key("event", "login") /\ message[2] = Key("msg", "")
      BY DEF Event
    <3> HIDE DEF message
    <3> QED
      BY <3>1, KeyFields
  <2>2. Parse(message) /\ connection = "login" /\ acked' = acked
    BY <1>6 DEF LoginReply
  <2> HIDE DEF message
  <2>3. HandlerOf(message) = "Login" /\ EventsAreEvents'
    <3>1. \A i \in DOMAIN message : i = 1 \/ (i > 1 /\ message[i].key # "event")
      BY <2>1, OnlyFirstOfTwo, OnlyFirstOfThree
    <3> QED
      BY <2>1, <2>2, <3>1, EventFirst, EventTable
  <2>4. LogsIn(stream, flags)
    BY <2>2 DEF DispatchInv
  <2>5. "Login" \in Expected(stream)
    BY <2>4 DEF LogsIn, Expected
  <2>6. asked' = asked
    BY <2>2, <2>3 DEF Parse, Handle
  <2>7. acked' \subseteq asked'
    BY <2>2, <2>6 DEF DispatchInv, DispatchTypeOK
  <2> QED
    BY <2>2, <2>3, <2>5, <2>7, ParseKeeps
<1>7. ASSUME NEW op \in {"batch-orders", "batch-amend-orders", "batch-cancel-orders"}, OrderReply(op)
      PROVE  DispatchInv'
  <2> DEFINE message == <<Key("code", ""), Key("data", ""), Key("id", ""), Key("msg", ""), Key("op", op)>>
  <2>1. /\ DOMAIN message = 1 .. 5 /\ message[1].key = "code" /\ message[2].key = "data"
        /\ message[3].key = "id" /\ message[4].key = "msg"
        /\ message[5] = Key("op", op) /\ message[5].key = "op"
    <3>1. /\ DOMAIN message = 1 .. 5 /\ message[1] = Key("code", "") /\ message[2] = Key("data", "")
          /\ message[3] = Key("id", "") /\ message[4] = Key("msg", "")
          /\ message[5] = Key("op", op)
      OBVIOUS
    <3> HIDE DEF message
    <3> QED
      BY <3>1, KeyFields
  <2>2. Parse(message) /\ stream = "DropCopy" /\ acked' = acked
    BY <1>7 DEF OrderReply
  <2> HIDE DEF message
  <2>3. HandlerOf(message) = Named(message[5])
    BY <2>1, FirstKeyDecides
  <2>4. HandlerOf(message) \in {"Order", "AmendOrder", "CancelOrder"}
    BY <2>1, <2>3, OpNamed, OpTable
  <2>5. {"Order", "AmendOrder", "CancelOrder"} \subseteq Expected(stream)
    BY <2>2 DEF Expected
  <2>6. EventsAreEvents'
    BY <2>1, <2>2, NoEvent
  <2>7. asked' = asked
    BY <2>2, <2>4 DEF Parse, Handle
  <2>8. acked' \subseteq asked'
    BY <2>2, <2>7 DEF DispatchInv, DispatchTypeOK
  <2> QED
    BY <2>2, <2>4, <2>5, <2>6, <2>8, ParseKeeps
<1>8. ASSUME NEW event \in {"error", "notice"}, ErrorOrNotice(event) PROVE DispatchInv'
  <2> DEFINE message == Event(event)
  <2>1. /\ DOMAIN message = 1 .. 2 /\ message[1] = Key("event", event) /\ message[2].key = "msg"
    <3>1. DOMAIN message = 1 .. 2 /\ message[1] = Key("event", event) /\ message[2] = Key("msg", "")
      BY DEF Event
    <3> HIDE DEF message
    <3> QED
      BY <3>1, KeyFields
  <2>2. Parse(message) /\ acked' = IF connection' = "down" THEN {} ELSE acked
    BY <1>8 DEF ErrorOrNotice
  <2> HIDE DEF message
  <2>3. HandlerOf(message) \in {"Error", "Notice"} /\ EventsAreEvents'
    <3>1. \A i \in DOMAIN message : i = 1 \/ (i > 1 /\ message[i].key # "event")
      BY <2>1, OnlyFirstOfTwo, OnlyFirstOfThree
    <3> QED
      BY <2>1, <2>2, <3>1, EventFirst, EventTable
  <2>4. {"Error", "Notice"} \subseteq Expected(stream)
    BY CommonExpected DEF Common
  <2>5. asked' = IF connection' = "down" THEN {} ELSE asked
    BY <2>2 DEF Parse
  <2>6. acked' \subseteq asked'
    BY <2>2, <2>5 DEF DispatchInv, DispatchTypeOK
  <2> QED
    BY <2>2, <2>3, <2>4, <2>6, ParseKeeps
<1>9. CASE NewEvent
  <2> DEFINE message == Event("new")
  <2>1. /\ DOMAIN message = 1 .. 2 /\ message[1] = Key("event", "new") /\ message[2].key = "msg"
    <3>1. DOMAIN message = 1 .. 2 /\ message[1] = Key("event", "new") /\ message[2] = Key("msg", "")
      BY DEF Event
    <3> HIDE DEF message
    <3> QED
      BY <3>1, KeyFields
  <2>2. Parse(message) /\ acked' = acked
    BY <1>9 DEF NewEvent
  <2> HIDE DEF message
  <2>3. HandlerOf(message) = "unknown" /\ EventsAreEvents'
    <3>1. \A i \in DOMAIN message : i = 1 \/ (i > 1 /\ message[i].key # "event")
      BY <2>1, OnlyFirstOfTwo, OnlyFirstOfThree
    <3> QED
      BY <2>1, <2>2, <3>1, EventFirst, EventTable
  <2>4. asked' = asked
    BY <2>2, <2>3 DEF Parse, Handle
  <2>5. acked' \subseteq asked'
    BY <2>2, <2>4 DEF DispatchInv, DispatchTypeOK
  <2> QED
    BY <2>2, <2>3, <2>5, ParseKeeps
<1>10. CASE WebsocketLost
  <2>1. /\ UNCHANGED <<stream, flags, process, last>>
        /\ connection' = "down" /\ asked' = {} /\ acked' = {}
    BY <1>10 DEF WebsocketLost
  <2>2. DispatchTypeOK'
    BY <2>1 DEF DispatchInv, DispatchTypeOK
  <2>3. NothingUnexpected' /\ EventsAreEvents'
    BY <2>1 DEF DispatchInv, NothingUnexpected, EventsAreEvents
  <2> QED
    BY <2>1, <2>2, <2>3 DEF DispatchInv
<1>11. CASE UNCHANGED dispatchVars
  <2>1. DispatchTypeOK'
    BY <1>11 DEF dispatchVars, DispatchInv, DispatchTypeOK
  <2>2. NothingUnexpected' /\ EventsAreEvents'
    BY <1>11 DEF dispatchVars, DispatchInv, NothingUnexpected, EventsAreEvents
  <2>3. (connection = "login" => LogsIn(stream, flags))'
    BY <1>11 DEF dispatchVars, DispatchInv
  <2> QED
    BY <2>1, <2>2, <2>3 DEF DispatchInv
<1> QED
  BY <1>1, <1>2, <1>3, <1>4, <1>5, <1>6, <1>7, <1>8, <1>9, <1>10, <1>11 DEF DispatchNext

\* The type invariant: what is acknowledged was asked for, and that is of the stream.
THEOREM DispatchTypeCorrect == DispatchSpec => []DispatchTypeOK
<1>1. DispatchInv => DispatchTypeOK
  BY DEF DispatchInv
<1> QED
  BY InitDispatchInv, NextDispatchInv, <1>1, PTL DEF DispatchSpec

\* No message that a stream can cause under any settings reaches a handler that is fatal.
THEOREM NeverUnexpected == DispatchSpec => []NothingUnexpected
<1>1. DispatchInv => NothingUnexpected
  BY DEF DispatchInv
<1> QED
  BY InitDispatchInv, NextDispatchInv, <1>1, PTL DEF DispatchSpec

\* No event is taken for data of the channel that it names.
THEOREM EventsComeFirst == DispatchSpec => []EventsAreEvents
<1>1. DispatchInv => EventsAreEvents
  BY DEF DispatchInv
<1> QED
  BY InitDispatchInv, NextDispatchInv, <1>1, PTL DEF DispatchSpec

-----------------------------------------------------------------------------
(* Throttle. *)

\* The last Retry-After has been waited for, or its time is past.
RetryInv ==
    enabled => retry_after <= suspend_until \/ retry_after <= now

ThrottleInv ==
    /\ ThrottleTypeOK
    /\ RetryInv
    /\ SuspensionsHonoured

LEMMA InitThrottleInv == ThrottleInit => ThrottleInv
  BY DEF ThrottleInit, ThrottleInv, ThrottleTypeOK, RetryInv, SuspensionsHonoured

LEMMA NextThrottleInv == ThrottleInv /\ [ThrottleNext]_throttleVars => ThrottleInv'
<1> SUFFICES ASSUME ThrottleInv, [ThrottleNext]_throttleVars PROVE ThrottleInv'
  OBVIOUS
<1> USE RetryAftersAssumption, BackoffAssumption
    DEF ThrottleInv, ThrottleTypeOK, RetryInv, SuspensionsHonoured, Later
<1>1. ASSUME NEW c \in Connections, MessageBegin(c) PROVE ThrottleInv'
  BY <1>1 DEF MessageBegin
<1>2. ASSUME NEW c \in Connections, NEW value \in RetryAfters, MessageHeader(c, value)
      PROVE ThrottleInv'
  <2>1. CASE enabled /\ value # retry_after
    BY <1>2, <2>1 DEF MessageHeader, Suspend
  <2>2. CASE enabled /\ value = retry_after
    BY <1>2, <2>2 DEF MessageHeader
  <2>3. CASE ~enabled
    BY <1>2, <2>3 DEF MessageHeader
  <2> QED
    BY <2>1, <2>2, <2>3
<1>3. ASSUME NEW c \in Connections, MessageEnd(c) PROVE ThrottleInv'
  BY <1>3 DEF MessageEnd
<1>4. ASSUME NEW c \in Connections, TooManyRequests(c) PROVE ThrottleInv'
  BY <1>4 DEF TooManyRequests
<1>5. ASSUME NEW c \in Connections, Forbidden(c) PROVE ThrottleInv'
  BY <1>5 DEF Forbidden
<1>6. CASE Clock
  BY <1>6 DEF Clock
<1>7. CASE UNCHANGED throttleVars
  BY <1>7 DEF throttleVars
<1> QED
  BY <1>1, <1>2, <1>3, <1>4, <1>5, <1>6, <1>7 DEF ThrottleNext

\* The type invariant; a throttle that is switched off never suspends anything.
THEOREM ThrottleTypeCorrect == ThrottleSpec => []ThrottleTypeOK
<1>1. ThrottleInv => ThrottleTypeOK
  BY DEF ThrottleInv
<1> QED
  BY InitThrottleInv, NextThrottleInv, <1>1, PTL DEF ThrottleSpec

\* No header or status of any connection ends a suspension earlier than what another one
\* was told.
THEOREM NeverShortened == ThrottleSpec => []SuspensionsHonoured
<1>1. ThrottleInv => SuspensionsHonoured
  BY DEF ThrottleInv
<1> QED
  BY InitThrottleInv, NextThrottleInv, <1>1, PTL DEF ThrottleSpec

-----------------------------------------------------------------------------
(* The composition. *)

messagesVars == <<part, vars, amendVars, tradeVars, dispatchVars, throttleVars>>

LEMMA InitOfParts ==
  MessagesInit => Init /\ AmendInit /\ TradesInit /\ DispatchInit /\ ThrottleInit /\ part \in Parts
  BY DEF MessagesInit, NoOrder, NoStream, NoThrottle

LEMMA StepOfParts ==
  [MessagesNext]_messagesVars =>
    /\ [Next]_vars /\ [AmendNext]_amendVars /\ [TradesNext]_tradeVars
    /\ [DispatchNext]_dispatchVars /\ [ThrottleNext]_throttleVars
    /\ UNCHANGED part
  BY DEF MessagesNext, messagesVars

\* Composed, each part does what it does alone: every theorem on a part is one on the run.
THEOREM PartsImplemented ==
  MessagesSpec => Spec /\ AmendSpec /\ TradesSpec /\ DispatchSpec /\ ThrottleSpec
<1>1. MessagesSpec => MessagesInit /\ [][MessagesNext]_messagesVars
  BY DEF MessagesSpec, messagesVars
<1> QED
  BY <1>1, InitOfParts, StepOfParts, PTL
     DEF Spec, AmendSpec, TradesSpec, DispatchSpec, ThrottleSpec

\* The type invariants of the five parts, together.
THEOREM MessagesTypeCorrect == MessagesSpec => []MessagesTypeOK
<1>1. MessagesSpec => [](part \in Parts)
  <2>1. part \in Parts /\ [MessagesNext]_messagesVars => (part \in Parts)'
    BY StepOfParts
  <2>2. MessagesSpec => MessagesInit /\ [][MessagesNext]_messagesVars
    BY DEF MessagesSpec, messagesVars
  <2> QED
    BY <2>1, <2>2, InitOfParts, PTL
<1>2. /\ part \in Parts /\ TypeOK /\ AmendTypeOK /\ TradesTypeOK /\ DispatchTypeOK
      /\ ThrottleTypeOK
      => MessagesTypeOK
  BY DEF MessagesTypeOK
<1> QED
  BY <1>1, <1>2, PartsImplemented, EncodingTypeCorrect, AmendTypeCorrect, TradesTypeCorrect,
     DispatchTypeCorrect, ThrottleTypeCorrect, PTL

=============================================================================

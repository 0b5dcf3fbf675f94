-------------------------- MODULE OrderEncoding --------------------------
(***************************************************************************)
(* What a CreateOrder becomes on the wire: encoder.cpp chooses ordType,    *)
(* reduceOnly, tdMode and the optional fields of batch-orders from what    *)
(* the client asked for and from the settings of the gateway, or refuses   *)
(* the order.  Only the choice is modelled, the text around it is not.     *)
(***************************************************************************)

OrderTypes == {"MARKET", "LIMIT", "UNDEFINED"}
TimesInForce == {"UNDEFINED", "GTC", "FOK", "IOC", "GTD"}
ExecutionInstructions == {"PARTICIPATE_DO_NOT_INITIATE", "DO_NOT_INCREASE"}

\* CreateOrder, as far as the encoder reads it.
CreateOrders ==
    [order_type : OrderTypes,
     time_in_force : TimesInForce,
     execution_instructions : SUBSET ExecutionInstructions,
     execution_destination : {"", "RPI"},
     margin_mode : {"UNDEFINED", "ISOLATED", "CROSS", "PORTFOLIO"},
     security_type : {"SPOT", "SWAP"}]

\* trade_mode, and whether stp_mode and test_margin_currency are set.
Settings == [trade_mode : {"cash", "isolated", "cross"}, stp_mode : BOOLEAN, margin_currency : BOOLEAN]

VARIABLES
    settings,
    create_order,
    outcome,     \* of the request: none yet, sent, or why it was not
    messages     \* what was sent

vars == <<settings, create_order, outcome, messages>>

Init ==
    /\ settings \in Settings
    /\ create_order \in CreateOrders
    /\ outcome = "none"
    /\ messages = {}

-----------------------------------------------------------------------------
(* compute_order_attributes.  A type is "" until one is chosen. *)

ByInstructions(create) ==
    IF "PARTICIPATE_DO_NOT_INITIATE" \in create.execution_instructions THEN "post_only" ELSE ""

\* IOC tested as FOK is; IOC whatever the instructions; as in the code.
ByTimeInForceAlike(create) ==
    LET type == ByInstructions(create) IN
    CASE create.time_in_force \in {"UNDEFINED", "GTC"} -> type
      [] create.time_in_force = "FOK" -> IF type # "" THEN "fok" ELSE type
      [] create.time_in_force = "IOC" -> IF type # "" THEN "ioc" ELSE type
      [] OTHER -> "unsupported"

ByTimeInForceFirst(create) ==
    LET type == ByInstructions(create) IN
    CASE create.time_in_force \in {"UNDEFINED", "GTC"} -> type
      [] create.time_in_force = "FOK" -> IF type # "" THEN "fok" ELSE type
      [] create.time_in_force = "IOC" -> "ioc"
      [] OTHER -> "unsupported"

ByTimeInForce(create) ==
    LET type == ByInstructions(create) IN
    CASE create.time_in_force \in {"UNDEFINED", "GTC"} -> type
      [] create.time_in_force = "FOK" -> IF type # "" THEN "fok" ELSE type
      [] create.time_in_force = "IOC" -> IF type = "" THEN "ioc" ELSE type
      [] OTHER -> "unsupported"

\* An order type without a mapping let through; as in the code.
OrdTypeUnchecked(create) ==
    LET type == ByTimeInForce(create) IN
    CASE type # "" -> type
      [] type = "" /\ create.order_type = "MARKET" -> "market"
      [] type = "" /\ create.order_type = "LIMIT" ->
            IF create.execution_destination = "RPI" THEN "rpi" ELSE "limit"
      [] OTHER -> ""

OrdType(create) ==
    LET type == ByTimeInForce(create) IN
    CASE type # "" -> type
      [] type = "" /\ create.order_type = "MARKET" -> "market"
      [] type = "" /\ create.order_type = "LIMIT" ->
            IF create.execution_destination = "RPI" THEN "rpi" ELSE "limit"
      [] OTHER -> "unsupported"

\* The margin mode of the order, or else the trade mode of the settings.
TradeMode(create, s) ==
    CASE create.margin_mode = "ISOLATED" -> "isolated"
      [] create.margin_mode = "CROSS" -> "cross"
      [] OTHER -> s.trade_mode

\* One field at most: that of stp_mode replaces that of the margin currency.
Extras(create, s) ==
    IF s.stp_mode THEN {"stpMode"}
    ELSE IF TradeMode(create, s) = "cross" /\ s.margin_currency THEN {"ccy"}
    ELSE {}

\* A market order has no price, and on SPOT its size is in the base currency.
Fields(create, s) ==
    Extras(create, s) \union
    IF OrdType(create) # "market" THEN {"px"}
    ELSE IF create.security_type = "SPOT" THEN {"tgtCcy"} ELSE {}

Message(create, s) ==
    [ordType |-> OrdType(create),
     reduceOnly |-> "DO_NOT_INCREASE" \in create.execution_instructions,
     tdMode |-> TradeMode(create, s),
     fields |-> Fields(create, s)]

\* The order type is computed before the margin mode is looked at.
BatchOrders ==
    /\ outcome = "none"
    /\ outcome' =
        CASE OrdType(create_order) = "unsupported" -> "not supported"
          [] OrdType(create_order) # "unsupported" /\ create_order.margin_mode = "PORTFOLIO" ->
                "rejected"
          [] OTHER -> "sent"
    /\ messages' = IF outcome' = "sent" THEN {Message(create_order, settings)} ELSE {}
    /\ UNCHANGED <<settings, create_order>>

Next == BatchOrders

Spec == Init /\ [][Next]_vars

-----------------------------------------------------------------------------
(* Properties. *)

\* Type invariant: what is sent has a type the exchange knows, and a trade mode.
TypeOK ==
    /\ settings \in Settings
    /\ create_order \in CreateOrders
    /\ outcome \in {"none", "sent", "not supported", "rejected"}
    /\ messages \subseteq
        [ordType : {"market", "limit", "post_only", "fok", "ioc", "rpi"},
         reduceOnly : BOOLEAN,
         tdMode : {"cash", "isolated", "cross"},
         fields : SUBSET {"px", "tgtCcy", "stpMode", "ccy"}]

\* The table of index.rst (CreateOrder): order type, time in force and instructions, the
\* type sent and reduceOnly.  A blank time in force is UNDEFINED.
Table ==
    {<<"MARKET", "UNDEFINED", {}, "market", FALSE>>,
     <<"LIMIT", "GTC", {}, "limit", FALSE>>,
     <<"LIMIT", "GTC", {"DO_NOT_INCREASE"}, "limit", TRUE>>,
     <<"LIMIT", "GTC", {"PARTICIPATE_DO_NOT_INITIATE"}, "post_only", FALSE>>,
     <<"LIMIT", "FOK", {}, "fok", FALSE>>,
     <<"LIMIT", "IOC", {}, "ioc", FALSE>>}

Follows(row) ==
    /\ create_order.order_type = row[1]
    /\ create_order.time_in_force = row[2]
    /\ create_order.execution_instructions = row[3]
    /\ create_order.execution_destination = ""
    => /\ outcome # "not supported"
       /\ \A m \in messages : <<m.ordType, m.reduceOnly>> = <<row[4], row[5]>>

\* What is sent is what the table says, the row of FOK left to the next property.
Documented == \A row \in Table : row[2] # "FOK" => Follows(row)

\* index.rst: a LIMIT order that is FOK is sent as fok.
DocumentedFillOrKill == \A row \in Table : row[2] = "FOK" => Follows(row)

\* An order that may only add liquidity is sent as such whatever the other attributes,
\* unless it is fill-or-kill, which comes last in the code and wins.
KeepsPassive ==
    /\ "PARTICIPATE_DO_NOT_INITIATE" \in create_order.execution_instructions
    /\ create_order.time_in_force # "FOK"
    => \A m \in messages : m.ordType = "post_only"

=============================================================================

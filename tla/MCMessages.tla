--------------------------- MODULE MCMessages ---------------------------
(***************************************************************************)
(* The parts of the gateway that take one message at a time and share no   *)
(* state, for TLC: each behaviour is one of one of them, with the others   *)
(* left in one of their initial states.                                    *)
(***************************************************************************)
EXTENDS OrderEncoding, OrderAmendments, TradeMessages, Dispatch, Throttle

VARIABLE part   \* the part that this behaviour is about

Parts == {"encoding", "amendments", "trades", "dispatch", "throttle"}

NoOrder ==
    /\ Init
    /\ settings = [trade_mode |-> "cash", stp_mode |-> FALSE, margin_currency |-> FALSE]
    /\ create_order =
        [order_type |-> "LIMIT", time_in_force |-> "GTC", execution_instructions |-> {},
         execution_destination |-> "", margin_mode |-> "UNDEFINED", security_type |-> "SPOT"]

NoStream ==
    /\ DispatchInit
    /\ stream = "StaticData"
    /\ flags = [account |-> FALSE, books_use_public |-> FALSE, books_depth |-> 5,
                allow_unknown_event_types |-> FALSE, retry_logon |-> FALSE]

NoThrottle == ThrottleInit /\ enabled = FALSE

MessagesInit ==
    /\ part \in Parts
    /\ IF part = "encoding" THEN Init ELSE NoOrder
    /\ AmendInit
    /\ TradesInit
    /\ IF part = "dispatch" THEN DispatchInit ELSE NoStream
    /\ IF part = "throttle" THEN ThrottleInit ELSE NoThrottle

MessagesNext ==
    /\ UNCHANGED part
    /\ \/ /\ part = "encoding" /\ Next
          /\ UNCHANGED <<amendVars, tradeVars, dispatchVars, throttleVars>>
       \/ /\ part = "amendments" /\ AmendNext
          /\ UNCHANGED <<vars, tradeVars, dispatchVars, throttleVars>>
       \/ /\ part = "trades" /\ TradesNext
          /\ UNCHANGED <<vars, amendVars, dispatchVars, throttleVars>>
       \/ /\ part = "dispatch" /\ DispatchNext
          /\ UNCHANGED <<vars, amendVars, tradeVars, throttleVars>>
       \/ /\ part = "throttle" /\ ThrottleNext
          /\ UNCHANGED <<vars, amendVars, tradeVars, dispatchVars>>

MessagesSpec ==
    MessagesInit /\ [][MessagesNext]_<<part, vars, amendVars, tradeVars, dispatchVars, throttleVars>>

-----------------------------------------------------------------------------

\* The type invariants of the five parts.
MessagesTypeOK ==
    /\ part \in Parts
    /\ TypeOK
    /\ AmendTypeOK
    /\ TradesTypeOK
    /\ DispatchTypeOK
    /\ ThrottleTypeOK

=============================================================================

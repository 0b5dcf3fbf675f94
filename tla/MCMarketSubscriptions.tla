---------------------- MODULE MCMarketSubscriptions ----------------------
(***************************************************************************)
(* MarketSubscriptions on a small instance: one spot symbol, a swap and a  *)
(* future.                                                                 *)
(***************************************************************************)
EXTENDS MarketSubscriptions

CONSTANTS spot, swap, future

MCSymbols == {spot, swap, future}
MCExtended == {swap, future}

=============================================================================

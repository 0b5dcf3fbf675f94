--------------------------- MODULE MCTimeSeries ---------------------------
(***************************************************************************)
(* TimeSeries on a small instance: two symbols for the queues and messages *)
(* that they share, or one symbol for outages of several minutes.          *)
(***************************************************************************)
EXTENDS TimeSeries

CONSTANT MaxMinutesShared   \* bound: the minute the clock stops at with several symbols

ASSUME SharedAssumption == MaxMinutesShared \in 1 .. MaxMinutes

MCNext == Next /\ (Len(symbols') > 1 => minute' =< MaxMinutesShared)

MCFairSpec == Init /\ [][MCNext]_vars /\ Fairness

=============================================================================

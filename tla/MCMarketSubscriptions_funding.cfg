\* The default settings: a swap or future that a client subscribes first.
SPECIFICATION Spec
CONSTANTS
    spot = spot
    swap = swap
    future = future
    Symbols <- MCSymbols
    Extended <- MCExtended
    MaxSubscriptionsPerStream = 2
    Login = FALSE
    IncludeBadSubscriptions = FALSE
    MaxDisconnects = 0
INVARIANT SwapsHaveFundingRate
CHECK_DEADLOCK FALSE

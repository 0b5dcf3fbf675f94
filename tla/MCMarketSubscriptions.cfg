\* Two streams for three symbols, that log in and are lost twice: symbols become
\* known while a stream is away, logging in, READY with a full queue, or not there.
SPECIFICATION FairSpec
CONSTANTS
    spot = spot
    swap = swap
    future = future
    Symbols <- MCSymbols
    Extended <- MCExtended
    MaxSubscriptionsPerStream = 2
    Login = TRUE
    IncludeBadSubscriptions = FALSE
    MaxDisconnects = 2
INVARIANTS
    TypeOK
    NoDuplicates
    NothingMissing
    WithinLimit
PROPERTY AllSubscribed
\* all symbols are known and subscribed and no connection is lost any more
CHECK_DEADLOCK FALSE

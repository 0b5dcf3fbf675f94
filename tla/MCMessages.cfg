\* Every CreateOrder under every setting; three amendments of an order over a lost
\* connection; every message of up to three trades after every other; every stream under
\* every setting; a throttle that two connections share.
SPECIFICATION MessagesSpec
CONSTANTS
    MaxAmendments = 3
    MaxLost = 1
    TradeSymbols = {"a", "b"}
    MaxStamp = 2
    MaxTrades = 3
    Connections = {c1, c2}
    RetryAfters = {0, 3, 6}
    DEFAULT_BACKOFF = 1
    BLOCKED_BACKOFF = 4
    MaxTime = 5
INVARIANTS
    MessagesTypeOK
    Documented
    KeepsPassive
    OnlyWhatIsAsked
    EachTradeOnce
    OneSymbolOneSummary
    NothingUnexpected
    EventsAreEvents
    SuspensionsHonoured
\* an order is encoded once, and a process may end
CHECK_DEADLOCK FALSE

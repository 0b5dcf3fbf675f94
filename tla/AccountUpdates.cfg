\* Two orders and three lost connections: a session can be cut off with stale
\* orders noted but not queried, or queried but not answered, and another one
\* can then note more.  One fill, executed at any moment: pushed before, while or
\* after a snapshot is on its way, or while the websocket is away.
SPECIFICATION FairSpecUpdates
CONSTANTS
    Orders = {o1, o2}
    TradesLookback = TRUE
    RetryLogon = TRUE
    Asserts = FALSE
    MaxDisconnects = 3
    MaxFills = 1
    TradesLimit = 1
INVARIANTS
    UpdatesTypeOK
    NoFatal
    OneRequestInFlight
    NoStaleOrderForgotten
    PositionCurrent
    FillsDelivered
PROPERTIES
    SessionSpec
    EventuallyReady
\* log::fatal and a redirection end the process
CHECK_DEADLOCK FALSE

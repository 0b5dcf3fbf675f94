\* Two symbols and a minute that ends, or one and four; both connections lost once.  A history
\* holds the open bar and the two before it: an outage may be longer than that.
SPECIFICATION MCFairSpec
CONSTANTS
    Symbols = {s1, s2}
    HistoryLimit = 3
    MaxMinutes = 5
    MaxMinutesShared = 2
    MaxDisconnects = 1
INVARIANTS
    TypeOK
    NoDuplicates
    FreshHistory
    Delivered
PROPERTY EventuallyJoined
\* the clock stops
CHECK_DEADLOCK FALSE

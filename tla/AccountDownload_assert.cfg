\* A debug build.
SPECIFICATION Spec
CONSTANTS
    Orders = {o1}
    TradesLookback = TRUE
    RetryLogon = TRUE
    Asserts = TRUE
    MaxDisconnects = 1
INVARIANT NeverUndefined
CHECK_DEADLOCK FALSE

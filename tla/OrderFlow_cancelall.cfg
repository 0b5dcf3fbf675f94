\* CancelAllOrders after orders that the exchange has acknowledged or not.
SPECIFICATION Spec
CONSTANTS
    Orders = {o1, o2}
    MaxRequests = 3
    MaxDisconnects = 0
PROPERTY
    CancelsEveryOrder
\* nothing may be left to do
CHECK_DEADLOCK FALSE

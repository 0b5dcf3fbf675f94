\* Two orders and a lost connection; three requests, the last of which may cancel both.
SPECIFICATION Spec
CONSTANTS
    Orders = {o1, o2}
    MaxRequests = 3
    MaxDisconnects = 1
SYMMETRY OrderSymmetry
INVARIANTS
    InSync
    AllAnswered
    Truthful
PROPERTIES
    LifecycleSpec
\* nothing may be left to do
CHECK_DEADLOCK FALSE

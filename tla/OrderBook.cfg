\* Two books of two levels that change twice, and a connection that is lost twice:
\* before, between and after a snapshot and the updates that follow it.
SPECIFICATION FairSpec
CONSTANTS
    Symbols = {s1, s2}
    Levels = {l1, l2}
    BooksDepth = 400
    Vip = FALSE
    MaxSequence = 3
    MaxWire = 2
    MaxDisconnects = 2
INVARIANTS
    TypeOK
    InSync
    NoGap
PROPERTIES
    EventuallyCurrent
\* the books do not change for ever
CHECK_DEADLOCK FALSE

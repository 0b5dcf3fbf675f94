\* The books5 channel.
SPECIFICATION FairSpec
CONSTANTS
    Symbols = {s1}
    Levels = {l1, l2}
    BooksDepth = 5
    Vip = FALSE
    MaxSequence = 3
    MaxWire = 2
    MaxDisconnects = 0
INVARIANT SnapshotFeed
CHECK_DEADLOCK FALSE

\* Three lost connections: the websocket comes back while a download is in flight, and
\* the HTTP connection is lost, once or more, with some, all or none answered.
\* The instrument is listed and changed once, at any moment of that.
SPECIFICATION FairSpecUpdates
CONSTANTS
    Login = TRUE
    MaxDisconnects = 3
    InstrumentType = "SWAP"
    MaxVersions = 2
INVARIANTS
    UpdatesTypeOK
    FlagsMatchRequests
    StatusCurrent
PROPERTIES
    CommittedWhenComplete
    EventuallyCommitted
\* nothing is left to do when the instruments are downloaded
CHECK_DEADLOCK FALSE

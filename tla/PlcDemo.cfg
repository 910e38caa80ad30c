SPECIFICATION DemoSpec
CONSTANTS
    Position <- MCPosition
    Rate <- MCRate
    NonFinite = NonFinite
    NoValue = NoValue
    Offer <- MCOffer
    Heartbeat <- MCHeartbeat
    PollPeriod = 20
    Timeout = 100
INVARIANTS
    ShowsDocumentedSequence
    FaultsInTime
CHECK_DEADLOCK FALSE

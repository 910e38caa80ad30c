SPECIFICATION FairSpec
CONSTANTS
    Position <- MCPosition
    Rate <- MCRate
    NonFinite = NonFinite
    NoValue = NoValue
    Offer <- MCOffer
    Heartbeat = {1, 2}
    PollPeriod = 2
    Timeout = 3
INVARIANTS
    UnattendedBounded
    NoFalseAlarm
    UnheardIsFault
PROPERTIES
    FaultReported

SPECIFICATION Spec
CONSTANTS
    Position <- MCPosition
    Rate <- MCRate
    NonFinite = NonFinite
    NoValue = NoValue
    Offer <- GoOrReset
    Heartbeat = {1, 2, 3, 4}
    CommandData <- MCCommandData
    StatusData <- AnyStatusData
    Report <- AnyStatus
    Timeout = 3
    MaxUnattended = 9
INVARIANTS
    RunningIsSupervised
    UnattendedBounded

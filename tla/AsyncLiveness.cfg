SPECIFICATION FairSpec
CONSTANTS
    Position <- MCPosition
    Rate <- MCRate
    NonFinite = NonFinite
    NoValue = NoValue
    Offer <- HaltOrResume
    Heartbeat = {1, 2}
    CommandData <- MCCommandData
    StatusData <- AnyStatusData
    Report <- AnyStatus
    Timeout = 3
    MaxUnattended = 0
PROPERTIES
    EmergencyStopArrives
    Recovers

SPECIFICATION FairSpec
CONSTANTS
    MaxHeartbeat = 2
    CommandData <- MCCommandData
    StatusData <- MCStatusData
    NoValue = NoValue
INVARIANTS
    IoNeedsSession
PROPERTIES
    StatusInOrder
    CommandsInOrder
    StopReturns
    StatusArrives
    CommandArrives

SPECIFICATION PacedSpec
CONSTANTS
    MaxHeartbeat = 2
    CommandData <- MCCommandData
    StatusData <- MCStatusData
    NoValue = NoValue
INVARIANTS
    ReadsArePaced

SPECIFICATION RunSpec
CONSTANTS
    Position <- MCPosition
    Rate <- MCRate
    NonFinite = NonFinite
    OptionSet <- MCOptionSet
    Period = 4
    Work = {1, 9}
    Callback = {0, 1}
    MaxLatency = 1
    Usual = 2
    Worst = 10
    Command <- MCCommand
    ExternalFault <- MCExternalFault
    FrequencyHz = 1
    PositionTolerance = 1
INVARIANTS
    OnSchedule
    OutcomeIsTrue
PROPERTIES
    OneMotion
CHECK_DEADLOCK FALSE

SPECIFICATION AdaptersSpec
CONSTANTS
    MaxVersion = 2
    NoCommand = NoCommand
    Base = 4
    NoValue = NoValue
    S7Command <- MCS7Command
    S7Status <- MCS7Status
INVARIANTS
    HeartbeatCommits
    StatusIntact
PROPERTIES
    TornForward
    RepeatIsWhole
    CommandIntact

SPECIFICATION FairSpec
CONSTANTS
    Position <- MCPosition
    Rate <- MCRate
    NonFinite = NonFinite
    Command <- MCCommand
    ExternalFault <- MCExternalFault
    FrequencyHz = 0
    PositionTolerance = 1
INVARIANTS
    FaultConsistent
    MotionSetUp
PROPERTIES
    TorqueNeedsPermission
    LatchHolds
    TargetPinned
    NoReferenceJump
    CompletesAtProfileEnd
    Arrives
    ImplementsKernel

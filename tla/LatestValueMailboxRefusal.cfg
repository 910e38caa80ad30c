SPECIFICATION Spec
CONSTANTS
    w1 = w1
    w2 = w2
    v1 = v1
    v2 = v2
    Value <- MCValue
    NoValue = NoValue
    Writer <- MCOneWriter
    Reader = Reader
    NoThread = NoThread
    MaxSequence = 2
INVARIANTS
    PublishNeverRefused

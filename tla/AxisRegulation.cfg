SPECIFICATION FairSpec
CONSTANTS
    Position <- MCPosition
    Rate <- MCRate
    NonFinite = NonFinite
    Dt = 2
    Kp = 1
    Ki = 1
    Kd = 3
    MinimumOutput <- MCMinimumOutput
    MaximumOutput = 12
    Motion <- MCMotion
    Rest <- MCRest
    MaxLag = 2
    MaxError = 14
INVARIANTS
    NoWindup
PROPERTIES
    KeepsLimits
    ImplementsOpenTrajectory
    ProfileEnds
    SaturationEnds

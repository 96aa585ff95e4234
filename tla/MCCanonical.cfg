SPECIFICATION Spec
CONSTANTS
    NaN = NaN
    Inf = Inf
    Fine = 8
    PositionScale = 2
    VelocityScale = 3
    IMax = 7
    Scale = 5
    Grid = 16
    Tiny = 13
    LeastStep = 3
    LeastNormal = 9
    Overflow = 350
    Observations <- MCObservations
    NotFinite <- MCNotFinite
CHECK_DEADLOCK FALSE
INVARIANTS
    ErrorWithinHalfStep
    SameRotationSameIdentity
    HemisphereUpToRounding
PROPERTIES
    RecanonicalizeIsIdentity

SPECIFICATION Spec
CONSTANTS
    ac = ac
    uav = uav
    NoSignature = NoSignature
    NoTrack = NoTrack
    NoEvidence = NoEvidence
    PriorVar = 8
    ConflictSigma = 3
    Subjects <- MCSubjects
    Dims <- MCDims
    Noise <- MCNoise
    Measured <- MCMeasured
    Inputs <- MCInputs
INVARIANTS
    TypeOK
    LastEvidenceBacksTrack
    ConflictPairsSound
    FlaggedOncePerRole
    CounterCountsObservations
PROPERTIES
    NothingForgotten
    OneObservationPerUpdate
    BeliefIsFunctionOfSet

SPECIFICATION SimSpec
CONSTANTS
    ac = ac
    NoSignature = NoSignature
    NoTrack = NoTrack
    NoEvidence = NoEvidence
    Nothing = Nothing
    PriorVar = 8
    ConflictSigma = 3
    MaxEvents = 2
    MaxReplayed = 2
    MayLose = FALSE
    MayDuplicate = FALSE
    MayReorder = FALSE
    Streams <- NoStream
    Events <- FingerprintEvents
    Beside <- MCBeside
    Subjects <- MCSubjects
    Dims <- MCDims
    Noise <- MCNoise
    Measured <- MCMeasured
    MessageOrder <- MCNames
    NodeOrder <- MCNames
    KeyOrder <- MCNames
    SubjectOrder <- MCSubjectOrder
CHECK_DEADLOCK FALSE
INVARIANTS
    FingerprintSeparates

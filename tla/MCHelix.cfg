SPECIFICATION Spec
CONSTANTS
    ac = ac
    NoSignature = NoSignature
    NoTrack = NoTrack
    NoEvidence = NoEvidence
    PriorVar = 8
    ConflictSigma = 3
    Subjects <- MCSubjects
    Dims <- MCDims
    Noise <- MCNoise
    Measured <- MCMeasured
    Workloads <- MCWorkloads
CHECK_DEADLOCK FALSE
INVARIANTS
    CustodyReadsBack
    LineageReadsBack
    LatestBeliefIsRecognizable
PROPERTIES
    GraphIsEvidenceStore

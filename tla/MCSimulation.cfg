SPECIFICATION SimSpec
CONSTANTS
    ac = ac
    NoSignature = NoSignature
    NoTrack = NoTrack
    NoEvidence = NoEvidence
    Nothing = Nothing
    PriorVar = 8
    ConflictSigma = 3
    MaxEvents = 4
    MaxReplayed = 9
    MayLose = TRUE
    MayDuplicate = TRUE
    MayReorder = TRUE
    Streams <- MCStreams
    Events <- MCEvents
    Beside <- MCBeside
    Subjects <- MCSubjects
    Dims <- MCDims
    Noise <- MCNoise
    Measured <- MCMeasured
    MessageOrder <- MCMessages
    NodeOrder <- MCNames
    KeyOrder <- MCNames
    SubjectOrder <- MCSubjectOrder
CHECK_DEADLOCK FALSE
INVARIANTS
    StateIsLastWrite
    VerdictIsAboutTheLog
    BeliefsIgnoreLogOrder
    CopiesAccountedFor
    LogExplainsArrivals
    ReplayKnowsWhatArrived

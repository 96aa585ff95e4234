SPECIFICATION FairSpec
CONSTANTS
    ac = ac
    NoSignature = NoSignature
    NoTrack = NoTrack
    NoEvidence = NoEvidence
    ZeroKey = ZeroKey
    Domain = "aviation"
    Nodes = {"A", "B"}
    PriorVar = 8
    ConflictSigma = 3
    Expiry = 9
    MayLose = FALSE
    MayDuplicate = TRUE
    MaxHops = 1
    Subjects <- MCSubjects
    Segments <- MCSegments
    Dims <- MCDims
    Noise <- MCNoise
    Measured <- MCMeasured
    Decodable <- MCDecodable
    Uplinks <- MCUplinks
    Links <- BothWays
    Sightings <- TwoSightings
CHECK_DEADLOCK FALSE
PROPERTIES
    EverySightingArrives
    NodesAgreeInTheEnd

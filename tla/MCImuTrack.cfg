SPECIFICATION Spec
CONSTANTS
    ac = ac
    NoSignature = NoSignature
    NoEvidence = NoEvidence
    Imu = Imu
    MaxPredicts = 2
    Subjects <- MCSubjects
    Decodable <- MCDecodable
    Inputs <- MCInputs
INVARIANTS
    CountersMatchFilter
    ConflictPairsChain

SPECIFICATION WireSpec
CONSTANTS
    ac = ac
    s1 = s1
    NoSignature = NoSignature
    ZeroKey = ZeroKey
    SenderDomain = "aviation"
    MaxDamage = 3
    Subjects <- MCSubjects
    Segments <- MCSegments
    Decodable <- MCDecodable
    Originals <- MCOriginals
    OtherPayloads <- MCOtherPayloads
    OtherBytes <- MCOtherBytes
CHECK_DEADLOCK FALSE
INVARIANTS
    RoundTrip
    LegacyDegradesSafely
    VerifiedIsIntact

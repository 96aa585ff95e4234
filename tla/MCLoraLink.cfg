SPECIFICATION LinkSpec
CONSTANTS
    ac = ac
    NoSignature = NoSignature
    MaxHops = 1
    MaxPayload = 4
    MaxFragments = 3
    PerFragment = 3
    Subjects <- MCSubjects
    Outgoing <- MCOutgoing
    FrameIds = {1, 2}
    MaxSends = 2
    MaxHeard = 4
CHECK_DEADLOCK FALSE
INVARIANTS
    FrameOrNothing
    VerifiedFrameWasSent

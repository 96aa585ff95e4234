SPECIFICATION FairSpec
CONSTANTS
    SendMax = 3
    RecvMax = 2
    Window = 3
    Tasks = {1, 2}
    Messages <- MCMessages
    BodyOf <- MCBodyOf
    Workloads <- MCWorkloads
CHECK_DEADLOCK FALSE
INVARIANTS
    OkMeansSent
    ErrorsAreExplained
PROPERTIES
    DecodersAgree
    AcceptedReturns

SPECIFICATION ClientFairSpec
CONSTANTS
    Threshold = 3
    MaxRetries = 2
INVARIANTS
    ClientTypeOK
    OpenAtThreshold
    CountBounded
    RejectedTicketNotResent
    SuccessIsReal
PROPERTIES
    OperationsEnd

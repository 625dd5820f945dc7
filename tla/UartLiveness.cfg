SPECIFICATION FairSpec
CONSTANTS
    Callers = {c1, c2}
    MaxMsgs = 2
    MaxPk = 1
    QueueLen = 1
    HeaderBits = 3
    MaxTries = 1
    ClaimIsAtomic = FALSE
    PatientCallers = TRUE
    TimelyAck = TRUE
    FastCallback = FALSE
CHECK_DEADLOCK FALSE
PROPERTIES CallReturns MessageLeaves

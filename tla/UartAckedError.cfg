SPECIFICATION Spec
CONSTANTS
    Callers = {c1}
    MaxMsgs = 1
    MaxPk = 1
    QueueLen = 2
    HeaderBits = 3
    MaxTries = 3
    ClaimIsAtomic = TRUE
    PatientCallers = TRUE
    TimelyAck = TRUE
    FastCallback = TRUE
CHECK_DEADLOCK FALSE
PROPERTIES ErrorOnlyWithoutAck

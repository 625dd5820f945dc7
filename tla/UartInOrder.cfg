SPECIFICATION Spec
CONSTANTS
    Callers = {c1, c2}
    MaxMsgs = 2
    MaxPk = 2
    QueueLen = 2
    HeaderBits = 3
    MaxTries = 1
    ClaimIsAtomic = FALSE
    PatientCallers = FALSE
    TimelyAck = FALSE
    FastCallback = FALSE
CHECK_DEADLOCK FALSE
SYMMETRY CallerSymmetry
PROPERTIES InOrder

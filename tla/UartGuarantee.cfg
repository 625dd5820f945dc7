SPECIFICATION Spec
CONSTANTS
    Callers = {c1, c2}
    MaxMsgs = 3
    MaxPk = 3
    QueueLen = 5
    HeaderBits = 3
    MaxTries = 3
    ClaimIsAtomic = TRUE
    PatientCallers = TRUE
    TimelyAck = TRUE
    FastCallback = TRUE
CHECK_DEADLOCK FALSE
SYMMETRY CallerSymmetry
INVARIANTS TypeOK CallbackReadsWhole BufferFits OkMeansReceived SemaphoresSound

SPECIFICATION Spec
CONSTANTS
    Tasks = {c1}
    Reader = rd
    MinTemp = 1
    MaxTemp = 1
    Top = 2
    Nodes = {b1, b2}
    Callers = 2
    MaxMsgs = 3
    MaxPk = 2
    QueueLen = 2
    Boards = {b1, b2}
    Fds = {1, 2}
    MaxCounter = 10
    Walked = 3
    Patience = 4
    DEV_NUM = 2
    MaxFunctions = 12
    Limit = 2
    LogQueueLen = 2
    MaxLines = 9
INVARIANTS TypeOK OutputsFollowStatus CallbackReadsWhole GivenMeansSent SocketTellsBoard ErrorsAreSilence WalksMissNothing RecentIsKept
PROPERTIES InOrder
SYMMETRY BoardSymmetry
CHECK_DEADLOCK FALSE

SPECIFICATION MCSpec
SYMMETRY LineSymmetry
CONSTANTS
    NoKey = NoKey
    a1 = a1
    a2 = a2
    b1 = b1
    a = a
    b = b
    Keys = {a1, a2, b1}
    Boards = {a, b}
    BoardOf <- Owner
    tcp = tcp
    rs485 = rs485
    t1 = t1
    Lines = {tcp, rs485}
    Tasks = {t1}
    Locals = 1
    MAX_DEVICE = 4
    MaxNumber = 4
INVARIANTS TypeOK OneEntryPerFunction DistinctNumbers AckedFunctionIsListed

SPECIFICATION Spec
CONSTANTS
    Callers = {c1, c2}
    NOuts = 2
    MaxCounter = 1
    MaxWire = 1
    PortLists <- MCPortLists
    Devices = {d1, d2}
    Tasks = {c1}
    EspTimer = et
    DEBOUNCE_TICKS = 5
    SHORT_TICKS = 18
    LONG_TICKS = 50
INVARIANTS TypeOK OutputsFollowStatus LimitedIsTimed CoilReleased DirectionsExclusive EventsTellButton 

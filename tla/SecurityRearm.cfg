SPECIFICATION Spec
CONSTANTS
    door = door
    smoke = smoke
    s1 = s1
    Sensors = {door, smoke}
    Emergency = {smoke}
    Sirens = {s1}
    List <- PortList
    Commanders = {c1}
    Overlaps = {"blocked"}
    Requests <- OneHand
    c1 = c1
    c2 = c2
    Cancellable = {}
INVARIANT CountdownStarts

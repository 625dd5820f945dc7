SPECIFICATION FairSpec
CONSTANTS
    door = door
    smoke = smoke
    s1 = s1
    Sensors = {door, smoke}
    Emergency = {smoke}
    Sirens = {s1}
    List <- PortList
    Commanders = {c1, c2}
    Overlaps = {"blocked"}
    Requests <- TwoHands
    c1 = c1
    c2 = c2
    Cancellable = {s1}
INVARIANTS TypeOK NoDeafSensor ArmedOnRequest CountdownIsTimed AlarmSounds
PROPERTY CountdownEnds

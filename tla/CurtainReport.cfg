SPECIFICATION Spec
CONSTANTS
    Buttons <- MCButtons
    Side <- MCSide
    First = "UP"
    Commanders = {c1}
    Overlaps = {"never"}
INVARIANT ActionReported

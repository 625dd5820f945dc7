SPECIFICATION FairSpec
CONSTANTS
    Buttons <- MCButtons
    Side <- MCSide
    First = "UP"
    Commanders = {c1}
    Overlaps = {"never", "reports", "blocked"}
INVARIANTS TypeOK Interlock RunIsSupervised StatusTellsMotor
PROPERTIES CommandReported MotorStops

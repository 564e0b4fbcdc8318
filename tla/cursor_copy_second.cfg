SPECIFICATION Spec
CONSTANTS
    MaxFrames = 8
    Frames = {"T", "D", "C", "H", "d", "c", "Z"}
INVARIANTS
    WalkSeesCopyRows
CHECK_DEADLOCK FALSE

SPECIFICATION FairSpec
CONSTANTS
    MaxFrames = 7
    Frames = {"T", "D", "C", "H", "d", "c", "E", "G", "Z", "N", "X"}
INVARIANTS
    RowsInOrder
    TagOfCurrentSet
    WalkSeesRows
PROPERTIES
    RowsOfCurrentSet
    FalseIsFinal
    WalkEnds
CHECK_DEADLOCK FALSE

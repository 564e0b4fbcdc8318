SPECIFICATION Spec
CONSTANTS
    Cursors = {c1, c2}
    Slots = {s1, s2}
    Sets = 2
    Rows = 2
    MaxReaders = 2
INVARIANTS
    CurrentReadable
    DetachedKeepsValue
    MovedCursorContinues
    OwnedOnce
CHECK_DEADLOCK FALSE

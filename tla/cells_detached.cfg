SPECIFICATION Spec
CONSTANTS
    Cursors = {c1}
    Slots = {s1}
    Sets = 1
    Rows = 1
    MaxReaders = 1
INVARIANTS
    DetachedReadable
CHECK_DEADLOCK FALSE

SPECIFICATION FairSpec
CONSTANTS
    MaxFrames = 5
    Size = 2
    Frames = {"T", "D", "C", "E", "G", "Z", "A", "N", "Rok", "Rask", "Rfin", "Rbad", "X"}
    Rounds = {"startup", "query", "wait"}
INVARIANTS
    StopsWithBackend
    BytesAccounted
    SuccessIsSettled
PROPERTIES
    NoMutualWait
CHECK_DEADLOCK FALSE

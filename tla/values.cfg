CONSTANTS
    HexBase = 2
    MicrosPerSecond = 100
    FractionDigits = 2
    SecondsPerMinute = 2
    Epoch2000 = 3
    Int16s <- MCInt16s
    Int32s <- MCInt32s
    Int64s <- MCInt64s
    Micros <- MCMicros
    Zones <- MCZones
    Chars = {"q", "b", ",", "x"}
    Names = {"s"}
    Words = 4
    MaxLength = 2
    MaxParams = 5
    MaxRequests = 2
SPECIFICATION Spec
INVARIANTS ReadsWhatWasGiven DatetimeIsUtc TagTells
PROPERTIES FailsWithCause
CHECK_DEADLOCK FALSE

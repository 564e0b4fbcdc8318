SPECIFICATION FairSpec
CONSTANTS
    Kinds = {"query", "copyData", "copyDone", "copyFail", "wait", "disconnect"}
    MaxTasks = 5
    MaxSessions = 3
    RetryMax = 1
    Startups = {"ready", "error", "unsupported"}
INVARIANTS
    Inductive
    NoSqlOnReplacement
    ProtocolStateAgrees
    LastTxConfirmed
    NoPoisonedSocket
    CancelKeyCurrent
    OriginalSession
    AtMostOnce
PROPERTIES
    IdleLossReconnects
    RefinesLogicalSession
    TaskCompletes

CONSTANTS
    Tasks = {t1}
    Kinds = {"query"}
    Schemes = {"postgresql"}
    SslModes = {"require"}
    MaxConns = 2
    MaxOpen = 1
    RetryMax <- RetryOnce
    Pid <- DescendingPids
    Retried = {}
SPECIFICATION Spec
INVARIANT AnswerHasReader

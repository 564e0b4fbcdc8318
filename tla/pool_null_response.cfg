CONSTANTS
    Tasks = {t1}
    Kinds = {"disconnect"}
    Schemes = {"postgresql"}
    SslModes = {"disable"}
    MaxConns = 2
    MaxOpen = 1
    RetryMax <- RetryOnce
    Pid <- DescendingPids
    Retried = {}
SPECIFICATION Spec
INVARIANT NoNullResponse

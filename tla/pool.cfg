CONSTANTS
    Tasks = {t1, t2}
    Kinds = {"query", "disconnect", "cancel"}
    Schemes = {"postgresql", "postgresqls"}
    SslModes = {"prefer", "require"}
    MaxConns = 3
    MaxOpen = 2
    RetryMax <- RetryOnce
    Pid <- DescendingPids
    Retried = {t1}
SPECIFICATION FairSpec
INVARIANTS NoForeignTransaction StartupInsideTls ResetHasCause
PROPERTIES CancelNamesRunning OkMeansRan PoolTaskCompletes

\* gRPC watcher retry loop, long enough to reach the 15 s cap, over every
\* TLS mode, flag state and endpoint shape.
CONSTANTS
    MaxRetries = 9
    MaxItems = 1
    Schemes = {"", "http://", "https://"}
    Hosts = {"h", ""}
    FileStates = {"none", "unreadable", "ok"}
    NoDomain = NoDomain
    NoError = NoError

SPECIFICATION Spec

INVARIANT TypeOK
INVARIANT RetrySchedule
INVARIANT StaleStatusOnlyAfterCleanEnd

\* Retries are bounded in the model; a watcher at the bound stops there.
CHECK_DEADLOCK FALSE

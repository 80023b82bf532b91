\* A watcher whose TLS files are missing, against spec 7 (startup abort).
CONSTANTS
    MaxRetries = 9
    MaxItems = 1
    Schemes = {"", "http://", "https://"}
    Hosts = {"h", ""}
    FileStates = {"none", "unreadable", "ok"}
    NoDomain = NoDomain
    NoError = NoError

SPECIFICATION Spec

INVARIANT StartupErrorsAbort

\* Retries are bounded in the model; a watcher at the bound stops there.
CHECK_DEADLOCK FALSE

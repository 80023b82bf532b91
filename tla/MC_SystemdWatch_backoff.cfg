\* Spec 4.5 and 5: the systemd watcher resets its backoff after a successful bus connection.
CONSTANTS
    MaxRetries = 7
    MaxChanges = 2
    Units <- MC_Units

SPECIFICATION Spec

INVARIANT RetrySchedule


\* Retries are bounded in the model; a watcher at the bound stops there.
CHECK_DEADLOCK FALSE

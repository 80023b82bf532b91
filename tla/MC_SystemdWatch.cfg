\* systemd watcher loop: every error path, the end of the signal stream, and the unit changing under the watcher.
CONSTANTS
    MaxRetries = 7
    MaxChanges = 2
    Units <- MC_Units

SPECIFICATION Spec

INVARIANT TypeOK
INVARIANT CaughtUpWhileSubscribed

\* Retries are bounded in the model; a watcher at the bound stops there.
CHECK_DEADLOCK FALSE

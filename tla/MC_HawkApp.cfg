\* Liveness engine with the defaults stale 3 s / dead 5 s and kv overrides.
CONSTANTS
    NoTs = NoTs
    NoTtl = NoTtl
    Keys <- MC_Keys
    RawLevels <- MC_RawLevels
    TsChoices <- MC_TsChoices
    TtlChoices <- MC_TtlChoices
    StaleS = 3
    DeadS = 5
    TailSize = 1
    MaxTime = 6
    MaxMsgs = 2
    MaxRows = 200

SPECIFICATION Spec

INVARIANT TypeOK
INVARIANT TailNewestFirst
PROPERTY LivenessMonotone
INVARIANT HeaderNotAheadOfTable
INVARIANT TableSortedWhenClockStill

\* The viewer runs until the user quits; the bounds on time and messages end behaviours.
CHECK_DEADLOCK FALSE

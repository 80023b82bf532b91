\* Viewer pipeline: both --transform modes, two source lines, one bad child line.
SPECIFICATION Spec
CONSTANTS
    Strict = FALSE
    MaxSrc = 2
    MaxGarbage = 1
INVARIANT TypeOK
PROPERTY NoSilentLoss
\* The viewer's threads block on their channels once the input is drained.
CHECK_DEADLOCK FALSE

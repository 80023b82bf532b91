\* Spec 4.8: a failed transform shows up as a fail-level frame in the UI.
SPECIFICATION Spec
CONSTANTS
    Strict = FALSE
    MaxSrc = 2
    MaxGarbage = 1
INVARIANT TransformFailureInBand
CHECK_DEADLOCK FALSE

\* HawkFrame line round trip over three hops (hawkd, viewer, awk bridge).
SPECIFICATION Spec
CONSTANTS
    MaxWire = 5
    Hops = 3
INVARIANT RoundTripExact
INVARIANT RelayStable
\* A frame's path ends after its last parse.
CHECK_DEADLOCK FALSE

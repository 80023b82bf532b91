\* Fan-out of records from an ingest connection and the stdin source to two broadcast clients.
CONSTANTS
    i1 = i1
    i2 = i2
    sin = sin
    c1 = c1
    c2 = c2
    NoSub = NoSub
    Producers <- MC_StdinProducers
    StdinProducer = sin
    Subscribers <- MC_Subscribers
    Strict = FALSE
    Banner = TRUE
    MaxLines = 1
    Cap <- MC_Cap
    LineShapes <- MC_Lines

SPECIFICATION Spec

INVARIANT TypeOK
INVARIANT FanOutNoGap
PROPERTY EventualDelivery
PROPERTY BroadcastRefined

\* hawkd never exits: once input ends, its loops block on accept() and recv().
CHECK_DEADLOCK FALSE

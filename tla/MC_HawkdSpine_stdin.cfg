\* Spec 4.4: the stdin source has the same semantics as an ingest handler, so
\* each malformed stdin line should be reported as a RECEIPT_EVENT record.
\* Malformed lines are short or ASCII here, so only the stdin source differs.
CONSTANTS
    i1 = i1
    i2 = i2
    sin = sin
    c1 = c1
    c2 = c2
    NoSub = NoSub
    Producers <- MC_StdinProducers
    StdinProducer = sin
    Subscribers <- MC_Subscribers
    Strict = FALSE
    Banner = TRUE
    MaxLines = 1
    Cap <- MC_Cap
    LineShapes <- MC_ShortLines

SPECIFICATION Spec

INVARIANT MalformedReported

CHECK_DEADLOCK FALSE

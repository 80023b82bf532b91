\* Spec 4.4 and 7: an ingest handler sends a RECEIPT_EVENT for every malformed
\* line and terminates only in strict mode.  Two ingest handlers, non-strict,
\* whose malformed lines may be longer than the clip and hold multi-byte chars.
CONSTANTS
    i1 = i1
    i2 = i2
    sin = sin
    c1 = c1
    c2 = c2
    NoSub = NoSub
    Producers <- MC_Producers
    StdinProducer = sin
    Subscribers <- MC_Subscribers
    Strict = FALSE
    Banner = TRUE
    MaxLines = 1
    Cap <- MC_Cap
    LineShapes <- MC_Lines

SPECIFICATION Spec

INVARIANT MalformedReported

CHECK_DEADLOCK FALSE

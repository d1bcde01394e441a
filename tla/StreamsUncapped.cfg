\* A stream without a cap: the data of create_stream_mandate is too short for
\* the place the interval is written to.
SPECIFICATION StreamsSpec
CONSTANTS
    Rates = {1, 2}
    Caps = {3, NoCap}
    MinSettle = 1
    MaxStreamTime = 3
    MaxStreamTxs = 3
    NoCap = NoCap
INVARIANT CapIsOptional
CHECK_DEADLOCK FALSE

\* The config cache: three calls, one change of the config.  The sender: two
\* calls, blockhashes that last two blocks, two looks for a new table.
\* Fairness.
SPECIFICATION Spec
CONSTANTS
    Calls = {k1, k2, k3}
    MaxVersion = 1
    None = None
    Sends = {c1, c2}
    Validity = 2
    MaxTries = 2
    Helius = TRUE
    NoTable = NoTable
INVARIANTS
    TypeOK
    LoadsShared
    RefreshIsFresh
    StaleOnlyAfterOverlap
    OutcomeIsTrue
    OneConnection
    TableUsable
PROPERTIES
    FailureIsNotCached
    CallsReturn
    CallsEnd
\* Every call may have ended.
CHECK_DEADLOCK FALSE

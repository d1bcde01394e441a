\* Two instances, two calls, every fault. A transaction that cannot
\* be read is one more that is not verified: "lag" covers it.
SPECIFICATION Spec
CONSTANTS
    Nonces = {n1, n2}
    Servers = {s1, s2}
    Fetches = {f1, f2}
    Handlers = {h1, h2}
    Ttl = 1
    MaxTime = 2
    Faults = {"replay", "restart", "lag", "drop", "clock", "share"}
    ClientCommitment = "processed"
    Versioned = {}
    None = None
SYMMETRY Symmetry
VIEW AnswersAside
INVARIANTS
    TypeOK
    AtMostOnce
PROPERTIES
    ImplementsPaidService
    BurnedOnlyByService
    CachesStayPruned
\* The clock stops at MaxTime and every call may have ended.
CHECK_DEADLOCK FALSE

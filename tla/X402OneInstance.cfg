\* One instance, no fault but duplicated requests; the payment of
\* f2 comes back as a MessageV0; fairness.
SPECIFICATION FairSpec
CONSTANTS
    Nonces = {n1, n2}
    Servers = {s1}
    Fetches = {f1, f2}
    Handlers = {h1, h2, h3}
    Ttl = 2
    MaxTime = 3
    Faults = {"replay"}
    ClientCommitment = "confirmed"
    Versioned = {f2}
    None = None
INVARIANTS
    RefusalHasCause
PROPERTIES
    PaidIsServed
\* The clock stops at MaxTime and every call may have ended.
CHECK_DEADLOCK FALSE

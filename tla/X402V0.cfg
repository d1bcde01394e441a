\* One call that pays with VelaClient.agentPull, whose V0 transaction the
\* Connection of the one instance returns as a MessageV0; fairness.
SPECIFICATION FairSpec
CONSTANTS
    Nonces = {n1}
    Servers = {s1}
    Fetches = {f1}
    Handlers = {h1}
    Ttl = 2
    MaxTime = 3
    Faults = {}
    ClientCommitment = "confirmed"
    Versioned = {f1}
    None = None
PROPERTIES
    RetryIsServed
\* The clock stops at MaxTime and the call may have ended.
CHECK_DEADLOCK FALSE

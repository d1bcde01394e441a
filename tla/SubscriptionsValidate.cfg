\* One subscriber, no fault.
SPECIFICATION Spec
CONSTANTS
    Subscribers = {s1}
    Calls = {c1}
    MaxMandates = 1
    StrictKeeper = TRUE
    Faults = {}
    Admin = Admin
    None = None
INVARIANTS
    SubscribedIsDetected
\* Every call may have ended.
CHECK_DEADLOCK FALSE

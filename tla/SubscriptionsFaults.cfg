\* Three calls, every fault, a lenient keeper.
SPECIFICATION Spec
CONSTANTS
    Subscribers = {s1, s2}
    Calls = {c1, c2, c3}
    MaxMandates = 2
    StrictKeeper = FALSE
    Faults = {"rpc", "drop", "keeper", "config"}
    Admin = Admin
    None = None
SYMMETRY Symmetry
INVARIANTS
    TypeOK
    OneMandatePerCall
    LoserHasRival
    ScheduledExists
\* Every call may have ended.
CHECK_DEADLOCK FALSE

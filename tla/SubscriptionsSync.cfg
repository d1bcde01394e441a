\* Four calls, no fault of the keeper; it refuses a DELETE for a schedule it
\* does not have.
SPECIFICATION Spec
CONSTANTS
    Subscribers = {s1}
    Calls = {c1, c2, c3, c4}
    MaxMandates = 1
    StrictKeeper = TRUE
    Faults = {"rpc", "drop"}
    Admin = Admin
    None = None
SYMMETRY Symmetry
INVARIANTS
    NoSilentDivergence
\* Every call may have ended.
CHECK_DEADLOCK FALSE

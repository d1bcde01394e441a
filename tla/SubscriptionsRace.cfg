\* No fault at all; the keeper answers "ok" to every DELETE.
SPECIFICATION Spec
CONSTANTS
    Subscribers = {s1}
    Calls = {c1, c2}
    MaxMandates = 1
    StrictKeeper = FALSE
    Faults = {}
    Admin = Admin
    None = None
INVARIANTS
    NoSilentDivergence
\* Every call may have ended.
CHECK_DEADLOCK FALSE

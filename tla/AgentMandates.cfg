\* One call, three transactions of others.
SPECIFICATION Spec
CONSTANTS
    s1 = s1
    None = None
    Services = {s1}
    Window = 2
    Offers <- MCOffers
    Amounts = {1, 2}
    MaxBalance = 2
    MaxClock = 3
    MaxWrites = 3
INVARIANTS
    TypeOK
PROPERTIES
    ValidatedIsAccepted
    RefusalIsRight
    AffordableUnlessUnseen
    PreviewComesTrue
\* The call may have ended, and the bounds been reached.
CHECK_DEADLOCK FALSE

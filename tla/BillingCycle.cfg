\* A keeper whose clock may differ from the chain's, two periods, one fault and one
\* change of the plan.
SPECIFICATION Spec
CONSTANTS
    basic = basic
    pro = pro
    Keepers = {k1}
    Plans = {basic, pro}
    FirstPlan = basic
    Skews <- MCSkews
    Price <- MCPrice
    Frequency = 1
    FirstDue = 1
    Expiries = {0, 2}
    MaxPulls = 2
    Validity = 1
    MaxTime = 3
    MaxFaults = 1
    MaxChanges = 1
    None = None
INVARIANTS
    TypeOK
    RefusalHasCause
    PayableIsSeen
PROPERTIES
    BillingCompletes

\* The billing ends.
CHECK_DEADLOCK FALSE

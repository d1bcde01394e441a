CONSTANTS
    UsageCalls = {r1, r2}
    Units = {4, 5}
    MaxSafeInteger = 4
    TierCounts = {0, 1, 2}
    MaxAttempts = 2
    NoUnits = NoUnits
    HookClients = {"k1", "k2"}
    HookCalls = {"h1", "h2", "h3"}
    ClientOf <- MCClientOf
    TypeOrders <- MCTypeOrders
    MaxHooks = 3
    MaxHookFaults = 2
    Payloads <- MCPayloads
    NoHook = NoHook
    Rates = {1, 2}
    Caps = {3, NoCap}
    MinSettle = 1
    MaxStreamTime = 3
    MaxStreamTxs = 3
    NoCap = NoCap
    PlanTables <- MCPlanTables
    Clusters <- MCClusters
    MaxIndex = 1
    NoPlan = NoPlan
    NoSent = NoSent
    AccountVersions = {0, 1, 2, 3}
    NoReading = NoReading
    PlanAmounts <- MCPlanAmounts
    Frequency = 3
    Decimals = 1
    PutOff = {0, 2}
    MaxChangeTime = 4
    MaxChanges = 2
    NoOffer = NoOffer
    NoChange = NoChange
SPECIFICATION Spec
CHECK_DEADLOCK FALSE
INVARIANTS
    TypeOK
    ReportingSafe
    WebhooksSafe
    AddressesAgree
    WrittenReadsBack
PROPERTIES
    StreamsSafe
    ChangesAsShown
    PartsFinish

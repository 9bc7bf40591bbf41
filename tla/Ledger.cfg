SPECIFICATION Spec
CONSTANTS
    Undefined = Undefined
    Fields = {"provider", "userId"}
    Values = {"custom", "ann"}
    PolicyIds = {"per-user", "ann", "shadow"}
    Policy <- PerUserPolicies
    DayLength = 1
    MonthLength = 2
    Callers = {a, b}
    Lane <- LanePerCaller
    Ids = {r1, r2, r3}
    Keys = {"key"}
    RequestIds = {"q"}
    Requests <- LedgerRequests
    Amounts = {0, 2}
    Operations = {"reserve", "settle", "resize", "release", "recordActual"}
    RequiredContext = {"provider"}
    DefaultProvider = Undefined
    UnknownEstimate = "deny"
    MaxTime = 0
    MaxCharges = 2
SYMMETRY Symmetry
INVARIANTS
    TypeOK
    BudgetHeld
    CallsHeld
    ConcurrencyHeld
    OneRecordPerKey
    ChargedOnce
PROPERTIES
    NeverForgotten

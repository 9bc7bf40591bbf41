SPECIFICATION SpecSidecar
CONSTANTS
    Fields = {"provider", "userId"}
    Values = {"ann", "custom"}
    Undefined = Undefined
    PolicyIds = {"per-user"}
    Policy <- PerUser
    DayLength = 1
    MonthLength = 2
    Callers = {c1, c2}
    Lane <- OneLane
    Ids = {r1, r2}
    Keys = {"key"}
    RequestIds = {}
    Requests <- Recorded
    Amounts = {0}
    Operations = {"reserve", "settle", "release", "resize", "recordActual"}
    RequiredContext = {}
    DefaultProvider = Undefined
    UnknownEstimate = "deny"
    MaxTime = 1
    MaxCharges = 2
    Workflows = {w1, w2}
    RequestOf <- SameKey
    CostOf <- OneUnit
    StaleAge = 1
SYMMETRY Symmetry
CHECK_DEADLOCK FALSE
INVARIANTS
    PaidIsAccounted
    PaidOnce
    StatusAddsUp

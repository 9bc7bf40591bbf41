SPECIFICATION Spec
CONSTANTS
    Undefined = Undefined
    Fields = {"provider"}
    Values = {"custom"}
    PolicyIds = {"rolling"}
    Policy <- RollingPolicies
    DayLength = 1
    MonthLength = 2
    Callers = {a, b}
    Lane <- LanePerCaller
    Ids = {r1, r2}
    Keys = {"k"}
    RequestIds = {"q"}
    Requests <- OneUnit
    Amounts = {0, 1}
    Operations = {"reserve"}
    RequiredContext = {}
    DefaultProvider = Undefined
    UnknownEstimate = "deny"
    MaxTime = 2
    MaxCharges = 2
SYMMETRY Symmetry
INVARIANTS
    RollingBudgetHeld
CHECK_DEADLOCK FALSE

SPECIFICATION Spec
CONSTANTS
    Undefined = Undefined
    Fields = {"provider"}
    Values = {"custom"}
    PolicyIds = {"daily", "monthly"}
    Policy <- CalendarPolicies
    DayLength = 1
    MonthLength = 2
    Callers = {a, b}
    Lane <- LanePerCaller
    Ids = {r1, r2, r3}
    Keys = {"k"}
    RequestIds = {"q"}
    Requests <- OneUnit
    Amounts = {1, 2}
    Operations = {"reserve", "settle", "resize"}
    RequiredContext = {}
    DefaultProvider = Undefined
    UnknownEstimate = "deny"
    MaxTime = 1
    MaxCharges = 2
SYMMETRY Symmetry
INVARIANTS
    BudgetHeld
    OverspendReported

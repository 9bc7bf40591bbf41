SPECIFICATION SpecPlan
CONSTANTS
    Fields = {"provider", "userId"}
    Values = {"ann", "custom"}
    Undefined = Undefined
    PolicyIds = {"budget", "per-user"}
    Policy <- TwoPolicies
    DayLength = 1
    MonthLength = 2
    Workers = {w1, w2}
    Callers = {w1, w2, other}
    Lane <- LanePerCaller
    Ids = {r1, r2, r3}
    Keys = {}
    RequestIds = {}
    Requests <- OthersRequest
    Amounts = {0, 1}
    Operations = {"reserve", "settle"}
    RequiredContext = {}
    DefaultProvider = Undefined
    UnknownEstimate = "deny"
    MaxTime = 1
    MaxCharges = 3
    Plans <- TwoOperations
    Checks = {"simulate", "contract"}
SYMMETRY Symmetry
CHECK_DEADLOCK FALSE
INVARIANTS
    PassedPlanRuns
    TotalHeld

SPECIFICATION SpecClients
CONSTANTS
    Undefined = Undefined
    Fields = {"provider"}
    Values = {"custom"}
    PolicyIds = {"rolling"}
    Policy <- RollingBudget
    DayLength = 1
    MonthLength = 1
    Callers = {a, b}
    Lane <- OneLane
    Ids = {r1, r2}
    Keys = {"key"}
    RequestIds = {"q"}
    Requests <- UnitOrUnknown
    Amounts = {1}
    Operations = {"reserve", "settle", "resize", "release"}
    RequiredContext = {}
    DefaultProvider = Undefined
    UnknownEstimate = "allow"
    MaxTime = 1
    MaxCharges = 2
    Programs = {{"protect"}, {"reserve", "topUp", "resize", "release"}, {"reserve", "settle", "release"}}
    OnOperationError = {"release", "keep-open"}
CHECK_DEADLOCK FALSE
INVARIANTS
    PaidWorkIsHeld
    DuplicateExecutionBlocked
    OutcomeIsTrue
    ClosedMeansGone
    RollingBudgetHeld
PROPERTIES
    WaitsEnd

SPECIFICATION Spec
CONSTANTS
    Callers = {c1, c2}
    Ids = {r1, r2}
    Providers = {"openai"}
    Undefined = Undefined
    Limit <- TwoScopes
    WarnAt = {80}
    UnknownEstimate = "deny"
    Estimates = {1}
    Costs = {2}
    Uses = {"protect", "reserve", "settle", "release", "record"}
    OnOperationError = {"hold", "release"}
    StoreFails = TRUE
    WarningThrows = TRUE
    DayLength = 1
    MonthLength = 2
    MaxTime = 1
    MaxCharges = 2
SYMMETRY Symmetry
CHECK_DEADLOCK FALSE
INVARIANTS
    BudgetHeld
    DecidesAsFirewall
    ChargedOnce
    PaidWorkIsHeld
    OutcomeIsTrue

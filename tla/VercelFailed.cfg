SPECIFICATION Spec
CONSTANTS
    Kinds = {"stream"}
    ReleaseOnProviderError = {FALSE}
    MaxParts = 3
INVARIANT
    FailedStaysOpen
CHECK_DEADLOCK FALSE

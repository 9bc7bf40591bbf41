SPECIFICATION Spec
CONSTANTS
    Kinds = {"generate", "stream"}
    ReleaseOnProviderError = {TRUE, FALSE}
    MaxParts = 4
INVARIANTS
    OpenIsReported
    NotifiedOnce
    AnswerIsTrue
CHECK_DEADLOCK FALSE

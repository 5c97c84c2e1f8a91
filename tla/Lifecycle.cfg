\* Listening starts within the grace period; two requests at a time.
SPECIFICATION Spec
CONSTANTS
    EnableRateLimiter = TRUE
    PromptListen = TRUE
    OthersStop = TRUE
    MaxRequests = 2
INVARIANTS
    NoUseAfterDestruction
    NothingLeftBehind
    SignalRemembered
    ExitStatusTruthful
PROPERTIES
    ShutdownCompletes
    FailureEnds

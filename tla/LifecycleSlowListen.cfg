\* listen() may take longer than the grace period to accept connections.
SPECIFICATION Spec
CONSTANTS
    EnableRateLimiter = FALSE
    PromptListen = FALSE
    OthersStop = FALSE
    MaxRequests = 1
PROPERTIES
    ShutdownCompletes

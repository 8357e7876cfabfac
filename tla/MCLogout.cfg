SPECIFICATION MCSpec
CONSTANTS
    Requests = {1, 2}
    MaxAttempts = 3
    None = None
    Original = Original
    CookieParser = FALSE
    Workloads <- LogoutWorkloads
INVARIANTS
    LogoutInvalidates

SPECIFICATION MCSpec
CONSTANTS
    Requests = {1, 2, 3, 4}
    MaxAttempts = 1
    None = None
    Original = Original
    CookieParser = TRUE
    Workloads <- MCWorkloads
INVARIANTS
    TypeOK
    OneValidOTP
    AcceptedOnce
    AttemptsLimited
    ChangesNeedOTP
    RotatedOnce
    ChangeEndsSessions
    OldPasswordRefused
    LogoutEndsSession

CONSTANTS
    MaxRetries = 1
    BackoffBase = 2
    BackoffCap = 2
    JitterQuarters = 1
    MaxRetryAfter = 3
    Poll = 2
    Waits = {0, 4}
    Clock = 1
    Statuses = {400, 429, 500, 501}
    Router = "sticky"
    SdkModels = {"longer"}
    None = None
    MaxTurns = 2
    Servers = 2
    Specs = {t1, t2, Nameless}
    Nameless = Nameless
    MaxCycles = 4
    Interceptors = 3
    NoError = NoError
    Plugins = {1, 2, 3, 4}
    Shared = {1, 4}
    Subject = 1
SPECIFICATION ServicesSpec
INVARIANTS AbortStopsRetries  SessionsOwned AftersPaired AnswersExact
PROPERTY WorkersEnd
CHECK_DEADLOCK FALSE

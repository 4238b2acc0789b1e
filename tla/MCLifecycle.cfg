SPECIFICATION LifecycleSpec
CONSTANTS
    r1 = r1  r2 = r2  h1 = h1
    NULL = NULL
    MaxInt32 = 31
    Envs <- SomeEnvs
    ApiRequest = {r1, r2}
    HealthRequest = {h1}
    RequestTimeout = 2
    MaxSignals = 1
    MaxOutages = 2
INVARIANTS LifecycleTypeOK LoadExact CleanExit GraceKept ServedWithPool
PROPERTIES SignalEndsProcess
CHECK_DEADLOCK FALSE

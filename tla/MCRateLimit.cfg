SPECIFICATION Spec
CONSTANTS
    c1 = c1  lb = lb  g1 = g1  g2 = g2  s1 = s1  s2 = s2
    NULL = NULL
    Host = {c1, lb}
    TrustedProxies = {lb}
    Arrivals <- AllArrivals
    Configs <- SomeConfigs
    IdleTimeout = 1
    SweepInterval = 1
    SweepEvery = 2
    Goroutine = {g1, g2}
    Sweeper = {s1, s2}
    MaxTime = 2
    MaxRequests = 3
INVARIANTS RateTypeOK AdmissionBound NoIdleStorm
PROPERTIES RetryAfterSuffices SweptClean
SYMMETRY Workers
CHECK_DEADLOCK FALSE

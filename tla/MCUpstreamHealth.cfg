SPECIFICATION UpstreamSpec
CONSTANTS
    w1 = w1
    w2 = w2
    r1 = r1
    r2 = r2
    Worker <- Workers
    Route <- TwoRoutes
    Default <- Small
    Given <- Small
    MaxCount = 3
    a = a
    b = b
    Thread <- Threads
    Nobody = Nobody
    ThreadConfig <- Brief
    c1 = c1
    c2 = c2
    t1 = t1
    o1 = o1
    o2 = o2
    o3 = o3
    Checker <- Checkers
    Target <- Targets
    HealthObject <- Objects
    NoObject = NoObject
    failure_threshold = 2
INVARIANTS
    ClosedBelowThreshold
    TripPending
    UnhealthyIsEarned
PROPERTIES
    OutageBounded
    Recovers
    ThreadsTrip
    ThreadsRecover
    OutageNoticed
    RecoveryNoticed

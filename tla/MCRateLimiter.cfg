SPECIFICATION Spec
CONSTANTS
    w1 = w1
    w2 = w2
    r1 = r1
    b1 = b1
    b2 = b2
    b3 = b3
    b4 = b4
    None = None
    Worker <- Workers
    Route <- Routes
    Bucket <- Buckets
    Config <- Configs
    Default <- Slow
    Unit = 2
    MaxTime = 2
SYMMETRY Symmetry
INVARIANTS
    RateBound
    ConfigSticks
    OvershootBounded
PROPERTIES
    IsThrottle

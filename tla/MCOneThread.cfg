SPECIFICATION OneThreadSpec
CONSTANTS
    w1 = w1
    a = a
    b = b
    c = c
    p = p
    Worker <- OneWorker
    Key <- Keys
    Cacheable <- GetKeys
    TTL = 2
    MaxEntries = 2
    MaxVersion = 1
    Attempts = {0, 1, 2, 4}
    Status = {"200", "404", "502", "503"}
    DefaultRetryable = {"502", "503"}
    Base = 1
    Multiplier = 2
    MaxBackoff = 3
INVARIANTS
    LeastRecentFirst
    ResultTellsTheEnd
    AttemptsHonest
    BackoffGrowsToCap
PROPERTIES
    NoExpiredHit
    NeverBackInTime
CHECK_DEADLOCK FALSE

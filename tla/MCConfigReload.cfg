SPECIFICATION FairSpec
CONSTANTS
    MaxWrites = 4
    CoarseMtime = FALSE
INVARIANTS
    TypeOK
    QuietMeansCurrent
    AtMostOneLateUpdate
PROPERTIES
    NeverOlder
    PicksUpChanges
    StopEnds
CHECK_DEADLOCK FALSE

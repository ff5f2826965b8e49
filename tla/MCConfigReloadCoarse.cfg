SPECIFICATION FairSpec
CONSTANTS
    MaxWrites = 2
    CoarseMtime = TRUE
PROPERTIES
    PicksUpChanges
CHECK_DEADLOCK FALSE

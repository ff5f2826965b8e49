SPECIFICATION FairSpec
CONSTANTS
    w1 = w1
    w2 = w2
    Worker <- Workers
    Method <- Get
    Target <- BarTargets
    Query <- BarQueries
    Body <- Bodies
INVARIANTS
    SingleFlight
    RegistryExact
PROPERTIES
    KeysReleased

SPECIFICATION Spec
CONSTANTS
    w1 = w1
    w2 = w2
    Worker <- Workers
    Method <- Get
    Target <- PlainTargets
    Query <- PlainQueries
    Body <- Bodies
PROPERTIES
    RejectedOnlyForDuplicate

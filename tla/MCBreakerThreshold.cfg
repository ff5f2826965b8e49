SPECIFICATION Spec
CONSTANTS
    w1 = w1
    w2 = w2
    r1 = r1
    r2 = r2
    Worker <- Workers
    Route <- OneRoute
    Default <- SourceDefault
    Given <- TestFixture
    MaxCount = 6
INVARIANTS
    OpensAtGivenThreshold

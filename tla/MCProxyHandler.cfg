SPECIFICATION FairSpec
CONSTANTS
    w1 = w1
    Worker = {w1}
    Piece <- Pieces
    Path <- Paths
    Method = {"GET", "POST"}
    Prefix <- RulePrefixes
    Target = {"a", "b", "noscheme"}
    BadTarget = {"noscheme"}
    Config <- Configs
    NoConfig = NoConfig
    OkStatus = {"200"}
    ErrStatus = {"404", "500"}
INVARIANTS
    TypeOK
    OneConfig
    FirstHeadHonest
    AnsweredOnce
PROPERTIES
    Unstuck

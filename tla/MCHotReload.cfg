SPECIFICATION HotSpec
CONSTANTS
    MaxWrites = 2
    CoarseMtime = FALSE
    w1 = w1
    Worker = {w1}
    Piece <- Pieces
    Path <- Paths
    Method = {"GET"}
    Prefix <- Prefixes
    Target = {"a", "b"}
    BadTarget = {}
    Config <- Configs
    NoConfig = NoConfig
    OkStatus = {"200"}
    ErrStatus = {"500"}
    Parsed <- Versions
INVARIANTS
    DecidedByTheFile

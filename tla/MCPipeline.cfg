SPECIFICATION Spec
CONSTANTS
    w1 = w1
    w2 = w2
    None = None
    Now = 100
    int <- Ints
    lower <- Lowers
    upper <- Uppers1
    first <- Firsts
    network <- Networks
    Rooted <- RootedTexts
    jwt <- Tokens
    signature <- Signatures
    NonAscii <- NonAsciiTexts
    NoteSize = 5
    HasGzip <- GzipTexts
    base_type <- BaseTypes
    gzip <- GzipLength
    Caller <- Both
    Deployment <- Deployments
    Route <- Routes
INVARIANTS
    ForwardedIffEntitled
    LastRefusalSpeaks
    ErrorsMatchAnswers
    HonestAnswer
    LimitHeld
CHECK_DEADLOCK FALSE

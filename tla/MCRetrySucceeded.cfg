SPECIFICATION RetrySpec
CONSTANTS
    Attempts = {0, 1, 2, 4}
    Status = {"200", "404", "502", "503"}
    DefaultRetryable = {"502", "503"}
    Base = 1
    Multiplier = 2
    MaxBackoff = 3
INVARIANTS
    ExhaustedIsNotSuccess
CHECK_DEADLOCK FALSE

SPECIFICATION FairSpec
CONSTANTS
    c1 = c1
    c2 = c2
    Chan = {c1}
    MaxBytes = 3
    MaxMsg = 2
    BufSize = 2
    Client = "expect"
    Timer = TRUE
    Masks <- MCReadable
    MayBlock = TRUE
    MayClose = TRUE
PROPERTIES
    Delivery
    CloseEnds
CHECK_DEADLOCK FALSE

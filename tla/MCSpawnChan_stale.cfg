SPECIFICATION FairSpec
CONSTANTS
    c1 = c1
    c2 = c2
    Chan = {c1}
    MaxBytes = 2
    MaxMsg = 1
    BufSize = 2
    Client = "background"
    Timer = TRUE
    Masks <- MCReadable
    MayBlock = FALSE
    MayClose = FALSE
PROPERTIES
    Delivery
CHECK_DEADLOCK FALSE

SPECIFICATION Spec
CONSTANTS
    c1 = c1
    c2 = c2
    Chan = {c1}
    MaxBytes = 1
    MaxMsg = 1
    BufSize = 2
    Client = "expect"
    Timer = FALSE
    Masks <- MCReadable
    MayBlock = FALSE
    MayClose = FALSE
INVARIANTS
    NoLostWakeup
CHECK_DEADLOCK FALSE

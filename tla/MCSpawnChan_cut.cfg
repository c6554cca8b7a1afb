SPECIFICATION Spec
CONSTANTS
    c1 = c1
    c2 = c2
    Chan = {c1, c2}
    MaxBytes = 1
    MaxMsg = 1
    BufSize = 1
    Client = "background"
    Timer = TRUE
    Masks <- MCReadable
    MayBlock = FALSE
    MayClose = TRUE
CONSTRAINT QueueBound
INVARIANTS
    NoEventAfterFree
CHECK_DEADLOCK FALSE

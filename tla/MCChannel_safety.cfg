\* Two spawn ids and a variable that names them; one channel of the script and a
\* spawn id over it; one channel with background use, both interests, blocking
\* mode and a close.
SPECIFICATION MCSpec
CONSTANTS
    i1 = i1
    i2 = i2
    i3 = i3
    v1 = v1
    Nobody = Nobody
    Ids = {i1, i2}
    Vars = {v1}
    Commands <- MCIndirect
    MaxDepth = 2
    MaxCount = 2
    c1 = c1
    c2 = c2
    Chan = {c1}
    MaxBytes = 3
    MaxMsg = 2
    BufSize = 2
    Client = "background"
    Timer = TRUE
    Masks <- MCReadableOrWritable
    MayBlock = TRUE
    MayClose = TRUE
    Opened = {o1}
    Spawned = {e1}
    NoChannel = NoChannel
SYMMETRY MCSymmetry2
CONSTRAINT QueueBound
INVARIANTS
    HandlerMatchesStatus
    HandlerIsSafe
    Forwarded
    HandlersAreLive
PROPERTIES
    ImplementsByteStream
CHECK_DEADLOCK FALSE

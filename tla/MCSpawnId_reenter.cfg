SPECIFICATION IdSpec
CONSTANTS
    i1 = i1
    i2 = i2
    i3 = i3
    v1 = v1
    Nobody = Nobody
    Ids = {i1}
    Vars = {}
    Commands <- MCBackground
    MaxDepth = 4
    MaxCount = 2
INVARIANT
    NotReentered
CHECK_DEADLOCK FALSE

SPECIFICATION IdSpec
CONSTANTS
    i1 = i1
    i2 = i2
    i3 = i3
    v1 = v1
    Nobody = Nobody
    Ids = {i1, i2}
    Vars = {}
    Commands <- MCDirect
    MaxDepth = 3
    MaxCount = 2
SYMMETRY MCSymmetry2
INVARIANTS
    CasesAreServed
    ClosedAndWaitedIsFreed
CHECK_DEADLOCK FALSE

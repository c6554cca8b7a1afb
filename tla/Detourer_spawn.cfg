\* Mailboxes of two slots, which fill.
SPECIFICATION DetourFair
CONSTANTS
    IPCto_NUMSLOTS = 2
    IPCfrom_NUMSLOTS = 2
    MaxPrints = 3
PROPERTY SpawnReturns
CHECK_DEADLOCK FALSE

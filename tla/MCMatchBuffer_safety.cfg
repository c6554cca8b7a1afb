\* match_max raised and lowered, nulls, both commands nested; two threads put on
\* a list, one of them gets.
SPECIFICATION MCSpec
CONSTANTS
    Sizes <- MCSizes
    UtfMax = 3
    Nulls <- MCNulls
    MaxChars = 5
    MaxDepth = 3
    Manual = TRUE
    Producers = {p}
    Consumers = {t}
    Data = {x, y}
    Nodes = {1, 2, 3, 4}
    Nobody = nobody
INVARIANTS
    ShownOnce
    NothingForgotten
    NothingOverlooked
    ListIntact
PROPERTY StraddlingMatch
CHECK_DEADLOCK FALSE

SPECIFICATION MCSpec
CONSTANTS
    s1 = s1
    s2 = s2
    v = v
    Ids = {s1, s2}
    AnyId = any
    Vars = {v}
    Recs = {r1, r2, r3, r4}
    Uses = {"pattern", "timeout", "eof", "default"}
    Args <- Lines
    Blocks <- MCBlocks
    MaxCalls = 3
    Letters <- MCLetters
    Files <- MCFiles
    Paths <- MCPaths
    ArgLists <- MCArgs
    EnvLists <- MCEnv
    Commands = {"close", "exit", "send"}
    Scripted <- MCScripted
    MaxLines = 3
    MaxDepth = 5
    None = none
    Chars <- MCChars
    Patterns <- MCPatterns
    MaxText = 3
    Years <- MCYears
    Formats <- MCFormats
    Sentences <- MCSentences
INVARIANTS
    Accounted
    LatestWins
    FirstFits
    Launched
    LinesOnce
    EndsOnce
    LongestMatch
    Dated
    Restored
CHECK_DEADLOCK FALSE

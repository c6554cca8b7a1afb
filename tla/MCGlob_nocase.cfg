SPECIFICATION GlobSpec
CONSTANTS
    Chars <- MCChars
    Patterns <- MCPatterns
    MaxText = 2
INVARIANT OutputFolds
CHECK_DEADLOCK FALSE
